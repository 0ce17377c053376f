----------------------------- MODULE TokenStore -----------------------------
(***************************************************************************)
(* Tokens of the credentials: how they are refreshed, replaced, reloaded   *)
(* and written to the credential file by concurrent tasks.                 *)
(*                                                                         *)
(* A token is known by the login it descends from, the number of refreshes *)
(* of that login (acc: each gives a new access token) and the generation   *)
(* of its refresh token (ref).  The identity provider accepts only the     *)
(* last generation it issued: presenting an older one is an invalid_grant. *)
(*                                                                         *)
(* A task is one call of try_ensure_token, of a read-only upstream query   *)
(* (prepare_request_token, get_usage_limits_for, set_user_preference_for), *)
(* of force_refresh_token_for, or of an Admin handler that changes tokens. *)
(* Its steps are separated where it awaits or lets go of a lock.           *)
(***************************************************************************)
EXTENDS Integers, FiniteSets

CONSTANTS
    Creds, Tasks, Nobody,   \* Nobody holds a free lock
    Ops,            \* the operations tasks perform
    MaxLogins,      \* bound: logins issued for a credential; later ones give up
    MaxRefreshes,   \* bound: refreshes of a login
    HasFile,        \* a multi-credential file is configured
    Rotates,        \* a refresh may issue a new refresh token
    Loses,          \* an answer may be lost, or carry an expired token
    Revokes,        \* the provider may revoke a login
    WriteFails,     \* writing the file may fail
    Others,         \* other programs refresh the file's tokens
    Crashes         \* the process may crash and restart from the file

VARIABLES
    mem,            \* entries: token and state of each credential
    file,           \* the credential file
    issued,         \* the provider: last [acc, ref] of each login
    revoked,        \* the provider: logins it no longer accepts
    task,           \* the tasks in progress
    refreshLock, persistLock,
    acked           \* history: last login an Admin handler acknowledged

vars == <<mem, file, issued, revoked, task, refreshLock, persistLock, acked>>

ASSUME SwitchesAssumption ==
    /\ {HasFile, Rotates, Loses, Revokes, WriteFails, Others, Crashes} \subseteq BOOLEAN
    /\ Ops \subseteq {"ensure", "query", "force", "relogin", "token", "switch", "delete"}
    /\ MaxLogins \in Nat \ {0} /\ MaxRefreshes \in Nat
    /\ Nobody \notin Tasks

Logins == 1..MaxLogins
Token == [login : Logins, acc : 0..MaxRefreshes, ref : 0..MaxRefreshes]
NoToken == [login |-> 0, acc |-> 0, ref |-> 0]
FirstToken(l) == [login |-> l, acc |-> 0, ref |-> 0]

Record == [live : BOOLEAN, token : Token, fresh : BOOLEAN, disabled : BOOLEAN,
           invalid : BOOLEAN]
\* What of an entry the file holds (credentials_snapshot).
Saved == [live : BOOLEAN, token : Token, disabled : BOOLEAN, invalid : BOOLEAN]

Snapshot(e) == [live |-> e.live, token |-> e.token, disabled |-> e.disabled,
                invalid |-> e.invalid]
Restored(s) == [live |-> s.live, token |-> s.token, fresh |-> TRUE,
                disabled |-> s.disabled, invalid |-> s.invalid]

Idle == [pc |-> "idle", op |-> "ensure", cred |-> 0, sent |-> NoToken,
         got |-> NoToken, image |-> <<>>, login |-> 0]

Init ==
    /\ mem = [c \in Creds |-> Restored([live |-> TRUE, token |-> FirstToken(1),
                                        disabled |-> FALSE, invalid |-> FALSE])]
    /\ file = [c \in Creds |-> Snapshot(mem[c])]
    /\ issued = [c \in Creds |-> [l \in Logins |-> [acc |-> 0, ref |-> 0]]]
    /\ revoked = {}
    /\ task = [t \in Tasks |-> Idle]
    /\ refreshLock = Nobody /\ persistLock = Nobody
    /\ acked = [c \in Creds |-> 1]

At(t, pc) == task[t].pc = pc
Cred(t) == task[t].cred
Goto(t, pc) == task' = [task EXCEPT ![t].pc = pc]
Return(t) == task' = [task EXCEPT ![t] = Idle]
Provider == <<issued, revoked>>

-----------------------------------------------------------------------------
(* Where tasks begin. *)

StartAs(t, op, c, pc, login) ==
    /\ op \in Ops /\ At(t, "idle")
    /\ task' = [task EXCEPT ![t] = [Idle EXCEPT !.pc = pc, !.op = op, !.cred = c,
                                               !.login = login]]
    /\ UNCHANGED <<file, Provider, refreshLock, persistLock, acked>>

(* An expired token sends a task to the refresh lock; a request only takes *)
(* enabled credentials, a query any, a forced refresh also a fresh token.  *)
StartRefresh(t, op, c) ==
    /\ op \in {"ensure", "query", "force"} /\ mem[c].live
    /\ op = "ensure" => ~mem[c].disabled
    /\ op # "force" => ~mem[c].fresh
    /\ StartAs(t, op, c, "lock", 0)
    /\ UNCHANGED mem

\* A login of this credential that was never used.  Logins are numbered in the
\* order in which they are installed.
NewLogins(c) ==
    LET used == {mem[c].token.login, file[c].token.login}
                  \cup {task[t].login : t \in {u \in Tasks : Cred(u) = c}}
                  \cup {l \in Logins : issued[c][l].acc > 0 \/ <<c, l>> \in revoked}
    IN  {l \in Logins : \A u \in used : u < l}

\* The user has logged in again; replace_idc_relogin_credentials is called.
StartRelogin(t, c) == NewLogins(c) # {} /\ StartAs(t, "relogin", c, "lock", 0) /\ UNCHANGED mem

\* update_refresh_token: no refresh lock, and only for a disabled credential.
SetToken(t, c) ==
    /\ mem[c].live /\ mem[c].disabled
    /\ \E login \in NewLogins(c), supplied \in BOOLEAN :
         /\ StartAs(t, "token", c, "persist", login)
         /\ mem' = [mem EXCEPT ![c].token = FirstToken(login), ![c].fresh = supplied]

\* set_disabled, both ways.
Switch(t, c) ==
    /\ mem[c].live
    /\ StartAs(t, "switch", c, "persist", 0)
    /\ mem' = [mem EXCEPT ![c].disabled = ~@, ![c].invalid = FALSE]

Delete(t, c) ==
    /\ mem[c].live
    /\ StartAs(t, "delete", c, "persist", 0)
    /\ mem' = [mem EXCEPT ![c].live = FALSE]

-----------------------------------------------------------------------------
(* Under the refresh lock. *)

\* Slip: refreshing without the lock.
AcquireUnlocked(t) ==
    LET e == mem[Cred(t)]
        op == task[t].op
    IN  /\ At(t, "lock") /\ op # "relogin"
        /\ IF e.live /\ (op = "force" \/ ~e.fresh)
           THEN /\ refreshLock' = t
                /\ task' = [task EXCEPT ![t].pc = "sent", ![t].sent = e.token]
           ELSE UNCHANGED refreshLock /\ Return(t)
        /\ UNCHANGED <<mem, file, Provider, persistLock, acked>>

\* The record is read again once the lock is held.
Acquire(t) ==
    LET e == mem[Cred(t)]
        op == task[t].op
    IN  /\ At(t, "lock") /\ op # "relogin" /\ refreshLock = Nobody
        /\ IF e.live /\ (op = "force" \/ ~e.fresh)
           THEN /\ refreshLock' = t
                /\ task' = [task EXCEPT ![t].pc = "sent", ![t].sent = e.token]
           ELSE UNCHANGED refreshLock /\ Return(t)
        /\ UNCHANGED <<mem, file, Provider, persistLock, acked>>

\* A new login replaces everything and is not held up by the disk.
Relogin(t) ==
    LET c == Cred(t)
    IN  /\ At(t, "lock") /\ task[t].op = "relogin" /\ refreshLock = Nobody
        /\ IF mem[c].live /\ NewLogins(c) # {}
           THEN \E login \in NewLogins(c) :
                  /\ mem' = [mem EXCEPT ![c] = [@ EXCEPT !.token = FirstToken(login),
                                                         !.fresh = TRUE, !.disabled = FALSE,
                                                         !.invalid = FALSE]]
                  /\ task' = [task EXCEPT ![t].pc = "persist", ![t].login = login]
           ELSE UNCHANGED mem /\ Return(t)
        /\ UNCHANGED <<file, Provider, refreshLock, persistLock, acked>>

Accepts(c, k) == k.ref = issued[c][k.login].ref /\ <<c, k.login>> \notin revoked

(* The provider answers.  An answer that is lost, or whose token is already *)
(* expired, is an error of the task, and the token it carried is gone.      *)
Answer(t) ==
    LET c == Cred(t)
        k == task[t].sent
    IN  /\ At(t, "sent") /\ Accepts(c, k) /\ issued[c][k.login].acc < MaxRefreshes
        /\ \E rotated \in {FALSE, Rotates} :
             LET new == [k EXCEPT !.acc = issued[c][k.login].acc + 1,
                                  !.ref = IF rotated THEN @ + 1 ELSE @]
             IN  /\ issued' = [issued EXCEPT ![c][k.login] = [acc |-> new.acc, ref |-> new.ref]]
                 /\ \/ /\ task' = [task EXCEPT ![t].pc = "merge", ![t].got = new]
                       /\ UNCHANGED refreshLock
                    \/ Loses /\ Return(t) /\ refreshLock' = Nobody
        /\ UNCHANGED <<mem, file, revoked, persistLock, acked>>

\* A network error, a 5xx or a 429: nothing has changed.
AnswerFails(t) ==
    /\ At(t, "sent")
    /\ Return(t) /\ refreshLock' = Nobody
    /\ UNCHANGED <<mem, file, Provider, persistLock, acked>>

\* Slip: the lock is not let go of on a refusal.
RefuseKeepingLock(t) ==
    /\ At(t, "sent") /\ ~Accepts(Cred(t), task[t].sent)
    /\ IF task[t].op = "ensure" THEN Goto(t, "reload") ELSE Return(t)
    /\ UNCHANGED <<mem, file, issued, revoked, refreshLock, persistLock, acked>>

\* invalid_grant: only a request goes on to reload or report.
Refuse(t) ==
    /\ At(t, "sent") /\ ~Accepts(Cred(t), task[t].sent)
    /\ refreshLock' = Nobody
    /\ IF task[t].op = "ensure" THEN Goto(t, "reload") ELSE Return(t)
    /\ UNCHANGED <<mem, file, issued, revoked, persistLock, acked>>

\* Slip: the answer is stored whatever became of the token it replaces.
MergeBlindly(t) ==
    LET c == Cred(t)
    IN  /\ At(t, "merge")
        /\ IF mem[c].live
           THEN /\ mem' = [mem EXCEPT ![c].token = task[t].got, ![c].fresh = TRUE]
                /\ Goto(t, "persist")
                /\ refreshLock' = IF task[t].op = "force" THEN Nobody ELSE t
           ELSE UNCHANGED mem /\ Return(t) /\ refreshLock' = Nobody
        /\ UNCHANGED <<file, Provider, persistLock, acked>>

(* merge_refreshed_credentials: only over the token that was refreshed.  A  *)
(* forced refresh lets go of the lock before it writes the file.            *)
Merge(t) ==
    LET c == Cred(t)
    IN  /\ At(t, "merge")
        /\ IF mem[c].live /\ mem[c].token = task[t].sent
           THEN /\ mem' = [mem EXCEPT ![c].token = task[t].got, ![c].fresh = TRUE]
                /\ Goto(t, "persist")
                /\ refreshLock' = IF task[t].op = "force" THEN Nobody ELSE t
           ELSE UNCHANGED mem /\ Return(t) /\ refreshLock' = Nobody
        /\ UNCHANGED <<file, Provider, persistLock, acked>>

-----------------------------------------------------------------------------
(* persist_credentials: the snapshot is taken under the persist lock. *)

\* Slip: whoever finishes frees the refresh lock.
FinishFreeing(t, ok) ==
    /\ Return(t)
    /\ refreshLock' = Nobody
    /\ acked' = IF ok /\ task[t].login > 0
                THEN [acked EXCEPT ![Cred(t)] = IF task[t].login > @ THEN task[t].login ELSE @]
                ELSE acked

Finish(t, ok) ==
    /\ Return(t)
    /\ refreshLock' = IF refreshLock = t THEN Nobody ELSE refreshLock
    /\ acked' = IF ok /\ task[t].login > 0
                THEN [acked EXCEPT ![Cred(t)] = IF task[t].login > @ THEN task[t].login ELSE @]
                ELSE acked

\* Slip: the snapshot is taken before the persist lock.
PersistUnlocked(t) ==
    /\ At(t, "persist")
    /\ IF HasFile
       THEN /\ persistLock' = t
            /\ task' = [task EXCEPT ![t].pc = "write",
                                    ![t].image = [c \in Creds |-> Snapshot(mem[c])]]
            /\ UNCHANGED <<refreshLock, acked>>
       ELSE Finish(t, TRUE) /\ UNCHANGED persistLock
    /\ UNCHANGED <<mem, file, Provider>>

Persist(t) ==
    /\ At(t, "persist")
    /\ IF HasFile
       THEN /\ persistLock = Nobody /\ persistLock' = t
            /\ task' = [task EXCEPT ![t].pc = "write",
                                    ![t].image = [c \in Creds |-> Snapshot(mem[c])]]
            /\ UNCHANGED <<refreshLock, acked>>
       ELSE Finish(t, TRUE) /\ UNCHANGED persistLock
    /\ UNCHANGED <<mem, file, Provider>>

\* Slip: a failed write is reported as a success.
WriteAcknowledged(t) ==
    /\ At(t, "write")
    /\ \E ok \in {TRUE, ~WriteFails} :
           /\ file' = IF ok THEN task[t].image ELSE file
           /\ Finish(t, TRUE)
    /\ persistLock' = Nobody
    /\ UNCHANGED <<mem, Provider>>

Write(t) ==
    /\ At(t, "write")
    /\ \E ok \in {TRUE, ~WriteFails} :
           /\ file' = IF ok THEN task[t].image ELSE file
           /\ Finish(t, ok)
    /\ persistLock' = Nobody
    /\ UNCHANGED <<mem, Provider>>

-----------------------------------------------------------------------------
(* try_reload_credential_from_file: the file, the entry's identity and the *)
(* entry are visited one after the other, without the refresh lock.        *)

ReadFile(t) ==
    LET s == file[Cred(t)]
    IN  /\ At(t, "reload")
        /\ task' = IF HasFile /\ s.live
                   THEN [task EXCEPT ![t].pc = "match", ![t].got = s.token]
                   ELSE [task EXCEPT ![t].pc = "report"]
        /\ UNCHANGED <<mem, file, Provider, refreshLock, persistLock, acked>>

SameRefreshToken(a, b) == a.login = b.login /\ a.ref = b.ref

Match(t) ==
    LET e == mem[Cred(t)]
    IN  /\ At(t, "match")
        /\ Goto(t, IF e.live /\ ~SameRefreshToken(e.token, task[t].got)
                   THEN "adopt" ELSE "report")
        /\ UNCHANGED <<mem, file, Provider, refreshLock, persistLock, acked>>

\* The credential is taken into service with the file's token, and tried again.
Adopt(t) ==
    LET c == Cred(t)
    IN  /\ At(t, "adopt")
        /\ \E fresh \in BOOLEAN :
             mem' = IF mem[c].live
                    THEN [mem EXCEPT ![c].token = task[t].got, ![c].fresh = fresh,
                                     ![c].disabled = FALSE, ![c].invalid = FALSE]
                    ELSE mem
        /\ Return(t)
        /\ UNCHANGED <<file, Provider, refreshLock, persistLock, acked>>

\* report_refresh_token_invalid.
Report(t) ==
    LET c == Cred(t)
    IN  /\ At(t, "report")
        /\ IF mem[c].live /\ ~mem[c].disabled
           THEN /\ mem' = [mem EXCEPT ![c].disabled = TRUE, ![c].invalid = TRUE]
                /\ Goto(t, "persist")
           ELSE UNCHANGED mem /\ Return(t)
        /\ UNCHANGED <<file, Provider, refreshLock, persistLock, acked>>

-----------------------------------------------------------------------------
(* The world outside. *)

Expire(c) ==
    /\ mem[c].live /\ mem[c].fresh
    /\ mem' = [mem EXCEPT ![c].fresh = FALSE]
    /\ UNCHANGED <<file, Provider, task, refreshLock, persistLock, acked>>

Revoke(c) ==
    /\ Revokes /\ <<c, mem[c].token.login>> \notin revoked
    /\ revoked' = revoked \cup {<<c, mem[c].token.login>>}
    /\ UNCHANGED <<mem, file, issued, task, refreshLock, persistLock, acked>>

\* Another program refreshes the token of the file, and writes it back.
OtherRefreshes(c) ==
    LET k == file[c].token
        new == [k EXCEPT !.acc = issued[c][k.login].acc + 1, !.ref = @ + 1]
    IN  /\ Others /\ HasFile /\ file[c].live
        /\ Accepts(c, k) /\ issued[c][k.login].acc < MaxRefreshes
        /\ issued' = [issued EXCEPT ![c][k.login] = [acc |-> new.acc, ref |-> new.ref]]
        /\ file' = [file EXCEPT ![c].token = new]
        /\ UNCHANGED <<mem, revoked, task, refreshLock, persistLock, acked>>

\* The file is replaced by renaming a complete one over it: a crash leaves the
\* old one or the new one.
Restart ==
    /\ Crashes
    /\ mem' = [c \in Creds |-> Restored(file[c])]
    /\ task' = [t \in Tasks |-> Idle]
    /\ refreshLock' = Nobody /\ persistLock' = Nobody
    /\ UNCHANGED <<file, Provider, acked>>

TaskStep(t) ==
    \/ Acquire(t) \/ Relogin(t) \/ Answer(t) \/ AnswerFails(t) \/ Refuse(t) \/ Merge(t)
    \/ Persist(t) \/ Write(t) \/ ReadFile(t) \/ Match(t) \/ Adopt(t) \/ Report(t)

Start(t, c) ==
    \/ \E op \in Ops : StartRefresh(t, op, c)
    \/ StartRelogin(t, c) \/ SetToken(t, c) \/ Switch(t, c) \/ Delete(t, c)

Next ==
    \/ \E t \in Tasks : TaskStep(t) \/ \E c \in Creds : Start(t, c)
    \/ \E c \in Creds : Expire(c) \/ OtherRefreshes(c) \/ Revoke(c)
    \/ Restart

Spec == Init /\ [][Next]_vars

(* The runtime polls a woken task and the HTTP client times out; both locks *)
(* are handed over fairly (tokio's Mutex is a FIFO queue, parking_lot's is  *)
(* eventually fair), which is what strong fairness of the steps that take   *)
(* them stands for.                                                         *)
Fairness ==
    \A t \in Tasks : /\ WF_vars(TaskStep(t))
                     /\ SF_vars(Acquire(t) \/ Relogin(t))
                     /\ SF_vars(Persist(t))

FairSpec == Spec /\ Fairness

-----------------------------------------------------------------------------
(* Properties. *)

PCs == {"idle", "lock", "sent", "merge", "persist", "write", "reload", "match",
        "adopt", "report"}

(* Every variable stays in its type, and only a task that works under a     *)
(* lock holds it.                                                           *)
TypeOK ==
    /\ mem \in [Creds -> Record] /\ file \in [Creds -> Saved]
    /\ issued \in [Creds -> [Logins -> [acc : 0..MaxRefreshes, ref : 0..MaxRefreshes]]]
    /\ revoked \subseteq Creds \X Logins
    /\ \A t \in Tasks :
          /\ task[t].pc \in PCs
          /\ At(t, "sent") \/ At(t, "merge") => refreshLock = t
          /\ At(t, "write") <=> persistLock = t
    /\ refreshLock \in Tasks \cup {Nobody} /\ persistLock \in Tasks \cup {Nobody}
    /\ acked \in [Creds -> Logins]

(* The program never spends a refresh token twice: what a task presents is  *)
(* the last generation issued, however refreshes, forced refreshes, new     *)
(* logins and token updates interleave.  (An old one would be answered by   *)
(* invalid_grant and disable a healthy account.)                            *)
NeverPresentsSpentToken ==
    \A t \in Tasks :
        At(t, "sent") => task[t].sent.ref = issued[Cred(t)][task[t].sent.login].ref

(* Concurrent persists never write a stale snapshot over a rotated token    *)
(* (persist_credentials, issue #23): the token of the file only moves       *)
(* forward.                                                                 *)
FileMovesForward ==
    [][\A c \in Creds :
         /\ file'[c].token.login >= file[c].token.login
         /\ file'[c].token.login = file[c].token.login
              => file'[c].token.acc >= file[c].token.acc]_vars

(* A login the Admin API acknowledged survives everything, the crash of the *)
(* process included: the credential never uses an older one again.          *)
AcknowledgedLoginKept == \A c \in Creds : mem[c].live => mem[c].token.login >= acked[c]

(* A refresh that began before a new login never puts an older login back   *)
(* (replace_idc_relogin_credentials: an in-flight old refresh cannot        *)
(* overwrite this login).                                                   *)
NewLoginNotOverwritten ==
    [][\A c \in Creds : mem'[c].token.login >= mem[c].token.login]_vars

(* Every task comes to its end: no lock is kept for ever, none is awaited   *)
(* for ever.                                                                *)
EveryTaskEnds == \A t \in Tasks : ~At(t, "idle") ~> At(t, "idle")

(* The store implements the register of LoginRegister. *)
Register == INSTANCE LoginRegister WITH
    Tokens <- Token \cup {NoToken},
    current <- [c \in Creds |-> IF mem[c].live THEN mem[c].token ELSE NoToken]

RegisterSpec == Register!Spec

=============================================================================
