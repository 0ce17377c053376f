-------------------------- MODULE TokenStoreProofs --------------------------
(***************************************************************************)
(* For every set of credentials and tasks and every bound: the token store *)
(* stays well typed and its locks are held by those who work under them.   *)
(* While no crash and, if there is a credential file, no refusal can undo  *)
(* what is in memory, it implements the register of LoginRegister; when    *)
(* moreover no answer is lost, it never presents a spent refresh token.    *)
(* While no refresh token can be refused, the file only moves forward and  *)
(* an acknowledged login is never lost, crashes included.                  *)
(***************************************************************************)
EXTENDS MCTokenStore, TLAPS

TaskRecord ==
    [pc : PCs, op : {"ensure", "query", "force", "relogin", "token", "switch", "delete"},
     cred : Creds \cup {0}, sent : Token \cup {NoToken}, got : Token \cup {NoToken},
     image : {<<>>} \cup [Creds -> Saved], login : 0..MaxLogins]

\* What each place in an operation says of its local variables.
TaskOK(k) ==
    /\ k \in TaskRecord
    /\ k.pc # "idle" => k.cred \in Creds
    /\ k.pc \in {"sent", "merge"} => k.sent \in Token
    /\ k.pc \in {"merge", "match", "adopt"} => k.got \in Token
    /\ k.pc = "write" => k.image \in [Creds -> Saved]

TasksOK == task = [t \in Tasks |-> task[t]] /\ \A t \in Tasks : TaskOK(task[t])

\* The provider counts no more generations of a refresh token than refreshes.
IssuedOK ==
    /\ issued \in [Creds -> [Logins -> [acc : 0..MaxRefreshes, ref : 0..MaxRefreshes]]]
    /\ \A c \in Creds, l \in Logins : issued[c][l].ref <= issued[c][l].acc

LocksOK ==
    /\ refreshLock \in Tasks \cup {Nobody} /\ persistLock \in Tasks \cup {Nobody}
    /\ \A t \in Tasks : /\ task[t].pc \in {"sent", "merge"} => refreshLock = t
                        /\ task[t].pc = "write" <=> persistLock = t

StoreOK ==
    /\ mem \in [Creds -> Record] /\ file \in [Creds -> Saved]
    /\ revoked \subseteq Creds \X Logins /\ acked \in [Creds -> Logins]

Inv == StoreOK /\ IssuedOK /\ TasksOK /\ LocksOK

-----------------------------------------------------------------------------
(* A task that moves to a well-formed place leaves the others alone. *)
LEMMA TaskMoves ==
    ASSUME TasksOK, NEW t \in Tasks, NEW k, TaskOK(k), task' = [task EXCEPT ![t] = k]
    PROVE  TasksOK'
  BY DEF TasksOK

LEMMA IdleOK == TaskOK(Idle)
  BY SwitchesAssumption DEF TaskOK, TaskRecord, Idle, PCs

(* The snapshot of a well-typed store is a well-typed file. *)
LEMMA SnapshotOK ==
    ASSUME mem \in [Creds -> Record]
    PROVE  [c \in Creds |-> Snapshot(mem[c])] \in [Creds -> Saved]
  BY DEF Record, Saved, Snapshot

LEMMA FirstTokenOK ==
    ASSUME NEW l \in Logins
    PROVE  FirstToken(l) \in Token
  BY SwitchesAssumption DEF FirstToken, Token, Logins

LEMMA InitInv == Init => Inv
  <1> SUFFICES ASSUME Init PROVE Inv
    OBVIOUS
  <1>1. 1 \in Logins /\ FirstToken(1) \in Token
    BY SwitchesAssumption, FirstTokenOK DEF Logins
  <1>2. mem \in [Creds -> Record] /\ file \in [Creds -> Saved]
    BY <1>1 DEF Init, Restored, Snapshot, Record, Saved
  <1>3. IssuedOK
    BY SwitchesAssumption DEF Init, IssuedOK
  <1>4. TasksOK
    BY IdleOK DEF Init, TasksOK
  <1>5. LocksOK
    BY SwitchesAssumption DEF Init, LocksOK, Idle
  <1> QED  BY <1>1, <1>2, <1>3, <1>4, <1>5 DEF Init, Inv, StoreOK

(* Beginnings. *)
LEMMA StartInv ==
    ASSUME Inv, NEW t \in Tasks, NEW c \in Creds, Start(t, c)
    PROVE  Inv'
  <1> USE DEF Inv
  <1>1. ASSUME NEW op, NEW pc \in {"lock", "persist"}, NEW login \in 0..MaxLogins,
               StartAs(t, op, c, pc, login)
        PROVE  TasksOK' /\ LocksOK' /\ IssuedOK' /\ UNCHANGED <<file, revoked, acked>>
    <2> DEFINE k == [Idle EXCEPT !.pc = pc, !.op = op, !.cred = c, !.login = login]
    <2>1. TaskOK(k) /\ k.pc = pc
      BY <1>1, IdleOK, SwitchesAssumption DEF StartAs, TaskOK, TaskRecord, Idle, PCs
    <2>2. task' = [task EXCEPT ![t] = k]
      BY <1>1 DEF StartAs
    <2>3. TasksOK'
      BY <2>1, <2>2, TaskMoves
    <2>4. LocksOK'
      BY <1>1, <2>1, <2>2 DEF StartAs, LocksOK, At, TasksOK
    <2>5. IssuedOK' /\ UNCHANGED <<file, revoked, acked>>
      BY <1>1 DEF StartAs, Provider, IssuedOK
    <2> QED  BY <2>3, <2>4, <2>5
  <1>2. 0 \in 0..MaxLogins /\ NewLogins(c) \subseteq 1..MaxLogins
    BY SwitchesAssumption DEF NewLogins, Logins
  <1>3. CASE \E op \in Ops : StartRefresh(t, op, c)
    BY <1>1, <1>2, <1>3 DEF StartRefresh, StoreOK
  <1>4. CASE StartRelogin(t, c)
    BY <1>1, <1>2, <1>4 DEF StartRelogin, StoreOK
  <1>5. CASE SetToken(t, c)
    <2>1. PICK login \in NewLogins(c), supplied \in BOOLEAN :
             /\ StartAs(t, "token", c, "persist", login)
             /\ mem' = [mem EXCEPT ![c].token = FirstToken(login), ![c].fresh = supplied]
      BY <1>5 DEF SetToken
    <2>2. FirstToken(login) \in Token
      BY <1>2, FirstTokenOK DEF Logins
    <2>3. mem' \in [Creds -> Record]
      BY <2>1, <2>2 DEF StoreOK, Record
    <2> QED  BY <1>1, <1>2, <2>1, <2>3 DEF StoreOK
  <1>6. CASE Switch(t, c)
    <2>1. mem' \in [Creds -> Record]
      BY <1>6 DEF Switch, StoreOK, Record
    <2> QED  BY <1>1, <1>2, <1>6, <2>1 DEF Switch, StoreOK
  <1>7. CASE Delete(t, c)
    <2>1. mem' \in [Creds -> Record]
      BY <1>7 DEF Delete, StoreOK, Record
    <2> QED  BY <1>1, <1>2, <1>7, <2>1 DEF Delete, StoreOK
  <1> QED  BY <1>3, <1>4, <1>5, <1>6, <1>7 DEF Start

(* A task that only moves on, or ends, with new locks that fit its place. *)
LEMMA LocksFollow ==
    ASSUME LocksOK, TasksOK, NEW t \in Tasks, NEW k, task' = [task EXCEPT ![t] = k],
           refreshLock' \in Tasks \cup {Nobody}, persistLock' \in Tasks \cup {Nobody},
           refreshLock' # refreshLock => {refreshLock, refreshLock'} \subseteq {t, Nobody},
           persistLock' # persistLock => {persistLock, persistLock'} \subseteq {t, Nobody},
           k.pc \in {"sent", "merge"} => refreshLock' = t,
           k.pc = "write" <=> persistLock' = t
    PROVE  LocksOK'
  BY SwitchesAssumption DEF LocksOK, TasksOK

LEMMA MovesOn ==
    ASSUME Inv, NEW t \in Tasks, NEW pc \in PCs
    PROVE  LET k == [task[t] EXCEPT !.pc = pc]
           IN  /\ k.pc = pc
               /\ task[t].pc # "idle" /\ pc \in {"idle", "lock", "persist", "reload", "report"}
                    => TaskOK(k)
  BY DEF Inv, TasksOK, TaskOK, TaskRecord

(* Under the refresh lock. *)
LEMMA LockedInv ==
    ASSUME Inv, NEW t \in Tasks,
           Acquire(t) \/ Relogin(t) \/ AnswerFails(t) \/ Refuse(t) \/ Merge(t)
    PROVE  Inv'
  <1> USE DEF Inv
  <1>1. task[t].pc = "lock" \/ task[t].pc = "sent" \/ task[t].pc = "merge"
    BY DEF Acquire, Relogin, AnswerFails, Refuse, Merge, At
  <1>2. TaskOK(task[t]) /\ Cred(t) \in Creds /\ persistLock # t
    BY <1>1 DEF TasksOK, TaskOK, LocksOK, Cred
  <1>3. CASE Acquire(t)
    <2> DEFINE k == [task[t] EXCEPT !.pc = "sent", !.sent = mem[Cred(t)].token]
    <2>1. UNCHANGED <<mem, file, issued, revoked, persistLock, acked>>
      BY <1>3 DEF Acquire, Provider
    <2>2. CASE refreshLock' = t /\ refreshLock = Nobody /\ task' = [task EXCEPT ![t] = k]
      <3>1. mem[Cred(t)].token \in Token
        BY <1>2 DEF StoreOK, Record
      <3>2. TaskOK(k) /\ k.pc = "sent"
        BY <1>1, <1>2, <3>1 DEF TaskOK, TaskRecord, PCs
      <3> QED
        BY <1>2, <2>1, <2>2, <3>2, TaskMoves, LocksFollow DEF StoreOK, IssuedOK, LocksOK
    <2>3. CASE UNCHANGED refreshLock /\ Return(t)
      BY <1>2, <2>1, <2>3, IdleOK, TaskMoves, LocksFollow
         DEF Return, Idle, StoreOK, IssuedOK, LocksOK
    <2> QED  BY <1>3, <2>2, <2>3 DEF Acquire
  <1>4. CASE Relogin(t)
    <2> DEFINE c == Cred(t)
    <2>1. UNCHANGED <<file, issued, revoked, refreshLock, persistLock, acked>>
      BY <1>4 DEF Relogin, Provider
    <2>2. CASE UNCHANGED mem /\ Return(t)
      BY <1>2, <2>1, <2>2, IdleOK, TaskMoves, LocksFollow
         DEF Return, Idle, StoreOK, IssuedOK, LocksOK
    <2>3. CASE \E login \in NewLogins(c) :
                 /\ mem' = [mem EXCEPT ![c] = [@ EXCEPT !.token = FirstToken(login),
                                                        !.fresh = TRUE, !.disabled = FALSE,
                                                        !.invalid = FALSE]]
                 /\ task' = [task EXCEPT ![t].pc = "persist", ![t].login = login]
      <3>1. PICK login \in Logins :
                 /\ mem' = [mem EXCEPT ![c] = [@ EXCEPT !.token = FirstToken(login),
                                                        !.fresh = TRUE, !.disabled = FALSE,
                                                        !.invalid = FALSE]]
                 /\ task' = [task EXCEPT ![t].pc = "persist", ![t].login = login]
        BY <2>3 DEF NewLogins
      <3> DEFINE k == [task[t] EXCEPT !.pc = "persist", !.login = login]
      <3>2. TaskOK(k) /\ k.pc = "persist"
        <4>1. login \in 0..MaxLogins
          BY SwitchesAssumption DEF Logins
        <4>2. k \in TaskRecord /\ k.pc = "persist" /\ k.cred = task[t].cred
          BY <1>2, <4>1 DEF TaskOK, TaskRecord, PCs
        <4> QED  BY <1>1, <1>2, <4>2 DEF TaskOK
      <3>3. mem' \in [Creds -> Record]
        BY <1>2, <3>1, FirstTokenOK DEF StoreOK, Record
      <3>4. task' = [task EXCEPT ![t] = k]
        BY <3>1 DEF TasksOK
      <3> QED
        BY <1>2, <2>1, <3>2, <3>3, <3>4, TaskMoves, LocksFollow DEF StoreOK, IssuedOK, LocksOK
    <2> QED  BY <1>4, <2>2, <2>3 DEF Relogin
  <1>5. CASE AnswerFails(t)
    <2>1. refreshLock = t /\ refreshLock' = Nobody
      BY <1>5 DEF AnswerFails, At, LocksOK
    <2> QED
      BY <1>2, <1>5, <2>1, IdleOK, TaskMoves, LocksFollow
         DEF AnswerFails, Return, Idle, Provider, StoreOK, IssuedOK, LocksOK
  <1>6. CASE Refuse(t)
    <2> DEFINE k == [task[t] EXCEPT !.pc = "reload"]
    <2>1. refreshLock = t /\ refreshLock' = Nobody
            /\ UNCHANGED <<mem, file, issued, revoked, persistLock, acked>>
      BY <1>6 DEF Refuse, At, LocksOK
    <2>2. CASE Return(t)
      BY <1>2, <2>1, <2>2, IdleOK, TaskMoves, LocksFollow
         DEF Return, Idle, StoreOK, IssuedOK, LocksOK
    <2>3. CASE Goto(t, "reload")
      <3>1. TaskOK(k) /\ k.pc = "reload" /\ task' = [task EXCEPT ![t] = k]
        BY <1>1, <2>3, MovesOn DEF Goto, PCs
      <3> QED
        BY <1>2, <2>1, <3>1, TaskMoves, LocksFollow DEF StoreOK, IssuedOK, LocksOK
    <2> QED  BY <1>6, <2>2, <2>3 DEF Refuse
  <1>7. CASE Merge(t)
    <2> DEFINE c == Cred(t)
               k == [task[t] EXCEPT !.pc = "persist"]
    <2>1. refreshLock = t /\ refreshLock' \in {t, Nobody}
            /\ UNCHANGED <<file, issued, revoked, persistLock, acked>>
      BY <1>7 DEF Merge, At, LocksOK, Provider
    <2>2. CASE UNCHANGED mem /\ Return(t)
      BY <1>2, <2>1, <2>2, IdleOK, TaskMoves, LocksFollow
         DEF Return, Idle, StoreOK, IssuedOK, LocksOK
    <2>3. CASE /\ mem' = [mem EXCEPT ![c].token = task[t].got, ![c].fresh = TRUE]
               /\ Goto(t, "persist")
      <3>1. TaskOK(k) /\ k.pc = "persist" /\ task' = [task EXCEPT ![t] = k]
        BY <1>1, <2>3, MovesOn DEF Goto, PCs
      <3>2. task[t].got \in Token
        BY <1>2, <1>7 DEF Merge, At, TaskOK
      <3>3. mem' \in [Creds -> Record]
        BY <1>2, <2>3, <3>2 DEF StoreOK, Record
      <3> QED
        BY <1>2, <2>1, <3>1, <3>3, TaskMoves, LocksFollow DEF StoreOK, IssuedOK, LocksOK
    <2> QED  BY <1>7, <2>2, <2>3 DEF Merge
  <1> QED  BY <1>3, <1>4, <1>5, <1>6, <1>7

(* The provider's answer to a token of the last generation: the token it     *)
(* issues, and what the task makes of it.                                   *)
LEMMA AnswerGives ==
    ASSUME Inv, NEW t \in Tasks, Answer(t)
    PROVE  \E new \in Token :
             LET c == Cred(t)
                 k == task[t].sent
                 pair == [acc |-> new.acc, ref |-> new.ref]
             IN  /\ c \in Creds /\ k \in Token
                 /\ new.login = k.login /\ new.acc = issued[c][k.login].acc + 1
                 /\ new.ref \in {k.ref, k.ref + 1} /\ (~Rotates => new.ref = k.ref)
                 /\ pair \in [acc : 0..MaxRefreshes, ref : 0..MaxRefreshes]
                 /\ pair.ref <= pair.acc
                 /\ issued' = [issued EXCEPT ![c][k.login] = pair]
                 /\ \/ /\ task' = [task EXCEPT ![t] =
                                      [task[t] EXCEPT !.pc = "merge", !.got = new]]
                       /\ UNCHANGED refreshLock
                    \/ Loses /\ Return(t) /\ refreshLock' = Nobody
  <1> USE DEF Inv
  <1> DEFINE c == Cred(t)
             k == task[t].sent
             last == issued[c][k.login]
  <1>1. c \in Creds /\ k \in Token /\ k.login \in Logins
    BY DEF Answer, At, TasksOK, TaskOK, Cred, Token
  <1>2. /\ last \in [acc : 0..MaxRefreshes, ref : 0..MaxRefreshes]
        /\ last.ref <= last.acc /\ last.acc < MaxRefreshes /\ k.ref = last.ref
    BY <1>1 DEF Answer, Accepts, IssuedOK
  <1>3. PICK rotated \in {FALSE, Rotates} :
             LET new == [k EXCEPT !.acc = last.acc + 1, !.ref = IF rotated THEN @ + 1 ELSE @]
             IN  /\ issued' = [issued EXCEPT ![c][k.login] = [acc |-> new.acc, ref |-> new.ref]]
                 /\ \/ /\ task' = [task EXCEPT ![t].pc = "merge", ![t].got = new]
                       /\ UNCHANGED refreshLock
                    \/ Loses /\ Return(t) /\ refreshLock' = Nobody
    BY DEF Answer
  <1> DEFINE new == [k EXCEPT !.acc = last.acc + 1, !.ref = IF rotated THEN @ + 1 ELSE @]
             pair == [acc |-> new.acc, ref |-> new.ref]
  <1>4. /\ last.acc + 1 \in 0..MaxRefreshes
        /\ \A r \in {k.ref, k.ref + 1} : r \in 0..MaxRefreshes /\ r <= last.acc + 1
    BY <1>2, SwitchesAssumption
  <1>5. new.acc = last.acc + 1 /\ new.ref \in {k.ref, k.ref + 1} /\ new.login = k.login
          /\ new \in Token /\ (~Rotates => new.ref = k.ref)
    <2>1. ~Rotates => rotated = FALSE
      BY SwitchesAssumption
    <2> QED  BY <1>1, <1>4, <2>1 DEF Token
  <1>6. pair \in [acc : 0..MaxRefreshes, ref : 0..MaxRefreshes] /\ pair.ref <= pair.acc
    BY <1>4, <1>5
  <1>7. issued' = [issued EXCEPT ![c][k.login] = pair]
    BY <1>3
  <1>8. \/ /\ task' = [task EXCEPT ![t] = [task[t] EXCEPT !.pc = "merge", !.got = new]]
           /\ UNCHANGED refreshLock
        \/ Loses /\ Return(t) /\ refreshLock' = Nobody
    <2> HIDE DEF new
    <2>1. CASE task' = [task EXCEPT ![t].pc = "merge", ![t].got = new] /\ UNCHANGED refreshLock
      BY <2>1 DEF TasksOK
    <2> QED  BY <1>3, <2>1 DEF new
  <1> HIDE DEF new
  <1> QED  BY <1>1, <1>5, <1>6, <1>7, <1>8

LEMMA AnswerInv ==
    ASSUME Inv, NEW t \in Tasks, Answer(t)
    PROVE  Inv'
  <1> USE DEF Inv
  <1> DEFINE c == Cred(t)
             k == task[t].sent
  <1>1. PICK new \in Token :
             LET pair == [acc |-> new.acc, ref |-> new.ref]
             IN  /\ c \in Creds /\ k \in Token
                 /\ pair \in [acc : 0..MaxRefreshes, ref : 0..MaxRefreshes]
                 /\ pair.ref <= pair.acc
                 /\ issued' = [issued EXCEPT ![c][k.login] = pair]
                 /\ \/ /\ task' = [task EXCEPT ![t] =
                                      [task[t] EXCEPT !.pc = "merge", !.got = new]]
                       /\ UNCHANGED refreshLock
                    \/ Loses /\ Return(t) /\ refreshLock' = Nobody
    BY AnswerGives
  <1> DEFINE pair == [acc |-> new.acc, ref |-> new.ref]
             q == [task[t] EXCEPT !.pc = "merge", !.got = new]
  <1>2. /\ TaskOK(task[t]) /\ task[t].pc = "sent" /\ k.login \in Logins
        /\ refreshLock = t /\ persistLock # t
        /\ UNCHANGED <<mem, file, revoked, persistLock, acked>>
    BY <1>1 DEF Answer, At, TasksOK, TaskOK, LocksOK, Token
  <1>3. IssuedOK'
    <2>1. /\ pair \in [acc : 0..MaxRefreshes, ref : 0..MaxRefreshes] /\ pair.ref <= pair.acc
          /\ issued' = [issued EXCEPT ![c][k.login] = pair] /\ c \in Creds
      BY <1>1
    <2> HIDE DEF pair
    <2> QED  BY <1>2, <2>1 DEF IssuedOK
  <1>4. CASE Return(t) /\ refreshLock' = Nobody
    BY <1>2, <1>3, <1>4, IdleOK, TaskMoves, LocksFollow DEF Return, Idle, StoreOK, LocksOK
  <1>5. CASE task' = [task EXCEPT ![t] = q] /\ UNCHANGED refreshLock
    <2>1. q \in TaskRecord /\ q.pc = "merge" /\ q.got = new
            /\ q.cred = task[t].cred /\ q.sent = task[t].sent
      BY <1>2 DEF TaskOK, TaskRecord, PCs
    <2>2. TaskOK(q)
      BY <1>1, <1>2, <2>1 DEF TaskOK
    <2> QED
      BY <1>2, <1>3, <1>5, <2>1, <2>2, TaskMoves, LocksFollow DEF StoreOK, LocksOK
  <1> QED  BY <1>1, <1>4, <1>5

(* The credential file. *)
LEMMA FileInv ==
    ASSUME Inv, NEW t \in Tasks, Persist(t) \/ Write(t)
    PROVE  Inv'
  <1> USE DEF Inv
  <1>1. /\ TaskOK(task[t]) /\ Cred(t) \in Creds /\ task[t].pc \in {"persist", "write"}
        /\ task[t].login \in 0..MaxLogins /\ UNCHANGED <<mem, issued, revoked>>
    BY DEF Persist, Write, At, TasksOK, TaskOK, TaskRecord, Cred, Provider
  <1>2. ASSUME NEW ok \in BOOLEAN, Finish(t, ok),
               persistLock' = (IF persistLock = t THEN Nobody ELSE persistLock)
        PROVE  TasksOK' /\ LocksOK' /\ acked' \in [Creds -> Logins]
    <2>1. TasksOK' /\ task' = [task EXCEPT ![t] = Idle]
      BY <1>2, IdleOK, TaskMoves DEF Finish, Return
    <2>2. LocksOK'
      BY <1>2, <2>1, LocksFollow, SwitchesAssumption DEF Finish, Idle, LocksOK
    <2>3. acked' \in [Creds -> Logins]
      <3>1. task[t].login > 0 => task[t].login \in Logins
        BY <1>1, SwitchesAssumption DEF Logins
      <3> QED  BY <1>1, <1>2, <3>1 DEF Finish, StoreOK
    <2> QED  BY <2>1, <2>2, <2>3
  <1>3. CASE Persist(t)
    <2> DEFINE image == [c \in Creds |-> Snapshot(mem[c])]
               k == [task[t] EXCEPT !.pc = "write", !.image = image]
    <2>1. UNCHANGED file /\ task[t].pc = "persist" /\ persistLock # t
      BY <1>3 DEF Persist, At, LocksOK
    <2>2. CASE HasFile
      <3>1. /\ persistLock = Nobody /\ persistLock' = t /\ UNCHANGED <<refreshLock, acked>>
            /\ task' = [task EXCEPT ![t] = k]
        BY <1>3, <2>2 DEF Persist, TasksOK
      <3>2. image \in [Creds -> Saved]
        BY SnapshotOK DEF StoreOK
      <3>3. k \in TaskRecord /\ k.pc = "write" /\ k.image = image /\ k.cred = task[t].cred
        <4> HIDE DEF image
        <4> QED  BY <1>1, <3>2 DEF TaskOK, TaskRecord, PCs
      <3>4. TaskOK(k)
        BY <1>1, <3>2, <3>3 DEF TaskOK, Cred
      <3> QED
        BY <1>1, <2>1, <3>1, <3>3, <3>4, TaskMoves, LocksFollow DEF StoreOK, IssuedOK, LocksOK
    <2>3. CASE ~HasFile
      <3>1. Finish(t, TRUE) /\ persistLock' = persistLock
        BY <1>3, <2>3, SwitchesAssumption DEF Persist
      <3> QED  BY <1>1, <1>2, <2>1, <3>1 DEF StoreOK, IssuedOK
    <2> QED  BY <2>2, <2>3
  <1>4. CASE Write(t)
    <2>1. task[t].pc = "write" /\ persistLock = t /\ persistLock' = Nobody
      BY <1>4 DEF Write, At, LocksOK
    <2>2. PICK ok \in {TRUE, ~WriteFails} :
             file' = (IF ok THEN task[t].image ELSE file) /\ Finish(t, ok)
      BY <1>4 DEF Write
    <2>3. file' \in [Creds -> Saved]
      BY <1>1, <2>1, <2>2 DEF TaskOK, StoreOK
    <2>4. ok \in BOOLEAN
      BY SwitchesAssumption
    <2> QED  BY <1>1, <1>2, <2>1, <2>2, <2>3, <2>4 DEF StoreOK, IssuedOK
  <1> QED  BY <1>3, <1>4

(* The reload after a refused token, and its report. *)
LEMMA ReloadInv ==
    ASSUME Inv, NEW t \in Tasks, ReadFile(t) \/ Match(t) \/ Adopt(t) \/ Report(t)
    PROVE  Inv'
  <1> USE DEF Inv
  <1> DEFINE c == Cred(t)
  <1>1. /\ TaskOK(task[t]) /\ c \in Creds
        /\ task[t].pc \in {"reload", "match", "adopt", "report"} /\ persistLock # t
    BY DEF ReadFile, Match, Adopt, Report, At, TasksOK, TaskOK, LocksOK, Cred
  <1>2. UNCHANGED <<file, issued, revoked, refreshLock, persistLock, acked>>
    BY DEF ReadFile, Match, Adopt, Report, Provider
  <1>3. ASSUME NEW k, TaskOK(k), task' = [task EXCEPT ![t] = k],
               k.pc \in {"idle", "match", "adopt", "report", "persist"},
               mem' \in [Creds -> Record]
        PROVE  Inv'
    <2>1. TasksOK' /\ LocksOK'
      BY <1>1, <1>2, <1>3, TaskMoves, LocksFollow DEF LocksOK
    <2> QED  BY <1>2, <1>3, <2>1 DEF StoreOK, IssuedOK
  <1>4. ASSUME Return(t), mem' \in [Creds -> Record] PROVE Inv'
    BY <1>3, <1>4, IdleOK DEF Return, Idle
  <1>5. mem \in [Creds -> Record]
    BY DEF StoreOK
  <1>6. ASSUME NEW pc \in {"report", "persist"}, Goto(t, pc), mem' \in [Creds -> Record]
        PROVE  Inv'
    <2> DEFINE k == [task[t] EXCEPT !.pc = pc]
    <2>1. TaskOK(k) /\ k.pc = pc
      BY <1>1, MovesOn DEF PCs
    <2> QED  BY <1>3, <1>6, <2>1 DEF Goto
  <1>7. CASE ReadFile(t)
    <2> DEFINE k == [task[t] EXCEPT !.pc = "match", !.got = file[c].token]
    <2>1. file[c].token \in Token
      BY <1>1 DEF StoreOK, Saved
    <2>2. TaskOK(k) /\ k.pc = "match"
      <3>1. k \in TaskRecord /\ k.pc = "match" /\ k.cred = task[t].cred /\ k.got \in Token
        BY <1>1, <2>1 DEF TaskOK, TaskRecord, PCs
      <3> QED  BY <1>1, <3>1 DEF TaskOK, Cred
    <2>3. CASE task' = [task EXCEPT ![t].pc = "match", ![t].got = file[c].token]
      BY <1>3, <1>5, <1>7, <2>2, <2>3 DEF ReadFile, TasksOK
    <2>4. CASE Goto(t, "report")
      BY <1>5, <1>6, <1>7, <2>4 DEF ReadFile
    <2> QED  BY <1>7, <2>3, <2>4 DEF ReadFile, Goto
  <1>8. CASE Match(t)
    <2> DEFINE k == [task[t] EXCEPT !.pc = "adopt"]
    <2>1. task[t].pc = "match" /\ UNCHANGED mem
      BY <1>8 DEF Match, At
    <2>2. TaskOK(k) /\ k.pc = "adopt"
      BY <1>1, <2>1 DEF TaskOK, TaskRecord, PCs
    <2>3. CASE Goto(t, "adopt")
      BY <1>3, <1>5, <2>1, <2>2, <2>3 DEF Goto
    <2>4. CASE Goto(t, "report")
      BY <1>5, <1>6, <2>1, <2>4
    <2> QED  BY <1>8, <2>3, <2>4 DEF Match
  <1>9. CASE Adopt(t)
    <2>1. task[t].got \in Token
      BY <1>1, <1>9 DEF Adopt, At, TaskOK
    <2>2. PICK fresh \in BOOLEAN :
             mem' = IF mem[c].live
                    THEN [mem EXCEPT ![c].token = task[t].got, ![c].fresh = fresh,
                                     ![c].disabled = FALSE, ![c].invalid = FALSE]
                    ELSE mem
      BY <1>9 DEF Adopt
    <2> DEFINE e == [mem[c] EXCEPT !.token = task[t].got, !.fresh = fresh,
                                   !.disabled = FALSE, !.invalid = FALSE]
    <2>3. e \in Record
      BY <1>1, <1>5, <2>1 DEF Record
    <2>4. mem' = [mem EXCEPT ![c] = e] \/ mem' = mem
      BY <1>5, <2>2
    <2>5. mem' \in [Creds -> Record]
      <3> HIDE DEF e
      <3> QED  BY <1>5, <2>3, <2>4
    <2> QED  BY <1>4, <1>9, <2>5 DEF Adopt
  <1>10. CASE Report(t)
    <2>1. mem' \in [Creds -> Record]
      BY <1>1, <1>5, <1>10 DEF Report, Record
    <2> QED  BY <1>4, <1>6, <1>10, <2>1 DEF Report
  <1> QED  BY <1>7, <1>8, <1>9, <1>10

(* The world outside. *)
LEMMA WorldInv ==
    ASSUME Inv, \/ \E c \in Creds : Expire(c) \/ OtherRefreshes(c) \/ Revoke(c)
                \/ Restart
    PROVE  Inv'
  <1> USE DEF Inv
  <1>1. ASSUME NEW c \in Creds, Expire(c) PROVE Inv'
    <2>1. mem' \in [Creds -> Record]
      BY <1>1 DEF Expire, StoreOK, Record
    <2> QED  BY <1>1, <2>1 DEF Expire, Provider, StoreOK, IssuedOK, TasksOK, LocksOK
  <1>2. ASSUME NEW c \in Creds, Revoke(c) PROVE Inv'
    <2>1. mem[c].token.login \in Logins
      BY DEF StoreOK, Record, Token
    <2>2. revoked' \subseteq Creds \X Logins
      BY <1>2, <2>1 DEF Revoke, StoreOK
    <2> QED  BY <1>2, <2>2 DEF Revoke, StoreOK, IssuedOK, TasksOK, LocksOK
  <1>3. ASSUME NEW c \in Creds, OtherRefreshes(c) PROVE Inv'
    <2> DEFINE k == file[c].token
               last == issued[c][k.login]
               new == [k EXCEPT !.acc = last.acc + 1, !.ref = @ + 1]
               pair == [acc |-> new.acc, ref |-> new.ref]
    <2>1. k \in Token /\ k.login \in Logins
      BY DEF StoreOK, Saved, Token
    <2>2. /\ last \in [acc : 0..MaxRefreshes, ref : 0..MaxRefreshes]
          /\ last.ref <= last.acc /\ last.acc < MaxRefreshes /\ k.ref = last.ref
      BY <1>3, <2>1 DEF OtherRefreshes, Accepts, IssuedOK
    <2>3. /\ last.acc + 1 \in 0..MaxRefreshes /\ k.ref + 1 \in 0..MaxRefreshes
          /\ k.ref + 1 <= last.acc + 1
      BY <2>2, SwitchesAssumption
    <2>4. new \in Token /\ new.acc = last.acc + 1 /\ new.ref = k.ref + 1
      BY <2>1, <2>3 DEF Token
    <2>5. pair \in [acc : 0..MaxRefreshes, ref : 0..MaxRefreshes] /\ pair.ref <= pair.acc
      BY <2>3, <2>4
    <2>6. /\ issued' = [issued EXCEPT ![c][k.login] = pair]
          /\ file' = [file EXCEPT ![c].token = new]
          /\ UNCHANGED <<mem, revoked, task, refreshLock, persistLock, acked>>
      BY <1>3 DEF OtherRefreshes
    <2> HIDE DEF new, pair
    <2>7. IssuedOK'
      BY <2>1, <2>5, <2>6 DEF IssuedOK
    <2>8. file' \in [Creds -> Saved]
      BY <2>4, <2>6 DEF StoreOK, Saved
    <2> QED  BY <2>6, <2>7, <2>8 DEF StoreOK, TasksOK, LocksOK
  <1>4. CASE Restart
    <2>1. mem' \in [Creds -> Record]
      BY <1>4 DEF Restart, Restored, StoreOK, Record, Saved
    <2>2. TasksOK' /\ LocksOK'
      BY <1>4, IdleOK, SwitchesAssumption DEF Restart, TasksOK, LocksOK, Idle
    <2> QED  BY <1>4, <2>1, <2>2 DEF Restart, Provider, StoreOK, IssuedOK
  <1> QED  BY <1>1, <1>2, <1>3, <1>4

LEMMA NextInv == Inv /\ [Next]_vars => Inv'
  <1> SUFFICES ASSUME Inv, [Next]_vars PROVE Inv'
    OBVIOUS
  <1>1. ASSUME NEW t \in Tasks, TaskStep(t) PROVE Inv'
    BY <1>1, LockedInv, AnswerInv, FileInv, ReloadInv DEF TaskStep
  <1>2. CASE UNCHANGED vars
    BY <1>2 DEF vars, Inv, StoreOK, IssuedOK, TasksOK, LocksOK
  <1> QED  BY <1>1, <1>2, StartInv, WorldInv DEF Next

LEMMA InvTypeOK == Inv => TypeOK
  BY DEF Inv, StoreOK, IssuedOK, TasksOK, TaskOK, TaskRecord, LocksOK, TypeOK, At

LEMMA InvAlways == Spec => []Inv
  BY InitInv, NextInv, PTL DEF Spec

(* The store stays well typed, and only a task that works under a lock holds *)
(* it, whatever crashes, is lost, revoked or written by others.             *)
THEOREM StoreTypeCorrect == Spec => []TypeOK
  BY InvAlways, InvTypeOK, PTL

-----------------------------------------------------------------------------
(* The register.  Without crashes, and with a credential file only when no   *)
(* token can be refused, nothing but the store's own steps changes memory.  *)

Quiet == ~Crashes /\ (HasFile => ~Revokes /\ ~Loses /\ ~Others)

NotAhead(c, k) == k.acc <= issued[c][k.login].acc
Agrees(c, k) == k.acc = issued[c][k.login].acc /\ k.ref = issued[c][k.login].ref

(* No token is ahead of the provider, and an answer brings a later token of *)
(* the login it was asked with.                                             *)
AgesOK ==
    /\ \A c \in Creds : NotAhead(c, mem[c].token)
    /\ \A t \in Tasks :
         /\ At(t, "sent") => NotAhead(Cred(t), task[t].sent)
         /\ At(t, "merge") => /\ NotAhead(Cred(t), task[t].got)
                              /\ Register!Later(task[t].sent, task[t].got)

(* The last token issued is in memory, or on its way to where the one it     *)
(* replaces is.                                                             *)
LatestOK ==
    /\ \A c \in Creds : mem[c].live =>
         \/ Agrees(c, mem[c].token)
         \/ \E t \in Tasks : At(t, "merge") /\ Cred(t) = c /\ task[t].sent = mem[c].token
    /\ \A t \in Tasks : /\ At(t, "sent") => Agrees(Cred(t), task[t].sent)
                        /\ At(t, "merge") => Agrees(Cred(t), task[t].got)

NothingRefused ==
    /\ \A t \in Tasks : /\ ~At(t, "match") /\ ~At(t, "adopt")
                        /\ HasFile => ~At(t, "reload")
    /\ HasFile => revoked = {}

RegisterInv == AgesOK /\ NothingRefused /\ (~Loses => LatestOK)

LEMMA InitRegister == Init => RegisterInv
  <1> SUFFICES ASSUME Init PROVE RegisterInv
    OBVIOUS
  <1>1. 1 \in Logins
    BY SwitchesAssumption DEF Logins
  <1>2. \A c \in Creds : Agrees(c, mem[c].token) /\ NotAhead(c, mem[c].token)
    BY <1>1 DEF Init, Restored, FirstToken, Agrees, NotAhead
  <1>3. \A t \in Tasks : task[t].pc = "idle"
    BY DEF Init, Idle
  <1> QED  BY <1>2, <1>3 DEF RegisterInv, AgesOK, NothingRefused, LatestOK, At, Init

(* A step that brings no answer and merges none keeps RegisterInv when each *)
(* token it installs is the first of a login.                               *)
LEMMA QuietTask ==
    ASSUME Inv, RegisterInv, UNCHANGED <<issued, revoked>>,
           \/ UNCHANGED task
           \/ \E t \in Tasks, k \in TaskRecord :
                 /\ task' = [task EXCEPT ![t] = k] /\ task[t].pc # "merge"
                 /\ k.pc \notin {"sent", "merge", "match", "adopt"}
                 /\ HasFile => k.pc # "reload",
           \A c \in Creds : \/ mem'[c].token = mem[c].token /\ (mem'[c].live => mem[c].live)
                            \/ Agrees(c, mem'[c].token) /\ NotAhead(c, mem'[c].token)
    PROVE  RegisterInv'
  <1>1. \A u \in Tasks :
           \/ task'[u] = task[u]
           \/ /\ task[u].pc # "merge" /\ task'[u].pc \notin {"sent", "merge", "match", "adopt"}
              /\ HasFile => task'[u].pc # "reload"
    BY DEF Inv, TasksOK
  <1>2. AgesOK'
    BY <1>1 DEF RegisterInv, AgesOK, At, Cred, NotAhead, Agrees
  <1>3. NothingRefused'
    BY <1>1 DEF RegisterInv, NothingRefused, At
  <1>4. ASSUME LatestOK PROVE LatestOK'
    BY <1>1, <1>4 DEF LatestOK, At, Cred, Agrees
  <1> QED  BY <1>2, <1>3, <1>4 DEF RegisterInv

(* A new login begins with the token the provider knows it by. *)
LEMMA NewLoginAgrees ==
    ASSUME Inv, NEW c \in Creds, NEW l \in NewLogins(c)
    PROVE  /\ l \in Logins /\ l > mem[c].token.login
           /\ Agrees(c, FirstToken(l)) /\ NotAhead(c, FirstToken(l))
  <1>1. l \in Logins /\ l \in Nat
    BY DEF NewLogins, Logins
  <1>2. l > mem[c].token.login
    BY <1>1 DEF NewLogins, Inv, StoreOK, Record, Token, Logins
  <1>3. ~(issued[c][l].acc > 0)
    <2> DEFINE used == {mem[c].token.login, file[c].token.login}
                         \cup {task[t].login : t \in {u \in Tasks : Cred(u) = c}}
                         \cup {m \in Logins : issued[c][m].acc > 0 \/ <<c, m>> \in revoked}
    <2>1. \A u \in used : u < l
      BY DEF NewLogins
    <2>2. issued[c][l].acc > 0 => l \in used
      BY <1>1
    <2> HIDE DEF used
    <2> QED  BY <1>1, <2>1, <2>2
  <1>4. issued[c][l].acc = 0 /\ issued[c][l].ref = 0
    BY <1>1, <1>3, SwitchesAssumption DEF Inv, IssuedOK
  <1> QED  BY <1>1, <1>2, <1>4 DEF Agrees, NotAhead, FirstToken

LEMMA StartRegister ==
    ASSUME Inv, Inv', RegisterInv, NEW t \in Tasks, NEW c \in Creds, Start(t, c)
    PROVE  RegisterInv'
  <1>1. ASSUME NEW op, NEW pc \in {"lock", "persist"}, NEW login, StartAs(t, op, c, pc, login)
        PROVE  /\ UNCHANGED <<issued, revoked>>
               /\ \E k \in TaskRecord :
                    /\ task' = [task EXCEPT ![t] = k] /\ task[t].pc # "merge"
                    /\ k.pc \notin {"sent", "merge", "match", "adopt"}
                    /\ HasFile => k.pc # "reload"
    <2> DEFINE k == [Idle EXCEPT !.pc = pc, !.op = op, !.cred = c, !.login = login]
    <2>1. task' = [task EXCEPT ![t] = k] /\ k.pc = pc
      BY <1>1 DEF StartAs, Idle
    <2>2. k \in TaskRecord
      BY <2>1 DEF Inv, TasksOK, TaskOK
    <2>3. task[t].pc = "idle" /\ UNCHANGED <<issued, revoked>>
      BY <1>1 DEF StartAs, At, Provider
    <2> QED  BY <2>1, <2>2, <2>3
  <1>2. mem \in [Creds -> Record]
    BY DEF Inv, StoreOK
  <1>3. CASE \E op \in Ops : StartRefresh(t, op, c)
    BY <1>1, <1>3, QuietTask DEF StartRefresh
  <1>4. CASE StartRelogin(t, c)
    BY <1>1, <1>4, QuietTask DEF StartRelogin
  <1>5. CASE SetToken(t, c)
    <2>1. PICK login \in NewLogins(c), supplied \in BOOLEAN :
             /\ StartAs(t, "token", c, "persist", login)
             /\ mem' = [mem EXCEPT ![c].token = FirstToken(login), ![c].fresh = supplied]
      BY <1>5 DEF SetToken
    <2>2. mem'[c].token = FirstToken(login) /\ \A d \in Creds \ {c} : mem'[d] = mem[d]
      BY <1>2, <2>1 DEF Record
    <2>3. Agrees(c, FirstToken(login)) /\ NotAhead(c, FirstToken(login))
      BY <2>1, NewLoginAgrees
    <2>4. \A d \in Creds : \/ mem'[d].token = mem[d].token /\ (mem'[d].live => mem[d].live)
                           \/ Agrees(d, mem'[d].token) /\ NotAhead(d, mem'[d].token)
      BY <2>2, <2>3
    <2> QED  BY <1>1, <2>1, <2>4, QuietTask
  <1>6. CASE Switch(t, c)
    <2>1. \A d \in Creds : mem'[d].token = mem[d].token /\ mem'[d].live = mem[d].live
      BY <1>2, <1>6 DEF Switch, Record
    <2> QED  BY <1>1, <1>6, <2>1, QuietTask DEF Switch
  <1>7. CASE Delete(t, c)
    <2>1. \A d \in Creds : mem'[d].token = mem[d].token /\ (mem'[d].live => mem[d].live)
      BY <1>2, <1>7 DEF Delete, Record
    <2> QED  BY <1>1, <1>7, <2>1, QuietTask DEF Delete
  <1> QED  BY <1>3, <1>4, <1>5, <1>6, <1>7 DEF Start

(* Ends, and steps to a place where nothing is asked or merged. *)
LEMMA PlainStep ==
    ASSUME Inv, Inv', RegisterInv, NEW t \in Tasks, task[t].pc # "merge",
           UNCHANGED <<mem, issued, revoked>>,
           \/ Return(t)
           \/ \E pc \in {"persist", "report"} : Goto(t, pc)
           \/ \E image : task' = [task EXCEPT ![t].pc = "write", ![t].image = image]
    PROVE  RegisterInv'
  <1>1. task'[t] \in TaskRecord /\ task' = [task EXCEPT ![t] = task'[t]]
    BY DEF Inv, TasksOK, TaskOK, Return, Goto
  <1>2. task'[t].pc \in {"idle", "persist", "report", "write"}
    <2>1. task[t] \in TaskRecord /\ task = [u \in Tasks |-> task[u]]
      BY DEF Inv, TasksOK, TaskOK
    <2>2. CASE Return(t)
      BY <2>1, <2>2 DEF Return, Idle
    <2>3. ASSUME NEW pc \in {"persist", "report"}, Goto(t, pc) PROVE task'[t].pc = pc
      BY <2>1, <2>3 DEF Goto, TaskRecord
    <2>4. ASSUME NEW image, task' = [task EXCEPT ![t].pc = "write", ![t].image = image]
          PROVE  task'[t].pc = "write"
      BY <2>1, <2>4 DEF TaskRecord
    <2> QED  BY <2>2, <2>3, <2>4
  <1> QED  BY <1>1, <1>2, QuietTask

(* The answer, the step that makes the provider move on. *)
LEMMA AnswerRegister ==
    ASSUME Inv, RegisterInv, NEW t \in Tasks, Answer(t)
    PROVE  RegisterInv'
  <1> DEFINE c == Cred(t)
             k == task[t].sent
  <1>1. PICK new \in Token :
             LET pair == [acc |-> new.acc, ref |-> new.ref]
             IN  /\ c \in Creds /\ k \in Token
                 /\ new.login = k.login /\ new.acc = issued[c][k.login].acc + 1
                 /\ new.ref \in {k.ref, k.ref + 1}
                 /\ issued' = [issued EXCEPT ![c][k.login] = pair]
                 /\ \/ /\ task' = [task EXCEPT ![t] =
                                      [task[t] EXCEPT !.pc = "merge", !.got = new]]
                       /\ UNCHANGED refreshLock
                    \/ Loses /\ Return(t) /\ refreshLock' = Nobody
    BY AnswerGives
  <1> DEFINE q == [task[t] EXCEPT !.pc = "merge", !.got = new]
  <1>2. /\ task[t] \in TaskRecord /\ task[t].pc = "sent" /\ k.login \in Logins
        /\ UNCHANGED <<mem, revoked>> /\ c \in Creds
        /\ \A u \in Tasks \ {t} : task[u].pc \notin {"sent", "merge"}
    BY <1>1 DEF Answer, At, Inv, TasksOK, TaskOK, LocksOK, Token
  <1>3. /\ q.pc = "merge" /\ q.got = new /\ q.cred = task[t].cred /\ q.sent = k
        /\ Idle.pc = "idle"
    BY <1>2 DEF TaskRecord, Idle
  <1>4. /\ \A u \in Tasks \ {t} : task'[u] = task[u]
        /\ task'[t] = q \/ (Loses /\ task'[t] = Idle)
    <2> HIDE DEF q
    <2>1. task' = [task EXCEPT ![t] = q] \/ (Loses /\ task' = [task EXCEPT ![t] = Idle])
      BY <1>1 DEF q, Return
    <2> QED  BY <2>1 DEF Inv, TasksOK
  <1>5. \A d \in Creds, l \in Logins :
           /\ <<d, l>> # <<c, k.login>> => issued'[d][l] = issued[d][l]
           /\ <<d, l>> = <<c, k.login>> => /\ issued'[d][l].acc = new.acc
                                          /\ issued'[d][l].ref = new.ref
    BY <1>1, <1>2 DEF Inv, IssuedOK
  <1>6. /\ \A d \in Creds, l \in Logins : issued[d][l].acc \in Nat
        /\ new.acc \in Nat /\ k.acc \in Nat /\ k.ref \in Nat /\ new.ref \in Nat
        /\ \A d \in Creds : mem[d].token \in Token /\ mem[d].token.login \in Logins
                            /\ mem[d].token.acc \in Nat
    BY <1>1, <1>2 DEF Inv, IssuedOK, StoreOK, Record, Token
  <1>7. \A d \in Creds, l \in Logins : issued'[d][l].acc >= issued[d][l].acc
    BY <1>1, <1>5, <1>6
  <1>8. NotAhead(c, k)
    BY <1>2 DEF RegisterInv, AgesOK, At
  <1>9. AgesOK'
    <2>1. \A d \in Creds : NotAhead(d, mem[d].token)'
      BY <1>2, <1>5, <1>6, <1>7 DEF RegisterInv, AgesOK, NotAhead
    <2>2. new.acc <= issued'[c][new.login].acc /\ Register!Later(k, new)
      BY <1>1, <1>2, <1>5, <1>6, <1>8 DEF NotAhead, Register!Later
    <2>3. ASSUME NEW u \in Tasks, At(u, "merge")' \/ At(u, "sent")'
          PROVE  /\ At(u, "merge")' /\ Cred(u)' = c /\ task'[u].got = new
                 /\ task'[u].sent = k
      BY <1>2, <1>3, <1>4, <2>3 DEF At, Cred
    <2> HIDE DEF c, k, q
    <2> QED  BY <2>1, <2>2, <2>3 DEF AgesOK, At, NotAhead
  <1>10. NothingRefused'
    BY <1>2, <1>3, <1>4 DEF RegisterInv, NothingRefused, At
  <1>11. ASSUME ~Loses PROVE LatestOK'
    <2>1. task'[t] = q /\ LatestOK
      BY <1>4, <1>11 DEF RegisterInv
    <2>2. /\ Agrees(c, k)
          /\ new.acc = issued'[c][new.login].acc /\ new.ref = issued'[c][new.login].ref
      BY <1>1, <1>2, <1>5, <2>1 DEF LatestOK, At, Agrees
    <2>3. ASSUME NEW d \in Creds, mem[d].live
          PROVE  Agrees(d, mem[d].token)' \/ (d = c /\ k = mem[d].token)
      <3>1. Agrees(d, mem[d].token)
        <4>1. \A u \in Tasks : task[u].pc # "merge"
          BY <1>2
        <4> QED  BY <2>1, <2>3, <4>1 DEF LatestOK, At
      <3>2. CASE <<d, mem[d].token.login>> # <<c, k.login>>
        BY <1>2, <1>5, <1>6, <3>1, <3>2 DEF Agrees
      <3>3. CASE <<d, mem[d].token.login>> = <<c, k.login>>
        <4>1. /\ mem[d].token.login = k.login /\ mem[d].token.acc = k.acc
              /\ mem[d].token.ref = k.ref
          BY <2>2, <3>1, <3>3 DEF Agrees
        <4>2. mem[d].token = k
          BY <1>1, <1>6, <4>1 DEF Token
        <4> QED  BY <3>3, <4>2
      <3> QED  BY <3>2, <3>3
    <2>4. /\ task'[t].pc = "merge" /\ task'[t].cred = c /\ task'[t].sent = k
          /\ task'[t].got = new
      BY <1>3, <2>1 DEF Cred
    <2>5. \A u \in Tasks : task'[u].pc \in {"sent", "merge"} => u = t
      BY <1>2, <1>4
    <2>6. UNCHANGED mem
      BY <1>2
    <2> HIDE DEF c, k, q
    <2> QED  BY <2>2, <2>3, <2>4, <2>5, <2>6 DEF LatestOK, At, Cred, Agrees
  <1> QED  BY <1>9, <1>10, <1>11 DEF RegisterInv

(* The merge, which takes the answer in or throws it away. *)
LEMMA MergeRegister ==
    ASSUME Inv, RegisterInv, NEW t \in Tasks, Merge(t)
    PROVE  RegisterInv'
  <1> DEFINE c == Cred(t)
             merges == mem[c].live /\ mem[c].token = task[t].sent
  <1>1. /\ task[t] \in TaskRecord /\ task[t].pc = "merge" /\ c \in Creds
        /\ UNCHANGED <<issued, revoked>> /\ mem \in [Creds -> Record]
        /\ \A u \in Tasks \ {t} : task[u].pc \notin {"sent", "merge"}
    BY DEF Merge, At, Provider, Inv, StoreOK, TasksOK, TaskOK, LocksOK, Cred
  <1>2. /\ \A u \in Tasks \ {t} : task'[u] = task[u]
        /\ task'[t].pc \in {"idle", "persist"}
    BY <1>1 DEF Merge, Return, Goto, Inv, TasksOK, Idle, TaskRecord
  <1>3. /\ \A d \in Creds \ {c} : mem'[d] = mem[d]
        /\ merges => mem'[c].token = task[t].got
        /\ ~merges => mem' = mem
        /\ mem'[c].live = mem[c].live
    BY <1>1 DEF Merge, Record
  <1>4. AgesOK'
    BY <1>1, <1>2, <1>3 DEF RegisterInv, AgesOK, At, Cred, NotAhead
  <1>5. NothingRefused'
    BY <1>1, <1>2 DEF RegisterInv, NothingRefused, At
  <1>6. ASSUME ~Loses PROVE LatestOK'
    <2>1. LatestOK
      BY <1>6 DEF RegisterInv
    <2>2. ASSUME NEW d \in Creds, mem'[d].live PROVE Agrees(d, mem[d].token)'
      <3>1. CASE d = c /\ merges
        BY <1>1, <1>3, <2>1, <3>1 DEF LatestOK, At, Agrees
      <3>2. CASE ~(d = c /\ merges)
        <4>1. mem'[d] = mem[d]
          BY <1>3, <3>2
        <4>2. \A u \in Tasks : ~(At(u, "merge") /\ Cred(u) = d /\ task[u].sent = mem[d].token)
          BY <1>1, <2>2, <3>2, <4>1 DEF At
        <4> QED  BY <1>1, <2>1, <2>2, <4>1, <4>2 DEF LatestOK, Agrees
      <3> QED  BY <3>1, <3>2
    <2> QED  BY <1>1, <1>2, <2>2 DEF LatestOK, At
  <1> QED  BY <1>4, <1>5, <1>6 DEF RegisterInv

(* Without crashes and refusals nothing but these steps touches a token.     *)
LEMMA StepRegister ==
    ASSUME Quiet, Inv, Inv', RegisterInv, NEW t \in Tasks, TaskStep(t)
    PROVE  RegisterInv'
  <1> DEFINE c == Cred(t)
  <1>1. /\ TaskOK(task[t]) /\ mem \in [Creds -> Record]
        /\ task[t].pc # "idle" => c \in Creds
        /\ task = [u \in Tasks |-> task[u]] /\ TasksOK'
    BY DEF Inv, StoreOK, TasksOK, TaskOK, Cred
  <1>2. CASE Acquire(t)
    <2>1. task[t].pc = "lock" /\ c \in Creds /\ UNCHANGED <<mem, issued, revoked>>
            /\ refreshLock = Nobody
      BY <1>1, <1>2 DEF Acquire, At, Provider
    <2>2. CASE Return(t)
      BY <2>1, <2>2, PlainStep
    <2>3. CASE mem[c].live /\ task' = [task EXCEPT ![t].pc = "sent", ![t].sent = mem[c].token]
      <3>1. /\ task'[t].pc = "sent" /\ task'[t].sent = mem[c].token
            /\ task'[t].cred = c /\ \A u \in Tasks \ {t} : task'[u] = task[u]
        BY <1>1, <2>3 DEF TaskOK, TaskRecord, Cred
      <3>2. \A u \in Tasks : task[u].pc # "merge"
        BY <2>1, SwitchesAssumption DEF Inv, LocksOK
      <3>3. AgesOK'
        BY <2>1, <3>1 DEF RegisterInv, AgesOK, NotAhead, At, Cred
      <3>4. NothingRefused'
        BY <2>1, <3>1 DEF RegisterInv, NothingRefused, At
      <3>5. ASSUME ~Loses PROVE LatestOK'
        <4>1. \A d \in Creds : mem[d].live => Agrees(d, mem[d].token)
          BY <3>2, <3>5 DEF RegisterInv, LatestOK, At
        <4>2. \A d \in Creds : mem'[d].live => Agrees(d, mem[d].token)'
          BY <2>1, <4>1 DEF Agrees
        <4>3. ASSUME NEW u \in Tasks PROVE /\ ~At(u, "merge")'
                                           /\ At(u, "sent")' => Agrees(Cred(u), task[u].sent)'
          <5>1. CASE u = t
            <6>1. Cred(u)' = c /\ task'[u].sent = mem[c].token /\ ~At(u, "merge")'
              BY <3>1, <5>1 DEF At, Cred
            <6>2. Agrees(c, mem[c].token)
              BY <2>1, <2>3, <4>1
            <6> HIDE DEF c
            <6> QED  BY <2>1, <6>1, <6>2 DEF Agrees
          <5>2. CASE u # t
            <6>1. task'[u] = task[u]
              BY <3>1, <5>2
            <6>2. LatestOK
              BY <3>5 DEF RegisterInv
            <6> QED  BY <2>1, <3>2, <6>1, <6>2 DEF LatestOK, At, Cred, Agrees
          <5> QED  BY <5>1, <5>2
        <4> QED  BY <4>2, <4>3 DEF LatestOK
      <3> QED  BY <3>3, <3>4, <3>5 DEF RegisterInv
    <2> QED  BY <1>2, <2>2, <2>3 DEF Acquire
  <1>3. CASE Relogin(t)
    <2>1. task[t].pc = "lock" /\ c \in Creds /\ UNCHANGED <<issued, revoked>>
      BY <1>1, <1>3 DEF Relogin, At, Provider
    <2>2. CASE UNCHANGED mem /\ Return(t)
      BY <2>1, <2>2, PlainStep
    <2>3. ASSUME NEW login \in NewLogins(c),
                 mem' = [mem EXCEPT ![c] = [@ EXCEPT !.token = FirstToken(login),
                                                     !.fresh = TRUE, !.disabled = FALSE,
                                                     !.invalid = FALSE]],
                 task' = [task EXCEPT ![t].pc = "persist", ![t].login = login]
          PROVE  RegisterInv'
      <3>1. mem'[c].token = FirstToken(login) /\ \A d \in Creds \ {c} : mem'[d] = mem[d]
        BY <1>1, <2>1, <2>3 DEF Record
      <3>2. Agrees(c, FirstToken(login)) /\ NotAhead(c, FirstToken(login))
        BY <2>1, <2>3, NewLoginAgrees
      <3>3. \A d \in Creds :
               \/ mem'[d].token = mem[d].token /\ (mem'[d].live => mem[d].live)
               \/ Agrees(d, mem'[d].token) /\ NotAhead(d, mem'[d].token)
        BY <3>1, <3>2
      <3>4. /\ task' = [task EXCEPT ![t] = task'[t]] /\ task'[t].pc = "persist"
            /\ task'[t] \in TaskRecord
        BY <1>1, <2>3 DEF TaskOK, TasksOK, TaskRecord
      <3> QED  BY <2>1, <3>3, <3>4, QuietTask
    <2> QED  BY <1>3, <2>2, <2>3 DEF Relogin
  <1>4. CASE AnswerFails(t)
    BY <1>4, PlainStep DEF AnswerFails, At, Provider
  <1>5. CASE Refuse(t)
    <2>1. task[t].pc = "sent" /\ c \in Creds /\ UNCHANGED <<mem, issued, revoked>>
      BY <1>1, <1>5 DEF Refuse, At
    <2>2. ~HasFile
      <3>1. HasFile => Accepts(c, task[t].sent)
        BY <2>1 DEF Quiet, RegisterInv, LatestOK, NothingRefused, Agrees, Accepts, At
      <3> QED  BY <1>5, <3>1 DEF Refuse
    <2>3. CASE Return(t)
      BY <2>1, <2>3, PlainStep
    <2>4. CASE Goto(t, "reload")
      <3>1. /\ task' = [task EXCEPT ![t] = task'[t]] /\ task'[t].pc = "reload"
            /\ task'[t] \in TaskRecord
        BY <1>1, <2>4 DEF Goto, TaskOK, TasksOK, TaskRecord
      <3> QED  BY <2>1, <2>2, <3>1, QuietTask
    <2> QED  BY <1>5, <2>3, <2>4 DEF Refuse
  <1>6. CASE Persist(t)
    BY <1>6, PlainStep DEF Persist, Finish, At, Provider
  <1>7. CASE Write(t)
    BY <1>7, PlainStep DEF Write, Finish, At, Provider
  <1>8. CASE ReadFile(t)
    <2>1. task[t].pc = "reload" /\ UNCHANGED <<mem, issued, revoked>> /\ ~HasFile
      BY <1>8 DEF ReadFile, At, Provider, RegisterInv, NothingRefused
    <2>2. Goto(t, "report")
      BY <1>8, <2>1 DEF ReadFile, Goto
    <2> QED  BY <2>1, <2>2, PlainStep
  <1>9. CASE Match(t) \/ Adopt(t)
    BY <1>9 DEF Match, Adopt, RegisterInv, NothingRefused
  <1>10. CASE Report(t)
    <2>1. task[t].pc = "report" /\ c \in Creds /\ UNCHANGED <<issued, revoked>>
      BY <1>1, <1>10 DEF Report, At, Provider
    <2>2. CASE UNCHANGED mem /\ Return(t)
      BY <2>1, <2>2, PlainStep
    <2>3. CASE /\ mem' = [mem EXCEPT ![c].disabled = TRUE, ![c].invalid = TRUE]
               /\ Goto(t, "persist")
      <3>1. /\ task' = [task EXCEPT ![t] = task'[t]] /\ task'[t].pc = "persist"
            /\ task'[t] \in TaskRecord
        BY <1>1, <2>3 DEF Goto, TaskOK, TasksOK, TaskRecord
      <3>2. \A d \in Creds : mem'[d].token = mem[d].token /\ mem'[d].live = mem[d].live
        BY <1>1, <2>1, <2>3 DEF Record
      <3> QED  BY <2>1, <3>1, <3>2, QuietTask
    <2> QED  BY <1>10, <2>2, <2>3 DEF Report
  <1> QED
    BY <1>2, <1>3, <1>4, <1>5, <1>6, <1>7, <1>8, <1>9, <1>10, AnswerRegister, MergeRegister
       DEF TaskStep

LEMMA NextRegister == Quiet /\ Inv /\ Inv' /\ RegisterInv /\ [Next]_vars => RegisterInv'
  <1> SUFFICES ASSUME Quiet, Inv, Inv', RegisterInv, [Next]_vars PROVE RegisterInv'
    OBVIOUS
  <1>1. ASSUME NEW c \in Creds, Expire(c) PROVE RegisterInv'
    <2>1. \A d \in Creds : mem'[d].token = mem[d].token /\ mem'[d].live = mem[d].live
      BY <1>1 DEF Expire, Inv, StoreOK, Record
    <2> QED  BY <1>1, <2>1, QuietTask DEF Expire, Provider
  <1>2. ASSUME NEW c \in Creds, Revoke(c) PROVE RegisterInv'
    BY <1>2 DEF Revoke, Quiet, RegisterInv, AgesOK, NothingRefused, LatestOK, NotAhead, Agrees,
                At, Cred
  <1>3. ASSUME NEW c \in Creds, OtherRefreshes(c) PROVE RegisterInv'
    BY <1>3 DEF OtherRefreshes, Quiet
  <1>4. CASE Restart
    BY <1>4 DEF Restart, Quiet
  <1>5. CASE UNCHANGED vars
    BY <1>5, QuietTask DEF vars, Provider
  <1> QED  BY <1>1, <1>2, <1>3, <1>4, <1>5, StartRegister, StepRegister DEF Next

LEMMA RegisterInvAlways == ASSUME Quiet PROVE Spec => []RegisterInv
  <1>1. Inv /\ Inv' /\ RegisterInv /\ [Next]_vars => RegisterInv'
    BY NextRegister
  <1> QED  BY <1>1, InitRegister, InvAlways, PTL DEF Spec

(* No refresh token is presented twice when neither a crash, nor a lost     *)
(* answer, nor another program parts the store from the provider: whatever  *)
(* the number of tasks, the refresh lock and the second look under it keep  *)
(* every task on the last generation (try_ensure_token).                    *)
THEOREM SpentTokensNeverPresented ==
    ASSUME Quiet, ~Loses
    PROVE  Spec => []NeverPresentsSpentToken
  <1>1. RegisterInv => NeverPresentsSpentToken
    BY DEF RegisterInv, LatestOK, Agrees, NeverPresentsSpentToken, At
  <1> QED  BY <1>1, RegisterInvAlways, PTL

-----------------------------------------------------------------------------
(* The refinement. *)

InUse == [c \in Creds |-> IF mem[c].live THEN mem[c].token ELSE NoToken]

LEMMA RegisterInit == Init => Register!Init
  <1> SUFFICES ASSUME Init PROVE Register!Init
    OBVIOUS
  <1>1. 1 \in Logins
    BY SwitchesAssumption DEF Logins
  <1> QED  BY <1>1, FirstTokenOK DEF Init, Restored, Register!Init

(* What does not change a token in use is a stutter of the register. *)
LEMMA SameInUse ==
    ASSUME \A c \in Creds : mem'[c].token = mem[c].token /\ mem'[c].live = mem[c].live
    PROVE  InUse' = InUse
  BY DEF InUse

LEMMA OneInUse ==
    ASSUME NEW c \in Creds, \A d \in Creds \ {c} : mem'[d] = mem[d]
    PROVE  InUse' = [InUse EXCEPT ![c] = IF mem'[c].live THEN mem'[c].token ELSE NoToken]
  <1> DEFINE New(d) == IF mem'[d].live THEN mem'[d].token ELSE NoToken
             Old(d) == IF mem[d].live THEN mem[d].token ELSE NoToken
  <1>1. \A d \in Creds \ {c} : New(d) = Old(d)
    OBVIOUS
  <1>2. InUse' = [d \in Creds |-> New(d)] /\ InUse = [d \in Creds |-> Old(d)]
    BY DEF InUse
  <1> HIDE DEF New, Old
  <1>3. InUse' = [InUse EXCEPT ![c] = New(c)]
    BY <1>1, <1>2
  <1> QED  BY <1>3 DEF New

LEMMA Installs ==
    ASSUME Inv, NEW c \in Creds, mem[c].live, NEW l \in NewLogins(c),
           InUse' = [InUse EXCEPT ![c] = FirstToken(l)]
    PROVE  Register!Next
  <1>1. l \in Logins /\ l > mem[c].token.login /\ FirstToken(l).login = l
    BY NewLoginAgrees DEF FirstToken
  <1>2. mem[c].token \in Token /\ InUse[c] = mem[c].token
    BY DEF Inv, StoreOK, Record, InUse
  <1>3. InUse[c] # NoToken
    BY <1>2, SwitchesAssumption DEF Token, NoToken, Logins
  <1>4. FirstToken(l) \in Token
    BY <1>1, FirstTokenOK
  <1>5. Register!Install(c)
    BY <1>1, <1>2, <1>3, <1>4 DEF Register!Install, InUse
  <1> QED  BY <1>5 DEF Register!Next

LEMMA Refreshes ==
    ASSUME NEW c \in Creds, NEW got \in Token, Register!Later(InUse[c], got),
           InUse' = [InUse EXCEPT ![c] = got]
    PROVE  Register!Next
  <1>1. Register!Refresh(c)
    BY DEF Register!Refresh, InUse
  <1> QED  BY <1>1 DEF Register!Next

LEMMA RegisterStep ==
    ASSUME Quiet, Inv, RegisterInv, [Next]_vars
    PROVE  Register!Next \/ InUse' = InUse
  <1>1. mem \in [Creds -> Record]
    BY DEF Inv, StoreOK
  <1>2. ASSUME NEW t \in Tasks, NEW c \in Creds, Start(t, c)
        PROVE  Register!Next \/ InUse' = InUse
    <2>1. CASE UNCHANGED mem
      BY <2>1, SameInUse
    <2>2. CASE SetToken(t, c)
      <3>1. PICK login \in NewLogins(c), supplied \in BOOLEAN :
               mem' = [mem EXCEPT ![c].token = FirstToken(login), ![c].fresh = supplied]
        BY <2>2 DEF SetToken
      <3>2. /\ mem'[c].token = FirstToken(login) /\ mem'[c].live /\ mem[c].live
            /\ \A d \in Creds \ {c} : mem'[d] = mem[d]
        BY <1>1, <2>2, <3>1 DEF Record, SetToken
      <3> QED  BY <3>2, OneInUse, Installs
    <2>3. CASE Switch(t, c)
      <3>1. \A d \in Creds : mem'[d].token = mem[d].token /\ mem'[d].live = mem[d].live
        BY <1>1, <2>3 DEF Switch, Record
      <3> QED  BY <3>1, SameInUse
    <2>4. CASE Delete(t, c)
      <3>1. ~mem'[c].live /\ \A d \in Creds \ {c} : mem'[d] = mem[d]
        BY <1>1, <2>4 DEF Delete, Record
      <3>2. InUse' = [InUse EXCEPT ![c] = NoToken]
        BY <3>1, OneInUse
      <3>3. Register!Remove(c)
        BY <3>2 DEF Register!Remove, InUse
      <3> QED  BY <3>3 DEF Register!Next
    <2> QED
      BY <1>2, <2>1, <2>2, <2>3, <2>4 DEF Start, StartRefresh, StartRelogin
  <1>3. ASSUME NEW t \in Tasks, TaskStep(t)
        PROVE  Register!Next \/ InUse' = InUse
    <2> DEFINE c == Cred(t)
    <2>1. CASE UNCHANGED mem
      BY <2>1, SameInUse
    <2>2. CASE Relogin(t) /\ ~UNCHANGED mem
      <3>1. PICK login \in NewLogins(c) :
               /\ mem[c].live
               /\ mem' = [mem EXCEPT ![c] = [@ EXCEPT !.token = FirstToken(login),
                                                      !.fresh = TRUE, !.disabled = FALSE,
                                                      !.invalid = FALSE]]
        BY <2>2 DEF Relogin
      <3>2. c \in Creds
        BY <2>2 DEF Relogin, At, Inv, TasksOK, TaskOK, Cred
      <3>3. /\ mem'[c].token = FirstToken(login) /\ mem'[c].live
            /\ \A d \in Creds \ {c} : mem'[d] = mem[d]
        BY <1>1, <3>1, <3>2 DEF Record
      <3> QED  BY <3>1, <3>2, <3>3, OneInUse, Installs
    <2>3. CASE Merge(t) /\ ~UNCHANGED mem
      <3>1. /\ c \in Creds /\ task[t].pc = "merge" /\ task[t].got \in Token
            /\ mem[c].live /\ mem[c].token = task[t].sent
            /\ mem' = [mem EXCEPT ![c].token = task[t].got, ![c].fresh = TRUE]
        BY <2>3 DEF Merge, At, Inv, TasksOK, TaskOK, Cred
      <3>2. /\ mem'[c].token = task[t].got /\ mem'[c].live
            /\ \A d \in Creds \ {c} : mem'[d] = mem[d]
        BY <1>1, <3>1 DEF Record
      <3>3. InUse' = [InUse EXCEPT ![c] = task[t].got] /\ InUse[c] = task[t].sent
        BY <3>1, <3>2, OneInUse DEF InUse
      <3>4. Register!Later(task[t].sent, task[t].got)
        BY <3>1 DEF RegisterInv, AgesOK, At
      <3> QED  BY <3>1, <3>3, <3>4, Refreshes
    <2>4. CASE Adopt(t)
      BY <2>4 DEF Adopt, RegisterInv, NothingRefused
    <2>5. CASE Report(t)
      <3>1. c \in Creds
        BY <2>5 DEF Report, At, Inv, TasksOK, TaskOK, Cred
      <3>2. \A d \in Creds : mem'[d].token = mem[d].token /\ mem'[d].live = mem[d].live
        BY <1>1, <2>5, <3>1 DEF Report, Record
      <3> QED  BY <3>2, SameInUse
    <2> QED
      BY <1>3, <2>1, <2>2, <2>3, <2>4, <2>5
         DEF TaskStep, Acquire, Answer, AnswerFails, Refuse, Persist, Write, ReadFile, Match
  <1>4. ASSUME NEW c \in Creds, Expire(c) \/ OtherRefreshes(c) \/ Revoke(c)
        PROVE  InUse' = InUse
    <2>1. \A d \in Creds : mem'[d].token = mem[d].token /\ mem'[d].live = mem[d].live
      BY <1>1, <1>4 DEF Expire, OtherRefreshes, Revoke, Record
    <2> QED  BY <2>1, SameInUse
  <1>5. CASE Restart
    BY <1>5 DEF Restart, Quiet
  <1>6. CASE UNCHANGED vars
    BY <1>6, SameInUse DEF vars
  <1> QED  BY <1>2, <1>3, <1>4, <1>5, <1>6 DEF Next

(* The store implements the register: the token in use only moves to a      *)
(* later token of its login or to a newer login, whatever is lost, as long  *)
(* as nothing is reloaded from a file (merge_refreshed_credentials).        *)
THEOREM ImplementsRegister ==
    ASSUME Quiet
    PROVE  Spec => RegisterSpec
  <1>1. Inv /\ RegisterInv /\ [Next]_vars => [Register!Next]_InUse
    BY RegisterStep
  <1> QED
    BY <1>1, RegisterInit, InvAlways, RegisterInvAlways, PTL
       DEF Spec, RegisterSpec, Register!Spec, InUse

(* The same of MCTokenStore, where another store that crashes is beside it   *)
(* and shows the register no token.                                         *)
ShownInUse == [c \in Creds |-> IF part = "refresh" /\ mem[c].live THEN mem[c].token ELSE NoToken]

LEMMA ShownRefreshing ==
    ASSUME part = "refresh", part' = "refresh", Register!Next
    PROVE  Shown!Next
  <1>1. ShownInUse = InUse /\ ShownInUse' = InUse'
    BY DEF ShownInUse, InUse
  <1>2. PICK c \in Creds : Register!Refresh(c) \/ Register!Install(c) \/ Register!Remove(c)
    BY DEF Register!Next
  <1>3. CASE Register!Refresh(c)
    <2>1. Shown!Refresh(c)
      BY <1>1, <1>3 DEF Register!Refresh, Register!Later, Shown!Refresh, Shown!Later, ShownInUse, InUse
    <2> QED  BY <2>1 DEF Shown!Next
  <1>4. CASE Register!Install(c)
    <2>1. Shown!Install(c)
      BY <1>1, <1>4 DEF Register!Install, Shown!Install, ShownInUse, InUse
    <2> QED  BY <2>1 DEF Shown!Next
  <1>5. CASE Register!Remove(c)
    <2>1. Shown!Remove(c)
      BY <1>1, <1>5 DEF Register!Remove, Shown!Remove, ShownInUse, InUse
    <2> QED  BY <2>1 DEF Shown!Next
  <1> QED  BY <1>2, <1>3, <1>4, <1>5

(* The same of the run's store that does not crash: a refresh or a new      *)
(* login moves the token in use forward, and a deletion takes it away       *)
(* (merge_refreshed_credentials and the operations that install a login).   *)
THEOREM RegisterStaysKept ==
    ASSUME Quiet
    PROVE  MCSpec => RegisterKept
  <1> DEFINE I == part = "refresh" => Inv /\ RegisterInv
  <1>1. MCInit => I
    BY InitInv, InitRegister DEF MCInit
  <1>2. I /\ [MCNext]_<<part, vars>> => I'
    <2> SUFFICES ASSUME I, [MCNext]_<<part, vars>>, part' = "refresh" PROVE (Inv /\ RegisterInv)'
      OBVIOUS
    <2>1. part = "refresh" /\ [Next]_vars
      BY DEF MCNext
    <2>2. Inv'
      BY <2>1, NextInv
    <2> QED  BY <2>1, <2>2, NextRegister
  <1>3. MCInit => Shown!Init
    <2>1. ASSUME part = "refresh", Init PROVE Shown!Init
      <3>1. ShownInUse = InUse
        BY <2>1 DEF ShownInUse, InUse
      <3> QED  BY <2>1, <3>1, RegisterInit DEF Register!Init, Shown!Init, ShownInUse, InUse
    <2>2. ASSUME part = "crash" PROVE Shown!Init
      BY <2>2 DEF Shown!Init
    <2> QED  BY <2>1, <2>2 DEF MCInit
  <1>4. I /\ [MCNext]_<<part, vars>> => [Shown!Next]_ShownInUse
    <2> SUFFICES ASSUME I, [MCNext]_<<part, vars>> PROVE Shown!Next \/ ShownInUse' = ShownInUse
      OBVIOUS
    <2>1. part' = part
      BY DEF MCNext
    <2>2. CASE part = "refresh"
      <3>1. [Next]_vars
        BY <2>2 DEF MCNext
      <3>2. Register!Next \/ InUse' = InUse
        BY <2>2, <3>1, RegisterStep
      <3> QED  BY <2>1, <2>2, <3>2, ShownRefreshing DEF ShownInUse, InUse
    <2>3. CASE part # "refresh"
      BY <2>1, <2>3 DEF ShownInUse
    <2> QED  BY <2>2, <2>3
  <1> QED
    BY <1>1, <1>2, <1>3, <1>4, PTL DEF MCSpec, RegisterKept, Shown!Spec, ShownInUse

-----------------------------------------------------------------------------
(* The file and the logins.  While no refresh token can be refused (nothing  *)
(* revokes it or spends it elsewhere, and either none is ever replaced or   *)
(* none is lost), memory, images and file are three places a token passes   *)
(* through in this order.                                                   *)

Steady ==
    /\ ~Revokes /\ ~Others /\ (~Rotates \/ (~Loses /\ ~Crashes))
    /\ Crashes => HasFile

Before(a, b) == a.login < b.login \/ (a.login = b.login /\ a.acc <= b.acc)

\* What each place in an operation says of the tokens on their way.
Orderly(k) ==
    /\ k.pc \notin {"match", "adopt"} /\ (HasFile => k.pc # "reload")
    /\ k.pc = "sent" => NotAhead(k.cred, k.sent)
    /\ k.pc = "merge" => NotAhead(k.cred, k.got) /\ Register!Later(k.sent, k.got)
    /\ k.pc # "idle" => k.login <= mem[k.cred].token.login
    /\ k.pc = "write" =>
         /\ HasFile /\ k.login <= k.image[k.cred].token.login
         /\ \A c \in Creds : /\ NotAhead(c, k.image[c].token)
                             /\ Before(file[c].token, k.image[c].token)
                             /\ Before(k.image[c].token, mem[c].token)

PlacesOK ==
    \A c \in Creds :
        /\ NotAhead(c, mem[c].token) /\ NotAhead(c, file[c].token)
        /\ Before(file[c].token, mem[c].token)

AckedOK == \A c \in Creds :
    acked[c] <= IF HasFile THEN file[c].token.login ELSE mem[c].token.login

OrderInv == PlacesOK /\ AckedOK /\ \A t \in Tasks : Orderly(task[t])

NeverRefused == \A t \in Tasks : At(t, "sent") => Accepts(Cred(t), task[t].sent)

LEMMA BeforeTransitive ==
    ASSUME NEW a \in Token, NEW b \in Token, NEW c \in Token, Before(a, b), Before(b, c)
    PROVE  Before(a, c)
  BY SwitchesAssumption DEF Before, Token, Logins

LEMMA BeforeItself == ASSUME NEW a \in Token PROVE Before(a, a)
  BY SwitchesAssumption DEF Before, Token, Logins

(* Steps that bring memory and the provider forward and leave the file alone *)
(* keep the order, when the task that makes them ends up orderly.           *)
LEMMA Forward ==
    ASSUME Inv, Inv', OrderInv, UNCHANGED <<file, acked>>,
           \A c \in Creds, l \in Logins : issued'[c][l].acc >= issued[c][l].acc,
           \A c \in Creds : /\ Before(mem[c].token, mem'[c].token)
                            /\ NotAhead(c, mem[c].token)',
           \/ UNCHANGED task
           \/ \E t \in Tasks : /\ Orderly(task[t])'
                               /\ \A u \in Tasks \ {t} : task'[u] = task[u]
    PROVE  OrderInv'
  <1>1. \A k \in Token : k.login \in Logins /\ k.login \in Int /\ k.acc \in Int
    BY SwitchesAssumption DEF Token, Logins
  <1>2. \A c \in Creds, l \in Logins : issued[c][l].acc \in Int /\ issued'[c][l].acc \in Int
    BY DEF Inv, IssuedOK
  <1>3. \A c \in Creds : /\ mem[c].token \in Token /\ mem'[c].token \in Token
                         /\ file[c].token \in Token
    BY DEF Inv, StoreOK, Record, Saved
  <1>4. ASSUME NEW c \in Creds, NEW k \in Token, NotAhead(c, k) PROVE NotAhead(c, k)'
    BY <1>1, <1>2, <1>4 DEF NotAhead
  <1>5. PlacesOK'
    BY <1>1, <1>3, <1>4, BeforeTransitive DEF OrderInv, PlacesOK
  <1>6. AckedOK'
    BY <1>1, <1>3 DEF OrderInv, AckedOK, Before, Inv, StoreOK, Logins
  <1>7. ASSUME NEW k, TaskOK(k), Orderly(k) PROVE Orderly(k)'
    <2>1. /\ k.pc # "idle" => k.cred \in Creds
          /\ k.pc = "sent" => k.sent \in Token
          /\ k.pc = "merge" => k.got \in Token
          /\ k.login \in Int
      BY <1>7, SwitchesAssumption DEF TaskOK, TaskRecord
    <2>2. /\ k.pc = "sent" => NotAhead(k.cred, k.sent)'
          /\ k.pc = "merge" => NotAhead(k.cred, k.got)'
      BY <1>4, <1>7, <2>1 DEF Orderly
    <2>3. k.pc # "idle" => k.login <= mem'[k.cred].token.login
      BY <1>1, <1>3, <1>7, <2>1 DEF Orderly, Before
    <2>4. ASSUME k.pc = "write", NEW c \in Creds
          PROVE  /\ NotAhead(c, k.image[c].token)'
                 /\ Before(file[c].token, k.image[c].token)
                 /\ Before(k.image[c].token, mem'[c].token)
      <3>1. k.image[c].token \in Token
        BY <1>7, <2>4 DEF TaskOK, Saved
      <3>2. NotAhead(c, k.image[c].token) /\ Before(file[c].token, k.image[c].token)
              /\ Before(k.image[c].token, mem[c].token)
        BY <1>7, <2>4 DEF Orderly
      <3> QED  BY <1>3, <1>4, <3>1, <3>2, BeforeTransitive
    <2> QED  BY <1>7, <2>2, <2>3, <2>4 DEF Orderly
  <1>8. ASSUME NEW u \in Tasks, task'[u] = task[u] PROVE Orderly(task[u])'
    <2>1. PICK k : k = task[u]
      OBVIOUS
    <2>2. Orderly(k)'
      BY <1>7, <2>1 DEF OrderInv, Inv, TasksOK
    <2>3. k = task'[u]
      BY <1>8, <2>1
    <2> QED  BY <2>2, <2>3 DEF Orderly
  <1> QED  BY <1>5, <1>6, <1>8 DEF OrderInv

LEMMA InitOrder == Init => OrderInv
  <1> SUFFICES ASSUME Init PROVE OrderInv
    OBVIOUS
  <1>1. 1 \in Logins /\ FirstToken(1) \in Token
    BY SwitchesAssumption, FirstTokenOK DEF Logins
  <1>2. \A c \in Creds : /\ mem[c].token = FirstToken(1) /\ file[c].token = FirstToken(1)
                         /\ NotAhead(c, FirstToken(1)) /\ acked[c] = 1
    BY <1>1 DEF Init, Restored, Snapshot, FirstToken, NotAhead
  <1>3. \A t \in Tasks : task[t].pc = "idle"
    BY DEF Init, Idle
  <1>4. PlacesOK /\ AckedOK
    BY <1>1, <1>2, BeforeItself DEF PlacesOK, AckedOK, FirstToken
  <1> QED  BY <1>3, <1>4 DEF OrderInv, Orderly

(* The same, for a step the provider has no part in. *)
LEMMA Still ==
    ASSUME Inv, Inv', OrderInv, UNCHANGED <<file, issued, acked>>,
           \A c \in Creds : \/ mem'[c].token = mem[c].token
                            \/ /\ Before(mem[c].token, mem'[c].token)
                               /\ NotAhead(c, mem'[c].token),
           \/ UNCHANGED task
           \/ \E t \in Tasks : /\ Orderly(task[t])'
                               /\ \A u \in Tasks \ {t} : task'[u] = task[u]
    PROVE  OrderInv'
  <1>1. \A c \in Creds, l \in Logins : issued'[c][l].acc >= issued[c][l].acc
    BY DEF Inv, IssuedOK
  <1>2. \A c \in Creds : Before(mem[c].token, mem'[c].token) /\ NotAhead(c, mem[c].token)'
    <2>1. \A c \in Creds : mem[c].token \in Token
      BY DEF Inv, StoreOK, Record
    <2> QED  BY <2>1, BeforeItself DEF OrderInv, PlacesOK, NotAhead
  <1> QED  BY <1>1, <1>2, Forward

(* A new login is later than everything the credential had. *)
LEMMA LoginAfter ==
    ASSUME Inv, NEW c \in Creds, NEW l \in NewLogins(c)
    PROVE  Before(mem[c].token, FirstToken(l)) /\ NotAhead(c, FirstToken(l))
  BY NewLoginAgrees, SwitchesAssumption
     DEF Before, FirstToken, Inv, StoreOK, Record, Token, Logins

LEMMA StartOrder ==
    ASSUME Inv, Inv', OrderInv, NEW t \in Tasks, NEW c \in Creds, Start(t, c)
    PROVE  OrderInv'
  <1>1. mem \in [Creds -> Record] /\ mem[c].token.login \in Nat /\ task' = [u \in Tasks |-> task'[u]]
    BY SwitchesAssumption DEF Inv, StoreOK, Record, Token, Logins, TasksOK
  <1>2. ASSUME NEW op, NEW pc, NEW login, StartAs(t, op, c, pc, login)
        PROVE  /\ UNCHANGED <<file, issued, acked>>
               /\ \A u \in Tasks \ {t} : task'[u] = task[u]
               /\ task'[t].pc = pc /\ task'[t].login = login /\ task'[t].cred = c
    BY <1>2 DEF StartAs, Idle, Provider, Inv, TasksOK
  <1>3. CASE (\E op \in Ops : StartRefresh(t, op, c)) \/ StartRelogin(t, c)
    <2>1. UNCHANGED mem /\ \E op \in Ops \cup {"relogin"} : StartAs(t, op, c, "lock", 0)
      BY <1>3 DEF StartRefresh, StartRelogin
    <2>2. Orderly(task[t])'
      BY <1>1, <1>2, <2>1 DEF Orderly
    <2> QED  BY <1>2, <2>1, <2>2, Still
  <1>4. CASE SetToken(t, c)
    <2>1. PICK login \in NewLogins(c), supplied \in BOOLEAN :
             /\ StartAs(t, "token", c, "persist", login)
             /\ mem' = [mem EXCEPT ![c].token = FirstToken(login), ![c].fresh = supplied]
      BY <1>4 DEF SetToken
    <2>2. mem'[c].token = FirstToken(login) /\ \A d \in Creds \ {c} : mem'[d] = mem[d]
      BY <1>1, <2>1 DEF Record
    <2>3. Orderly(task[t])'
      <3>1. login <= FirstToken(login).login
        BY <2>1 DEF FirstToken, NewLogins, Logins
      <3>2. /\ task'[t].pc = "persist" /\ task'[t].login = login /\ task'[t].cred = c
            /\ mem'[c].token.login = FirstToken(login).login
        BY <1>2, <2>1, <2>2
      <3> QED  BY <3>1, <3>2 DEF Orderly
    <2>4. Before(mem[c].token, mem'[c].token) /\ NotAhead(c, mem'[c].token)
      BY <2>1, <2>2, LoginAfter
    <2> QED  BY <1>2, <2>1, <2>2, <2>3, <2>4, Still
  <1>5. CASE Switch(t, c) \/ Delete(t, c)
    <2>1. \A d \in Creds : mem'[d].token = mem[d].token
      BY <1>1, <1>5 DEF Switch, Delete, Record
    <2>2. \E op : StartAs(t, op, c, "persist", 0)
      BY <1>5 DEF Switch, Delete
    <2>3. Orderly(task[t])'
      BY <1>1, <1>2, <2>1, <2>2 DEF Orderly
    <2> QED  BY <1>2, <2>1, <2>2, <2>3, Still
  <1> QED  BY <1>3, <1>4, <1>5 DEF Start

(* Ends, and steps that carry no token. *)
LEMMA PlainOrder ==
    ASSUME Inv, Inv', OrderInv, NEW t \in Tasks,
           UNCHANGED <<mem, file, issued, acked>>,
           task[t].pc # "idle",
           Return(t) \/ Goto(t, "report") \/ (Goto(t, "reload") /\ ~HasFile)
    PROVE  OrderInv'
  <1>1. task[t] \in TaskRecord /\ task = [u \in Tasks |-> task[u]]
    BY DEF Inv, TasksOK, TaskOK
  <1>2. /\ task'[t].pc \in {"idle", "report", "reload"} /\ (HasFile => task'[t].pc # "reload")
        /\ task'[t] = Idle \/ (task'[t].login = task[t].login /\ task'[t].cred = task[t].cred)
        /\ \A u \in Tasks \ {t} : task'[u] = task[u]
    BY <1>1 DEF Return, Goto, Idle, TaskRecord
  <1>3. Orderly(task[t])'
    BY <1>2 DEF Orderly, OrderInv, Idle
  <1> QED  BY <1>2, <1>3, Still

LEMMA StepOrder ==
    ASSUME Inv, Inv', OrderInv, NeverRefused, NEW t \in Tasks, TaskStep(t)
    PROVE  OrderInv'
  <1> DEFINE c == Cred(t)
  <1>1. /\ TaskOK(task[t]) /\ mem \in [Creds -> Record]
        /\ task[t].pc # "idle" => c \in Creds
        /\ task = [u \in Tasks |-> task[u]]
        /\ Orderly(task[t])
    BY DEF Inv, StoreOK, TasksOK, TaskOK, Cred, OrderInv
  <1>2. CASE Acquire(t)
    <2>1. task[t].pc = "lock" /\ c \in Creds /\ UNCHANGED <<mem, file, issued, acked>>
      BY <1>1, <1>2 DEF Acquire, At, Provider
    <2>2. CASE Return(t)
      BY <2>1, <2>2, PlainOrder
    <2>3. CASE task' = [task EXCEPT ![t].pc = "sent", ![t].sent = mem[c].token]
      <3>1. /\ task'[t].pc = "sent" /\ task'[t].sent = mem[c].token
            /\ task'[t].cred = c /\ \A u \in Tasks \ {t} : task'[u] = task[u]
        BY <1>1, <2>3 DEF TaskOK, TaskRecord, Cred
      <3>2. NotAhead(c, mem[c].token)
        BY <2>1 DEF OrderInv, PlacesOK
      <3>3. task'[t].login = task[t].login /\ task[t].login <= mem[c].token.login
        BY <1>1, <2>1, <2>3 DEF TaskOK, TaskRecord, Orderly, Cred
      <3>4. Orderly(task[t])'
        <4> HIDE DEF c
        <4> QED  BY <2>1, <3>1, <3>2, <3>3 DEF Orderly, NotAhead
      <3> QED  BY <2>1, <3>1, <3>4, Still
    <2> QED  BY <1>2, <2>2, <2>3 DEF Acquire
  <1>3. CASE Relogin(t)
    <2>1. task[t].pc = "lock" /\ c \in Creds /\ UNCHANGED <<file, issued, acked>>
      BY <1>1, <1>3 DEF Relogin, At, Provider
    <2>2. CASE UNCHANGED mem /\ Return(t)
      BY <2>1, <2>2, PlainOrder
    <2>3. ASSUME NEW login \in NewLogins(c),
                 mem' = [mem EXCEPT ![c] = [@ EXCEPT !.token = FirstToken(login),
                                                     !.fresh = TRUE, !.disabled = FALSE,
                                                     !.invalid = FALSE]],
                 task' = [task EXCEPT ![t].pc = "persist", ![t].login = login]
          PROVE  OrderInv'
      <3>1. mem'[c].token = FirstToken(login) /\ \A d \in Creds \ {c} : mem'[d] = mem[d]
        BY <1>1, <2>1, <2>3 DEF Record
      <3>2. /\ task'[t].pc = "persist" /\ task'[t].login = login /\ task'[t].cred = c
            /\ \A u \in Tasks \ {t} : task'[u] = task[u]
        BY <1>1, <2>3 DEF TaskOK, TaskRecord, Cred
      <3>3. Orderly(task[t])'
        <4>1. login <= FirstToken(login).login
          BY <2>3 DEF FirstToken, NewLogins, Logins
        <4>2. login <= mem'[c].token.login
          BY <3>1, <4>1
        <4> HIDE DEF c
        <4> QED  BY <3>2, <4>2 DEF Orderly
      <3>4. Before(mem[c].token, mem'[c].token) /\ NotAhead(c, mem'[c].token)
        BY <2>1, <2>3, <3>1, LoginAfter
      <3> QED  BY <2>1, <3>1, <3>2, <3>3, <3>4, Still
    <2> QED  BY <1>3, <2>2, <2>3 DEF Relogin
  <1>4. CASE AnswerFails(t)
    BY <1>4, PlainOrder DEF AnswerFails, Provider, At
  <1>5. CASE Refuse(t)
    BY <1>5 DEF Refuse, NeverRefused
  <1>6. CASE ReadFile(t)
    <2>1. task[t].pc = "reload" /\ UNCHANGED <<mem, file, issued, acked>> /\ ~HasFile
      BY <1>1, <1>6 DEF ReadFile, At, Provider, Orderly
    <2>2. Goto(t, "report")
      BY <1>6, <2>1 DEF ReadFile, Goto
    <2> QED  BY <2>1, <2>2, PlainOrder
  <1>7. CASE Match(t) \/ Adopt(t)
    BY <1>1, <1>7 DEF Match, Adopt, At, Orderly
  <1>8. CASE Report(t)
    <2>1. task[t].pc = "report" /\ c \in Creds /\ UNCHANGED <<file, issued, acked>>
      BY <1>1, <1>8 DEF Report, At, Provider
    <2>2. CASE UNCHANGED mem /\ Return(t)
      BY <2>1, <2>2, PlainOrder
    <2>3. CASE /\ mem' = [mem EXCEPT ![c].disabled = TRUE, ![c].invalid = TRUE]
               /\ Goto(t, "persist")
      <3>1. \A d \in Creds : mem'[d].token = mem[d].token
        BY <1>1, <2>1, <2>3 DEF Record
      <3>2. /\ task'[t].pc = "persist" /\ task'[t].login = task[t].login /\ task'[t].cred = c
            /\ \A u \in Tasks \ {t} : task'[u] = task[u]
        BY <1>1, <2>3 DEF Goto, TaskOK, TaskRecord, Cred
      <3>3. Orderly(task[t])'
        BY <1>1, <2>1, <3>1, <3>2 DEF Orderly, Cred
      <3> QED  BY <2>1, <3>1, <3>2, <3>3, Still
    <2> QED  BY <1>8, <2>2, <2>3 DEF Report
  <1>9. CASE Answer(t)
    <2> DEFINE k == task[t].sent
    <2>1. PICK new \in Token :
             LET pair == [acc |-> new.acc, ref |-> new.ref]
             IN  /\ c \in Creds /\ k \in Token
                 /\ new.login = k.login /\ new.acc = issued[c][k.login].acc + 1
                 /\ new.ref \in {k.ref, k.ref + 1}
                 /\ issued' = [issued EXCEPT ![c][k.login] = pair]
                 /\ \/ /\ task' = [task EXCEPT ![t] =
                                      [task[t] EXCEPT !.pc = "merge", !.got = new]]
                       /\ UNCHANGED refreshLock
                    \/ Loses /\ Return(t) /\ refreshLock' = Nobody
      BY <1>9, AnswerGives
    <2>2. /\ task[t].pc = "sent" /\ k.login \in Logins /\ UNCHANGED <<mem, file, acked>>
          /\ NotAhead(c, k)
      BY <1>1, <1>9, <2>1 DEF Answer, At, Token, Orderly, Cred
    <2>3. \A d \in Creds, l \in Logins :
             /\ <<d, l>> # <<c, k.login>> => issued'[d][l] = issued[d][l]
             /\ <<d, l>> = <<c, k.login>> => issued'[d][l].acc = new.acc
      BY <2>1, <2>2 DEF Inv, IssuedOK
    <2>4. /\ \A d \in Creds, l \in Logins : issued[d][l].acc \in Nat
          /\ new.acc \in Nat /\ k.acc \in Nat /\ k.ref \in Nat /\ new.ref \in Nat
          /\ \A d \in Creds : mem[d].token \in Token /\ mem[d].token.login \in Logins
                              /\ mem[d].token.acc \in Nat
      BY <2>1, <2>2 DEF Inv, IssuedOK, StoreOK, Record, Token
    <2>5. \A d \in Creds, l \in Logins : issued'[d][l].acc >= issued[d][l].acc
      BY <2>1, <2>3, <2>4
    <2>6. \A d \in Creds : /\ Before(mem[d].token, mem'[d].token)
                           /\ NotAhead(d, mem[d].token)'
      <3>1. \A d \in Creds : NotAhead(d, mem[d].token)
        BY DEF OrderInv, PlacesOK
      <3>2. ASSUME NEW d \in Creds PROVE NotAhead(d, mem[d].token)'
        <4>1. /\ mem[d].token.acc \in Int /\ issued[d][mem[d].token.login].acc \in Int
              /\ mem[d].token.acc <= issued[d][mem[d].token.login].acc
              /\ issued'[d][mem[d].token.login].acc >= issued[d][mem[d].token.login].acc
              /\ issued'[d][mem[d].token.login].acc \in Int
          BY <2>3, <2>4, <2>5, <3>1 DEF NotAhead
        <4> QED  BY <2>2, <4>1 DEF NotAhead
      <3> QED  BY <2>2, <2>4, <3>2, BeforeItself
    <2>7. \A u \in Tasks \ {t} : task'[u] = task[u]
      BY <1>1, <2>1 DEF Return
    <2>8. Orderly(task[t])'
      <3>1. CASE task' = [task EXCEPT ![t] = Idle]
        BY <1>1, <3>1 DEF Idle, Orderly
      <3>2. CASE task' = [task EXCEPT ![t] = [task[t] EXCEPT !.pc = "merge", !.got = new]]
        <4>1. /\ task'[t].pc = "merge" /\ task'[t].cred = c /\ task'[t].sent = k
              /\ task'[t].got = new /\ task'[t].login = task[t].login
          BY <1>1, <3>2 DEF TaskOK, TaskRecord, Cred
        <4>2. new.acc <= issued'[c][new.login].acc /\ Register!Later(k, new)
          BY <2>1, <2>2, <2>3, <2>4 DEF NotAhead, Register!Later
        <4>3. task[t].login <= mem'[c].token.login
          BY <1>1, <2>2 DEF Orderly, Cred
        <4> HIDE DEF k, c
        <4> QED  BY <4>1, <4>2, <4>3 DEF Orderly, NotAhead
      <3> QED  BY <2>1, <3>1, <3>2 DEF Return
    <2> QED  BY <2>2, <2>5, <2>6, <2>7, <2>8, Forward
  <1>10. CASE Merge(t)
    <2>1. /\ task[t].pc = "merge" /\ c \in Creds /\ UNCHANGED <<file, issued, acked>>
          /\ task[t].got \in Token /\ task[t].sent \in Token
      BY <1>1, <1>10 DEF Merge, At, Provider, TaskOK
    <2>2. CASE UNCHANGED mem /\ Return(t)
      BY <2>1, <2>2, PlainOrder
    <2>3. CASE /\ mem[c].token = task[t].sent /\ Goto(t, "persist")
               /\ mem' = [mem EXCEPT ![c].token = task[t].got, ![c].fresh = TRUE]
      <3>1. mem'[c].token = task[t].got /\ \A d \in Creds \ {c} : mem'[d] = mem[d]
        BY <1>1, <2>1, <2>3 DEF Record
      <3>2. /\ task'[t].pc = "persist" /\ task'[t].login = task[t].login /\ task'[t].cred = c
            /\ \A u \in Tasks \ {t} : task'[u] = task[u]
        BY <1>1, <2>3 DEF Goto, TaskOK, TaskRecord, Cred
      <3>3. NotAhead(c, task[t].got) /\ Register!Later(task[t].sent, task[t].got)
        BY <1>1, <2>1 DEF Orderly, Cred
      <3>4. Before(mem[c].token, mem'[c].token) /\ mem'[c].token.login = mem[c].token.login
        BY <2>1, <2>3, <3>1, <3>3, SwitchesAssumption DEF Before, Register!Later, Token
      <3>5. Orderly(task[t])'
        BY <1>1, <2>1, <3>2, <3>4 DEF Orderly, Cred
      <3> QED  BY <2>1, <3>1, <3>2, <3>3, <3>4, <3>5, Still
    <2> QED  BY <1>10, <2>2, <2>3 DEF Merge
  <1>11. CASE Persist(t)
    <2>1. task[t].pc = "persist" /\ c \in Creds /\ UNCHANGED <<mem, file, issued>>
      BY <1>1, <1>11 DEF Persist, At, Provider
    <2>2. CASE HasFile
      <3> DEFINE image == [d \in Creds |-> Snapshot(mem[d])]
      <3>1. UNCHANGED acked /\ task' = [task EXCEPT ![t].pc = "write", ![t].image = image]
        BY <1>11, <2>2 DEF Persist
      <3>2. \A d \in Creds : image[d].token = mem[d].token
        BY DEF Snapshot
      <3>3. /\ task'[t].pc = "write" /\ task'[t].login = task[t].login /\ task'[t].cred = c
            /\ task'[t].image = image /\ \A u \in Tasks \ {t} : task'[u] = task[u]
        <4> HIDE DEF image
        <4> QED  BY <1>1, <3>1 DEF TaskOK, TaskRecord, Cred
      <3>4. \A d \in Creds : /\ NotAhead(d, mem[d].token)
                             /\ Before(file[d].token, mem[d].token)
                             /\ Before(mem[d].token, mem[d].token)
        BY BeforeItself DEF OrderInv, PlacesOK, Inv, StoreOK, Record
      <3>5. task[t].login <= mem[c].token.login
        BY <1>1, <2>1 DEF Orderly, Cred
      <3>6. Orderly(task[t])'
        <4> HIDE DEF image, c
        <4> QED  BY <2>1, <2>2, <3>2, <3>3, <3>4, <3>5 DEF Orderly, NotAhead
      <3> QED  BY <2>1, <3>1, <3>3, <3>6, Still
    <2>3. CASE ~HasFile
      <3>1. Return(t) /\ task' = [task EXCEPT ![t] = Idle]
        BY <1>11, <2>3 DEF Persist, Finish, Return
      <3>2. /\ task'[t].pc = "idle" /\ \A u \in Tasks \ {t} : task'[u] = task[u]
        BY <1>1, <3>1 DEF Idle
      <3>3. (\A u \in Tasks : Orderly(task[u])')
        BY <2>1, <3>2 DEF Orderly, OrderInv, NotAhead
      <3>4. PlacesOK'
        BY <2>1 DEF OrderInv, PlacesOK, NotAhead
      <3>5. task[t].login <= mem[c].token.login
        BY <1>1, <2>1 DEF Orderly, Cred
      <3>6. acked' = acked \/ acked' = [acked EXCEPT ![c] = IF task[t].login > @ THEN task[t].login ELSE @]
        BY <1>11, <2>3 DEF Persist, Finish
      <3>7. AckedOK'
        BY <2>1, <2>3, <3>5, <3>6 DEF OrderInv, AckedOK, Inv, StoreOK
      <3> QED  BY <3>3, <3>4, <3>7 DEF OrderInv
    <2> QED  BY <2>2, <2>3
  <1>12. CASE Write(t)
    <2>1. /\ task[t].pc = "write" /\ c \in Creds /\ UNCHANGED <<mem, issued>>
          /\ \A u \in Tasks \ {t} : task[u].pc # "write"
          /\ task[t].image \in [Creds -> Saved]
      BY <1>1, <1>12 DEF Write, At, Provider, Inv, LocksOK, TaskOK
    <2>2. PICK ok \in {TRUE, ~WriteFails} :
             file' = (IF ok THEN task[t].image ELSE file) /\ Finish(t, ok)
      BY <1>12 DEF Write
    <2>3. \A d \in Creds : /\ NotAhead(d, file'[d].token)
                           /\ Before(file[d].token, file'[d].token)
                           /\ Before(file'[d].token, mem[d].token)
      <3>1. \A d \in Creds : Before(file[d].token, file[d].token)
        BY BeforeItself DEF Inv, StoreOK, Saved
      <3> QED  BY <1>1, <2>1, <2>2, <3>1 DEF Orderly, OrderInv, PlacesOK
    <2>4. PlacesOK'
      BY <2>1, <2>3 DEF OrderInv, PlacesOK, NotAhead
    <2>5. /\ task'[t].pc = "idle" /\ \A u \in Tasks \ {t} : task'[u] = task[u]
      BY <1>1, <2>2 DEF Finish, Return, Idle
    <2>6. \A u \in Tasks : Orderly(task[u])'
      BY <2>1, <2>5 DEF Orderly, OrderInv, NotAhead
    <2>7. AckedOK'
      <3>1. \A d \in Creds : /\ file[d].token.login \in Int /\ file'[d].token.login \in Int
                             /\ file[d].token.login <= file'[d].token.login
                             /\ acked[d] \in Int
        BY <2>3, SwitchesAssumption DEF Before, Inv, StoreOK, Saved, Token, Logins
      <3>2. HasFile
        BY <1>1, <2>1 DEF Orderly
      <3>3. acked' = acked \/ (ok /\ acked' = [acked EXCEPT ![c] = IF task[t].login > @ THEN task[t].login ELSE @])
        BY <2>2 DEF Finish
      <3>4. ok => task[t].login <= file'[c].token.login
        BY <1>1, <2>1, <2>2 DEF Orderly, Cred
      <3> QED  BY <2>1, <3>1, <3>2, <3>3, <3>4 DEF OrderInv, AckedOK, Inv, StoreOK
    <2> QED  BY <2>4, <2>6, <2>7 DEF OrderInv
  <1> QED
    BY <1>2, <1>3, <1>4, <1>5, <1>6, <1>7, <1>8, <1>9, <1>10, <1>11, <1>12 DEF TaskStep

LEMMA NextOrder ==
    Steady /\ Inv /\ Inv' /\ NeverRefused /\ OrderInv /\ [Next]_vars => OrderInv'
  <1> SUFFICES ASSUME Steady, Inv, Inv', NeverRefused, OrderInv, [Next]_vars PROVE OrderInv'
    OBVIOUS
  <1>1. ASSUME NEW c \in Creds, Expire(c) PROVE OrderInv'
    <2>1. \A d \in Creds : mem'[d].token = mem[d].token
      BY <1>1 DEF Expire, Inv, StoreOK, Record
    <2> QED  BY <1>1, <2>1, Still DEF Expire, Provider
  <1>2. ASSUME NEW c \in Creds, Revoke(c) \/ OtherRefreshes(c) PROVE OrderInv'
    BY <1>2 DEF Revoke, OtherRefreshes, Steady
  <1>3. CASE Restart
    <2>1. \A c \in Creds : mem'[c].token = file[c].token /\ file[c].token \in Token
      BY <1>3 DEF Restart, Restored, Inv, StoreOK, Saved
    <2>2. PlacesOK'
      BY <1>3, <2>1, BeforeItself DEF Restart, Provider, OrderInv, PlacesOK, NotAhead
    <2>3. \A t \in Tasks : Orderly(task[t])'
      BY <1>3 DEF Restart, Orderly, Idle
    <2>4. AckedOK'
      BY <1>3, <2>1 DEF Restart, Steady, OrderInv, AckedOK
    <2> QED  BY <2>2, <2>3, <2>4 DEF OrderInv
  <1>4. CASE UNCHANGED vars
    BY <1>4, Still DEF vars, Provider
  <1> QED  BY <1>1, <1>2, <1>3, <1>4, StartOrder, StepOrder DEF Next

(* No rotation: every refresh token stays the first of its login. *)
FirstOnly(k) ==
    /\ k.pc = "sent" => k.sent.ref = 0
    /\ k.pc \in {"merge", "match", "adopt"} => k.got.ref = 0
    /\ k.pc = "write" => \A c \in Creds : k.image[c].token.ref = 0

FirstTokens ==
    /\ revoked = {}
    /\ \A c \in Creds : /\ mem[c].token.ref = 0 /\ file[c].token.ref = 0
                        /\ \A l \in Logins : issued[c][l].ref = 0
    /\ \A t \in Tasks : FirstOnly(task[t])

LEMMA InitFirst == Init => FirstTokens
  <1> SUFFICES ASSUME Init PROVE FirstTokens
    OBVIOUS
  <1>1. \A t \in Tasks : task[t].pc = "idle"
    BY DEF Init, Idle
  <1>2. \A c \in Creds : mem[c].token.ref = 0 /\ file[c].token.ref = 0
    BY DEF Init, Restored, Snapshot, FirstToken
  <1> QED  BY <1>1, <1>2 DEF Init, FirstTokens, FirstOnly

LEMMA StepFirst ==
    ASSUME ~Rotates, Inv, FirstTokens, NEW t \in Tasks,
           TaskStep(t) \/ \E c \in Creds : Start(t, c)
    PROVE  FirstTokens'
  <1> DEFINE c == Cred(t)
  <1>1. /\ TaskOK(task[t]) /\ mem \in [Creds -> Record] /\ file \in [Creds -> Saved]
        /\ task[t].pc # "idle" => c \in Creds
        /\ task = [u \in Tasks |-> task[u]]
        /\ FirstOnly(task[t]) /\ revoked = {}
        /\ \A d \in Creds : /\ mem[d].token.ref = 0 /\ file[d].token.ref = 0
                            /\ \A l \in Logins : issued[d][l].ref = 0
    BY DEF Inv, StoreOK, TasksOK, TaskOK, Cred, FirstTokens
  <1>2. ASSUME UNCHANGED revoked, NEW k, task' = [task EXCEPT ![t] = k], FirstOnly(k),
               \A d \in Creds : /\ mem'[d].token.ref = 0 /\ file'[d].token.ref = 0
                                /\ \A l \in Logins : issued'[d][l].ref = 0
        PROVE  FirstTokens'
    <2>1. \A u \in Tasks : task'[u] = task[u] \/ task'[u] = k
      BY <1>1, <1>2
    <2>2. \A u \in Tasks : FirstOnly(task'[u])
      BY <1>2, <2>1 DEF FirstTokens
    <2> QED  BY <1>1, <1>2, <2>2 DEF FirstTokens
  <1>3. FirstOnly(Idle)
    BY DEF FirstOnly, Idle
  <1>4. ASSUME NEW d \in Creds, Start(t, d) PROVE FirstTokens'
    <2>1. ASSUME NEW op, NEW pc \in {"lock", "persist"}, NEW login, StartAs(t, op, d, pc, login),
                 \A e \in Creds : mem'[e].token.ref = 0
          PROVE  FirstTokens'
      <3> DEFINE k == [Idle EXCEPT !.pc = pc, !.op = op, !.cred = d, !.login = login]
      <3>1. FirstOnly(k) /\ task' = [task EXCEPT ![t] = k]
        BY <2>1 DEF FirstOnly, Idle, StartAs
      <3>2. UNCHANGED <<file, issued, revoked>>
        BY <2>1 DEF StartAs, Provider
      <3> HIDE DEF k
      <3> QED  BY <1>1, <1>2, <2>1, <3>1, <3>2
    <2>2. CASE UNCHANGED mem
      BY <1>1, <1>4, <2>1, <2>2
         DEF Start, StartRefresh, StartRelogin, SetToken, Switch, Delete
    <2>3. CASE SetToken(t, d)
      <3>1. PICK login \in NewLogins(d), supplied \in BOOLEAN :
               /\ StartAs(t, "token", d, "persist", login)
               /\ mem' = [mem EXCEPT ![d].token = FirstToken(login), ![d].fresh = supplied]
        BY <2>3 DEF SetToken
      <3>2. mem'[d].token = FirstToken(login) /\ \A e \in Creds \ {d} : mem'[e] = mem[e]
        BY <1>1, <3>1 DEF Record
      <3>3. \A e \in Creds : mem'[e].token.ref = 0
        BY <1>1, <3>2 DEF FirstToken
      <3> QED  BY <2>1, <3>1, <3>3
    <2>4. CASE Switch(t, d) \/ Delete(t, d)
      <3>1. \A e \in Creds : mem'[e].token = mem[e].token
        <4>1. mem \in [Creds -> Record]
          BY <1>1
        <4>2. CASE Switch(t, d)
          BY <4>1, <4>2 DEF Switch, Record
        <4>3. CASE Delete(t, d)
          BY <4>1, <4>3 DEF Delete, Record
        <4> QED  BY <2>4, <4>2, <4>3
      <3> QED  BY <1>1, <2>1, <2>4, <3>1 DEF Switch, Delete
    <2> QED
      BY <1>4, <2>2, <2>3, <2>4 DEF Start, StartRefresh, StartRelogin
  <1>5. ASSUME NEW pc \in {"persist", "report", "reload"}, Goto(t, pc)
        PROVE  \E k : task' = [task EXCEPT ![t] = k] /\ FirstOnly(k)
    <2> DEFINE k == [task[t] EXCEPT !.pc = pc]
    <2>1. FirstOnly(k) /\ task' = [task EXCEPT ![t] = k]
      BY <1>1, <1>5 DEF Goto, FirstOnly, TaskOK, TaskRecord
    <2> QED  BY <2>1
  <1>6. CASE Acquire(t)
    <2> DEFINE k == [task[t] EXCEPT !.pc = "sent", !.sent = mem[c].token]
    <2>1. c \in Creds /\ UNCHANGED <<mem, file, issued, revoked>>
      BY <1>1, <1>6 DEF Acquire, At, Provider
    <2>2. FirstOnly(k)
      BY <1>1, <2>1 DEF FirstOnly, TaskOK, TaskRecord
    <2>3. task' = [task EXCEPT ![t] = k] \/ task' = [task EXCEPT ![t] = Idle]
      BY <1>6 DEF Acquire, Return
    <2> HIDE DEF k
    <2> QED  BY <1>1, <1>2, <1>3, <2>1, <2>2, <2>3
  <1>7. CASE Relogin(t)
    <2>1. c \in Creds /\ UNCHANGED <<file, issued, revoked>>
      BY <1>1, <1>7 DEF Relogin, At, Provider
    <2>2. \A d \in Creds : mem'[d].token.ref = 0
      <3>1. ASSUME NEW login,
                   mem' = [mem EXCEPT ![c] = [@ EXCEPT !.token = FirstToken(login),
                                                       !.fresh = TRUE, !.disabled = FALSE,
                                                       !.invalid = FALSE]]
            PROVE  \A d \in Creds : mem'[d].token.ref = 0
        <4>1. mem'[c].token = FirstToken(login) /\ \A d \in Creds \ {c} : mem'[d] = mem[d]
          BY <1>1, <2>1, <3>1 DEF Record
        <4> QED  BY <1>1, <4>1 DEF FirstToken
      <3> QED  BY <1>1, <1>7, <3>1 DEF Relogin
    <2>3. \E k : task' = [task EXCEPT ![t] = k] /\ FirstOnly(k)
      <3>1. ASSUME NEW login, task' = [task EXCEPT ![t].pc = "persist", ![t].login = login]
            PROVE  \E k : task' = [task EXCEPT ![t] = k] /\ FirstOnly(k)
        <4>1. task' = [task EXCEPT ![t] = [task[t] EXCEPT !.pc = "persist", !.login = login]]
          BY <1>1, <3>1
        <4>2. FirstOnly([task[t] EXCEPT !.pc = "persist", !.login = login])
          BY <1>1 DEF FirstOnly, TaskOK, TaskRecord
        <4> QED  BY <4>1, <4>2
      <3> QED  BY <1>3, <1>7, <3>1 DEF Relogin, Return
    <2> QED  BY <1>1, <1>2, <2>1, <2>2, <2>3
  <1>8. CASE AnswerFails(t) \/ Refuse(t)
    <2>1. UNCHANGED <<mem, file, issued, revoked>>
      BY <1>8 DEF AnswerFails, Refuse, Provider
    <2>2. \E k : task' = [task EXCEPT ![t] = k] /\ FirstOnly(k)
      BY <1>3, <1>5, <1>8 DEF AnswerFails, Refuse, Return
    <2> QED  BY <1>1, <1>2, <2>1, <2>2
  <1>9. CASE Answer(t)
    <2> DEFINE k == task[t].sent
    <2>1. PICK new \in Token :
             LET pair == [acc |-> new.acc, ref |-> new.ref]
             IN  /\ c \in Creds /\ k \in Token /\ (~Rotates => new.ref = k.ref)
                 /\ issued' = [issued EXCEPT ![c][k.login] = pair]
                 /\ \/ /\ task' = [task EXCEPT ![t] =
                                      [task[t] EXCEPT !.pc = "merge", !.got = new]]
                       /\ UNCHANGED refreshLock
                    \/ Loses /\ Return(t) /\ refreshLock' = Nobody
      BY <1>9, AnswerGives
    <2>2. new.ref = 0 /\ UNCHANGED <<mem, file, revoked>>
      BY <1>1, <1>9, <2>1 DEF Answer, At, FirstOnly
    <2>3. \A d \in Creds, l \in Logins : issued'[d][l].ref = 0
      BY <1>1, <2>1, <2>2 DEF Inv, IssuedOK
    <2> DEFINE q == [task[t] EXCEPT !.pc = "merge", !.got = new]
    <2>4. FirstOnly(q)
      BY <1>1, <2>2 DEF FirstOnly, TaskOK, TaskRecord
    <2>5. task' = [task EXCEPT ![t] = q] \/ task' = [task EXCEPT ![t] = Idle]
      BY <2>1 DEF Return
    <2> HIDE DEF q
    <2> QED  BY <1>1, <1>2, <1>3, <2>2, <2>3, <2>4, <2>5
  <1>10. CASE Merge(t) \/ Adopt(t) \/ Report(t)
    <2>1. c \in Creds /\ UNCHANGED <<file, issued, revoked>>
      BY <1>1, <1>10 DEF Merge, Adopt, Report, At, Provider
    <2>2. \A d \in Creds : mem'[d].token.ref = 0
      <3>1. ASSUME NEW e, e.token.ref = 0, mem' = [mem EXCEPT ![c] = e]
            PROVE  \A d \in Creds : mem'[d].token.ref = 0
        BY <1>1, <2>1, <3>1
      <3>2. CASE Merge(t)
        <4> DEFINE e == [mem[c] EXCEPT !.token = task[t].got, !.fresh = TRUE]
        <4>1. mem' = mem \/ mem' = [mem EXCEPT ![c] = e]
          BY <1>1, <2>1, <3>2 DEF Merge
        <4>2. e.token = task[t].got /\ task[t].got.ref = 0
          BY <1>1, <2>1, <3>2 DEF Merge, At, FirstOnly, Record
        <4> HIDE DEF e
        <4> QED  BY <1>1, <3>1, <4>1, <4>2
      <3>3. CASE Adopt(t)
        <4>1. task[t].got.ref = 0
          BY <1>1, <3>3 DEF Adopt, At, FirstOnly
        <4>2. ASSUME NEW fresh,
                     mem' = [mem EXCEPT ![c].token = task[t].got, ![c].fresh = fresh,
                                        ![c].disabled = FALSE, ![c].invalid = FALSE]
              PROVE  \A d \in Creds : mem'[d].token.ref = 0
          <5> DEFINE e == [mem[c] EXCEPT !.token = task[t].got, !.fresh = fresh,
                                         !.disabled = FALSE, !.invalid = FALSE]
          <5>1. mem' = [mem EXCEPT ![c] = e]
            BY <1>1, <2>1, <4>2
          <5>2. e.token = task[t].got
            BY <1>1, <2>1 DEF Record
          <5> HIDE DEF e
          <5> QED  BY <3>1, <4>1, <5>1, <5>2
        <4> QED  BY <1>1, <3>3, <4>2 DEF Adopt
      <3>4. CASE Report(t)
        <4>1. \A d \in Creds : mem'[d].token = mem[d].token
          BY <1>1, <2>1, <3>4 DEF Report, Record
        <4> QED  BY <1>1, <4>1
      <3> QED  BY <1>10, <3>2, <3>3, <3>4
    <2>3. \E k : task' = [task EXCEPT ![t] = k] /\ FirstOnly(k)
      BY <1>3, <1>5, <1>10 DEF Merge, Adopt, Report, Return
    <2> QED  BY <1>1, <1>2, <2>1, <2>2, <2>3
  <1>11. CASE Persist(t)
    <2> DEFINE image == [d \in Creds |-> Snapshot(mem[d])]
               k == [task[t] EXCEPT !.pc = "write", !.image = image]
    <2>1. UNCHANGED <<mem, file, issued, revoked>>
      BY <1>11 DEF Persist, Provider
    <2>2. \A d \in Creds : image[d].token.ref = 0
      BY <1>1 DEF Snapshot
    <2>3. FirstOnly(k)
      <3> HIDE DEF image
      <3> QED  BY <1>1, <2>2 DEF FirstOnly, TaskOK, TaskRecord
    <2>4. task' = [task EXCEPT ![t] = k] \/ task' = [task EXCEPT ![t] = Idle]
      BY <1>1, <1>11 DEF Persist, Finish, Return
    <2> HIDE DEF k
    <2> QED  BY <1>1, <1>2, <1>3, <2>1, <2>3, <2>4
  <1>12. CASE Write(t)
    <2>1. UNCHANGED <<mem, issued, revoked>> /\ task' = [task EXCEPT ![t] = Idle]
      BY <1>12 DEF Write, Finish, Return, Provider
    <2>2. \A d \in Creds : file'[d].token.ref = 0
      BY <1>1, <1>12 DEF Write, At, FirstOnly
    <2> QED  BY <1>1, <1>2, <1>3, <2>1, <2>2
  <1>13. CASE ReadFile(t) \/ Match(t)
    <2>1. c \in Creds /\ UNCHANGED <<mem, file, issued, revoked>>
      BY <1>1, <1>13 DEF ReadFile, Match, At, Provider
    <2>2. \E k : task' = [task EXCEPT ![t] = k] /\ FirstOnly(k)
      <3>1. CASE Goto(t, "report")
        BY <1>5, <3>1
      <3>2. CASE Goto(t, "adopt") /\ Match(t)
        <4> DEFINE k == [task[t] EXCEPT !.pc = "adopt"]
        <4>1. FirstOnly(k) /\ task' = [task EXCEPT ![t] = k]
          BY <1>1, <3>2 DEF Goto, Match, At, FirstOnly, TaskOK, TaskRecord
        <4> QED  BY <4>1
      <3>3. CASE task' = [task EXCEPT ![t].pc = "match", ![t].got = file[c].token]
        <4>1. task' = [task EXCEPT ![t] = [task[t] EXCEPT !.pc = "match", !.got = file[c].token]]
          BY <1>1, <3>3
        <4>2. FirstOnly([task[t] EXCEPT !.pc = "match", !.got = file[c].token])
          BY <1>1, <2>1 DEF FirstOnly, TaskOK, TaskRecord
        <4> QED  BY <4>1, <4>2
      <3> QED  BY <1>13, <3>1, <3>2, <3>3 DEF ReadFile, Match, Goto
    <2> QED  BY <1>1, <1>2, <2>1, <2>2
  <1> QED
    BY <1>4, <1>6, <1>7, <1>8, <1>9, <1>10, <1>11, <1>12, <1>13 DEF TaskStep

LEMMA NextFirst == ~Rotates /\ Steady /\ Inv /\ FirstTokens /\ [Next]_vars => FirstTokens'
  <1> SUFFICES ASSUME ~Rotates, Steady, Inv, FirstTokens, [Next]_vars PROVE FirstTokens'
    OBVIOUS
  <1>1. ASSUME NEW c \in Creds, Expire(c) PROVE FirstTokens'
    <2>1. \A d \in Creds : mem'[d].token = mem[d].token
      BY <1>1 DEF Expire, Inv, StoreOK, Record
    <2> QED  BY <1>1, <2>1 DEF Expire, Provider, FirstTokens
  <1>2. ASSUME NEW c \in Creds, Revoke(c) \/ OtherRefreshes(c) PROVE FirstTokens'
    BY <1>2 DEF Revoke, OtherRefreshes, Steady
  <1>3. CASE Restart
    <2>1. \A c \in Creds : mem'[c].token = file[c].token
      BY <1>3 DEF Restart, Restored
    <2>2. \A t \in Tasks : FirstOnly(task'[t])
      BY <1>3 DEF Restart, FirstOnly, Idle
    <2> QED  BY <1>3, <2>1, <2>2 DEF Restart, Provider, FirstTokens
  <1>4. CASE UNCHANGED vars
    BY <1>4 DEF vars, FirstTokens
  <1> QED  BY <1>1, <1>2, <1>3, <1>4, StepFirst DEF Next

(* Only a write changes the file, only the provider what it has revoked. *)
LEMMA OnlyWrites ==
    ASSUME ~Others, ~Revokes, [Next]_vars
    PROVE  UNCHANGED revoked /\ (UNCHANGED file \/ \E t \in Tasks : Write(t))
  <1>1. ASSUME NEW t \in Tasks, NEW c \in Creds, Start(t, c) PROVE UNCHANGED <<revoked, file>>
    BY <1>1 DEF Start, StartRefresh, StartRelogin, SetToken, Switch, Delete, StartAs, Provider
  <1>2. ASSUME NEW t \in Tasks, TaskStep(t)
        PROVE  UNCHANGED revoked /\ (UNCHANGED file \/ Write(t))
    <2>1. CASE Acquire(t) \/ Relogin(t) \/ AnswerFails(t) \/ Refuse(t) \/ Merge(t)
      BY <2>1 DEF Acquire, Relogin, AnswerFails, Refuse, Merge, Provider
    <2>2. CASE Answer(t)
      BY <2>2 DEF Answer
    <2>3. CASE Persist(t) \/ ReadFile(t) \/ Match(t) \/ Adopt(t) \/ Report(t)
      BY <2>3 DEF Persist, ReadFile, Match, Adopt, Report, Provider
    <2>4. CASE Write(t)
      BY <2>4 DEF Write, Provider
    <2> QED  BY <1>2, <2>1, <2>2, <2>3, <2>4 DEF TaskStep
  <1>3. ASSUME NEW c \in Creds, Expire(c) \/ OtherRefreshes(c) \/ Revoke(c)
        PROVE  UNCHANGED <<revoked, file>>
    BY <1>3 DEF Expire, OtherRefreshes, Revoke, Provider
  <1>4. CASE Restart
    BY <1>4 DEF Restart, Provider
  <1>5. CASE UNCHANGED vars
    BY <1>5 DEF vars
  <1> QED  BY <1>1, <1>2, <1>3, <1>4, <1>5 DEF Next

LEMMA NeverRefusedAlways == ASSUME Steady PROVE Spec => []NeverRefused
  <1>1. ASSUME ~Rotates PROVE Spec => []NeverRefused
    <2>1. Inv /\ FirstTokens => NeverRefused
      BY DEF Inv, TasksOK, TaskOK, FirstTokens, FirstOnly, NeverRefused, Accepts, At, Cred, Token
    <2>2. Inv /\ FirstTokens /\ [Next]_vars => FirstTokens'
      BY <1>1, NextFirst
    <2> QED  BY <2>1, <2>2, InitFirst, InvAlways, PTL DEF Spec
  <1>2. ASSUME ~Loses, ~Crashes PROVE Spec => []NeverRefused
    <2>1. Quiet
      BY <1>2 DEF Quiet, Steady
    <2>2. Spec => []RegisterInv
      BY <2>1, RegisterInvAlways
    <2>3. revoked = {} /\ RegisterInv => NeverRefused
      BY <1>2 DEF RegisterInv, LatestOK, Agrees, NeverRefused, Accepts, At
    <2>4. Init => revoked = {}
      BY DEF Init
    <2>5. revoked = {} /\ [Next]_vars => (revoked = {})'
      BY OnlyWrites DEF Steady
    <2> QED  BY <2>2, <2>3, <2>4, <2>5, PTL DEF Spec
  <1> QED  BY <1>1, <1>2 DEF Steady

LEMMA OrderAlways == ASSUME Steady PROVE Spec => []OrderInv
  <1>1. Inv /\ Inv' /\ NeverRefused /\ OrderInv /\ [Next]_vars => OrderInv'
    BY NextOrder
  <1> QED  BY <1>1, InitOrder, InvAlways, NeverRefusedAlways, PTL DEF Spec

(* Concurrent persists never write an older token over a newer one: the      *)
(* snapshot is taken under the persist lock (persist_credentials), so the    *)
(* token in the file only moves forward, whatever the tasks, failing writes, *)
(* and crashes or lost answers that spend no refresh token.                 *)
THEOREM FileNeverRegresses ==
    ASSUME Steady
    PROVE  Spec => FileMovesForward
  <1> DEFINE Moves == \A c \in Creds :
                        /\ file'[c].token.login >= file[c].token.login
                        /\ file'[c].token.login = file[c].token.login
                             => file'[c].token.acc >= file[c].token.acc
  <1>1. ASSUME Inv, OrderInv, [Next]_vars PROVE Moves
    <2>1. \A k \in Token : k.login \in Int /\ k.acc \in Int
      BY SwitchesAssumption DEF Token, Logins
    <2>2. \A c \in Creds : file[c].token \in Token
      BY <1>1 DEF Inv, StoreOK, Saved
    <2>3. CASE UNCHANGED file
      BY <2>1, <2>2, <2>3
    <2>4. ASSUME NEW t \in Tasks, Write(t), file' = task[t].image PROVE Moves
      <3>1. \A c \in Creds : /\ task[t].image[c].token \in Token
                             /\ Before(file[c].token, task[t].image[c].token)
        <4>1. task[t].pc = "write" /\ TaskOK(task[t]) /\ Orderly(task[t])
          BY <1>1, <2>4 DEF Write, At, Inv, TasksOK, OrderInv
        <4> QED  BY <4>1 DEF TaskOK, Saved, Orderly
      <3> QED  BY <2>1, <2>2, <2>4, <3>1 DEF Before
    <2>5. \A t \in Tasks : Write(t) => file' = task[t].image \/ UNCHANGED file
      BY DEF Write
    <2>6. UNCHANGED file \/ \E t \in Tasks : Write(t)
      BY <1>1, OnlyWrites DEF Steady
    <2> QED  BY <2>3, <2>4, <2>5, <2>6
  <1>2. Inv /\ OrderInv /\ [Next]_vars => [Moves]_vars
    BY <1>1
  <1> QED  BY <1>2, InvAlways, OrderAlways, PTL DEF Spec, FileMovesForward

(* A login the Admin API acknowledged is never lost again, not even to a     *)
(* crash when there is a credential file to restart from: it is acknowledged *)
(* after the write that holds it, and no older image is written later.      *)
THEOREM AcknowledgedLoginsSurvive ==
    ASSUME Steady
    PROVE  Spec => []AcknowledgedLoginKept
  <1>1. Inv /\ OrderInv => AcknowledgedLoginKept
    <2> SUFFICES ASSUME Inv, OrderInv, NEW c \in Creds
                 PROVE  mem[c].token.login >= acked[c]
      BY DEF AcknowledgedLoginKept
    <2>1. /\ mem[c].token.login \in Int /\ file[c].token.login \in Int /\ acked[c] \in Int
          /\ file[c].token.login <= mem[c].token.login
      BY SwitchesAssumption
         DEF Inv, StoreOK, Record, Saved, Token, Logins, OrderInv, PlacesOK, Before
    <2> QED  BY <2>1 DEF OrderInv, AckedOK
  <1> QED  BY <1>1, InvAlways, OrderAlways, PTL

=============================================================================
