---------------------- MODULE CredentialRegistryProofs ----------------------
(***************************************************************************)
(* For any accounts, any number of Admin calls and any habits of the       *)
(* provider: no two credentials hold one token, counters follow their      *)
(* account where nothing fails in between, and without deletions an id     *)
(* keeps its account whatever is killed or not written.                    *)
(***************************************************************************)
EXTENDS MCCredentialRegistry, FiniteSetTheorems, TLAPS

Entry == [token : Token, users : SUBSET Logins]

TaskOK(w) ==
    /\ w.pc \in {"validate", "insert"} => w.sent \in Token
    /\ w.pc = "insert" => w.got \in Token /\ w.id \in Ids

StateTypes ==
    /\ running \in BOOLEAN /\ nextId \in Nat \ {0} /\ watermark \in 0..MaxId
    /\ entries \in [DOMAIN entries -> Entry] /\ DOMAIN entries \subseteq Ids
    /\ DOMAIN file \subseteq Ids /\ \A i \in DOMAIN file : file[i] \in Token
    /\ DOMAIN task = Tasks /\ \A t \in Tasks : TaskOK(task[t])
    /\ loose \subseteq Token /\ \A k, k2 \in loose : k = k2
    /\ DOMAIN statsFile \subseteq Ids /\ \A i \in DOMAIN statsFile : statsFile[i] \subseteq Logins
    /\ issued \in [Logins -> 0..MaxGen]

(* Ids are drawn in order, from above all that the file and the watermark   *)
(* have; the id of an addition under way is nobody's yet.                   *)
IdsDrawn ==
    /\ running => /\ \A i \in DOMAIN entries \cup DOMAIN file : i < nextId
                  /\ watermark < nextId
    /\ \A t \in Tasks : task[t].pc = "insert" =>
          /\ watermark < task[t].id /\ task[t].id < nextId
          /\ task[t].id \notin DOMAIN entries
          /\ \A u \in Tasks \ {t} : task[u].pc = "insert" => task[u].id # task[t].id

(* The server and the tool have the file one at a time.                     *)
OneAtATime ==
    /\ ~running => entries = <<>> /\ \A t \in Tasks : task[t] = Idle
    /\ running => loose = {}
    /\ tool # {} => /\ ~running /\ loose = {} /\ tool \subseteq DOMAIN file
                    /\ \A i \in DOMAIN file : i <= watermark

BaseInv == StateTypes /\ IdsDrawn /\ OneAtATime

-----------------------------------------------------------------------------
LEMMA IdleFacts == Idle.pc = "idle" /\ DOMAIN <<>> = {}
BY DEF Idle

LEMMA LargestFacts ==
    ASSUME NEW S, NEW x \in Largest(S)
    PROVE  x \in S \cup {0} /\ \A y \in S : y <= x
BY DEF Largest

LEMMA GivenCount ==
    ASSUME NEW x, NEW S, S = {} \/ S = {x}
    PROVE  Cardinality(S) = IF S = {} THEN 0 ELSE 1
BY FS_EmptySet, FS_Singleton

(* A refresh gives the same token or the next one of its login.             *)
LEMMA RefreshGives ==
    ASSUME RegistryAssumption, StateTypes, NEW k \in Token, NEW k2 \in Token, Refreshes(k, k2)
    PROVE  /\ k2.login = k.login
           /\ issued' \in [Logins -> 0..MaxGen]
           /\ \/ k2 = k /\ issued' = issued
              \/ /\ k2.gen = issued[k.login] + 1 /\ issued'[k.login] = k2.gen
                 /\ \A l \in Logins : l # k.login => issued'[l] = issued[l]
           /\ \A l \in Logins : issued[l] <= issued'[l]
<1>1. issued \in [Logins -> 0..MaxGen] /\ MaxGen \in Nat /\ k.login \in Logins
  BY DEF StateTypes, RegistryAssumption, Token
<1>2. CASE k2 = k /\ issued' = issued BY <1>1, <1>2
<1>3. CASE /\ issued[k.login] < MaxGen /\ k2 = [k EXCEPT !.gen = issued[k.login] + 1]
           /\ issued' = [issued EXCEPT ![k.login] = @ + 1]
  <2>1. k2.login = k.login /\ k2.gen = issued[k.login] + 1 BY <1>3 DEF Token
  <2>2. QED BY <1>1, <1>3, <2>1
<1>4. QED BY <1>2, <1>3 DEF Refreshes

(* What a start finds and gives.                                            *)
Starts(top, given) ==
    /\ \A i \in DOMAIN file \cup {watermark} : i <= top
    /\ given = IF loose = {} THEN {} ELSE {top + 1}
    /\ ~running /\ running' = TRUE /\ loose' = {} /\ tool = {}
    /\ nextId' = IF loose = {} THEN top + 1 ELSE top + 2
    /\ DOMAIN entries' = DOMAIN file \cup given
    /\ entries' \in [DOMAIN entries' -> Entry]
    /\ \A i \in DOMAIN entries' :
          /\ IF i \in given THEN entries'[i].token \in loose ELSE entries'[i].token = file[i]
          /\ entries'[i].users = IF i \in DOMAIN statsFile THEN statsFile[i] ELSE {}
    /\ IF loose = {} THEN file' = file /\ owners' = owners
       ELSE /\ DOMAIN file' = DOMAIN entries'
            /\ \A i \in DOMAIN entries' : file'[i] = entries'[i].token
            /\ owners' = [i \in Ids |-> IF i \in DOMAIN entries'
                                        THEN owners[i] \cup {entries'[i].token.login}
                                        ELSE owners[i]]
    /\ UNCHANGED <<task, statsFile, watermark, tool, issued>>

LEMMA StartupFacts ==
    ASSUME RegistryAssumption, BaseInv, Startup
    PROVE  \E top \in 0..MaxId, given \in SUBSET Ids : Starts(top, given)
<1> DEFINE givenBy(top) == IF loose = {} THEN {} ELSE {top + 1}
           heldBy(top) == [i \in DOMAIN file \cup givenBy(top) |->
                              IF i \in givenBy(top) THEN CHOOSE k \in loose : TRUE ELSE file[i]]
<1>1. PICK top \in Largest(DOMAIN file \cup {watermark}) :
        /\ ~running /\ tool = {}
        /\ top + Cardinality(givenBy(top)) <= MaxId
        /\ running' = TRUE
        /\ nextId' = top + 1 + Cardinality(givenBy(top))
        /\ entries' = [i \in DOMAIN heldBy(top) |->
                         [token |-> heldBy(top)[i],
                          users |-> IF i \in DOMAIN statsFile THEN statsFile[i] ELSE {}]]
        /\ IF loose = {} THEN UNCHANGED <<file, owners>> ELSE WriteFile(heldBy(top))
        /\ loose' = {}
        /\ UNCHANGED <<task, statsFile, watermark, tool, issued>>
  BY DEF Startup
<1> DEFINE given == givenBy(top)
           held == heldBy(top)
<1>2. StateTypes BY DEF BaseInv
<1>3. top \in Nat /\ \A i \in DOMAIN file \cup {watermark} : i <= top
  BY <1>1, <1>2, LargestFacts DEF StateTypes, Ids, RegistryAssumption
<1>4. Cardinality(given) = IF loose = {} THEN 0 ELSE 1
  <2>1. given = {} \/ given = {top + 1} OBVIOUS
  <2>2. Cardinality(given) = IF given = {} THEN 0 ELSE 1 BY <2>1, GivenCount
  <2>3. QED BY <2>2
<1>5. top \in 0..MaxId /\ given \in SUBSET Ids
  BY <1>1, <1>3, <1>4 DEF Ids, RegistryAssumption
<1>6. /\ DOMAIN held = DOMAIN file \cup given
      /\ \A i \in DOMAIN held : IF i \in given THEN held[i] \in loose ELSE held[i] = file[i]
  OBVIOUS
<1> HIDE DEF held
<1>7. \A i \in DOMAIN held : held[i] \in Token
  BY <1>2, <1>6 DEF StateTypes
<1>8. nextId' = IF loose = {} THEN top + 1 ELSE top + 2 BY <1>1, <1>3, <1>4
<1> HIDE DEF given
<1>9. entries' = [i \in DOMAIN held |-> [token |-> held[i],
                                       users |-> IF i \in DOMAIN statsFile THEN statsFile[i] ELSE {}]]
  BY <1>1 DEF held
<1>10. /\ DOMAIN entries' = DOMAIN held
       /\ \A i \in DOMAIN held : /\ entries'[i].token = held[i]
                                /\ entries'[i].users = IF i \in DOMAIN statsFile THEN statsFile[i] ELSE {}
  BY <1>9
<1>11. entries' \in [DOMAIN entries' -> Entry]
  <2>1. \A i \in DOMAIN held : (IF i \in DOMAIN statsFile THEN statsFile[i] ELSE {}) \in SUBSET Logins
    BY <1>2 DEF StateTypes
  <2>2. QED BY <1>7, <1>9, <2>1 DEF Entry
<1>12. IF loose = {} THEN file' = file /\ owners' = owners
       ELSE /\ DOMAIN file' = DOMAIN entries'
            /\ \A i \in DOMAIN entries' : file'[i] = entries'[i].token
            /\ owners' = [i \in Ids |-> IF i \in DOMAIN entries'
                                        THEN owners[i] \cup {entries'[i].token.login}
                                        ELSE owners[i]]
  <2>1. CASE loose = {} BY <1>1, <2>1
  <2>2. CASE loose # {}
    <3>1. /\ file' = held
          /\ owners' = [i \in Ids |-> IF i \in DOMAIN held THEN owners[i] \cup {held[i].login} ELSE owners[i]]
      BY <1>1, <2>2 DEF WriteFile, held
    <3>2. QED BY <1>10, <2>2, <3>1
  <2>3. QED BY <2>1, <2>2
<1>13. given = IF loose = {} THEN {} ELSE {top + 1} BY DEF given
<1>14. Starts(top, given)
  BY <1>1, <1>3, <1>6, <1>8, <1>10, <1>11, <1>12, <1>13 DEF Starts
<1>15. QED BY <1>5, <1>14

(* A task moves alone.                                                      *)
LEMMA TaskMoves ==
    ASSUME DOMAIN task = Tasks, NEW t \in Tasks, NEW w, task' = [task EXCEPT ![t] = w]
    PROVE  /\ DOMAIN task' = Tasks /\ task'[t] = w
           /\ \A u \in Tasks : u # t => task'[u] = task[u]
OBVIOUS

LEMMA EntrySet ==
    ASSUME NEW e, e \in [DOMAIN e -> Entry], NEW i \in DOMAIN e, NEW r \in Entry
    PROVE  /\ DOMAIN [e EXCEPT ![i] = r] = DOMAIN e
           /\ [e EXCEPT ![i] = r] \in [DOMAIN e -> Entry]
           /\ [e EXCEPT ![i] = r][i] = r
           /\ \A j \in DOMAIN e : j # i => [e EXCEPT ![i] = r][j] = e[j]
OBVIOUS

LEMMA BaseInitial ==
    ASSUME RegistryAssumption, Init
    PROVE  BaseInv
<1>1. /\ running = FALSE /\ entries = <<>> /\ DOMAIN entries = {} /\ nextId = 1
      /\ statsFile = <<>> /\ DOMAIN statsFile = {} /\ watermark = 0 /\ tool = {}
      /\ file \in InitialFiles
  BY DEF Init
<1>2. \A t \in Tasks : task[t] = Idle /\ task[t].pc = "idle" BY IdleFacts DEF Init
<1>3. DOMAIN task = Tasks BY DEF Init
<1>4. issued \in [Logins -> 0..MaxGen] BY DEF Init, RegistryAssumption
<1>5. loose \subseteq Token /\ \A k, k2 \in loose : k = k2
  <2>1. \A l \in Logins : [login |-> l, gen |-> 0] \in Token BY DEF Token, RegistryAssumption
  <2>2. QED BY <2>1 DEF Init
<1>6. DOMAIN file \subseteq Ids /\ \A i \in DOMAIN file : file[i] \in Token
  BY <1>1 DEF RegistryAssumption
<1>7. watermark \in 0..MaxId BY <1>1 DEF RegistryAssumption
<1>8. entries \in [DOMAIN entries -> Entry] BY <1>1
<1>9. StateTypes
  <2>1. \A t \in Tasks : TaskOK(task[t]) BY <1>2 DEF TaskOK
  <2>2. running \in BOOLEAN /\ nextId \in Nat \ {0}
    <3>1. running \in BOOLEAN BY <1>1
    <3>2. nextId \in Nat \ {0} BY <1>1
    <3>3. QED BY <3>1, <3>2
  <2>3. QED BY <1>1, <1>3, <1>4, <1>5, <1>6, <1>7, <1>8, <2>1, <2>2 DEF StateTypes
<1>10. QED BY <1>1, <1>2, <1>9 DEF BaseInv, IdsDrawn, OneAtATime

LEMMA StartupBase ==
    ASSUME RegistryAssumption, BaseInv, Startup
    PROVE  BaseInv'
<1>1. PICK top \in 0..MaxId, given \in SUBSET Ids : Starts(top, given) BY StartupFacts
<1>2. \A t \in Tasks : task'[t] = Idle /\ task'[t].pc = "idle"
  BY <1>1, IdleFacts DEF BaseInv, OneAtATime, Starts
<1>3. DOMAIN entries' \subseteq Ids /\ \A i \in DOMAIN entries' : entries'[i].token \in Token /\ i < nextId'
  <2>1. DOMAIN entries' \subseteq Ids BY <1>1 DEF BaseInv, StateTypes, Starts
  <2>2. \A i \in DOMAIN entries' : entries'[i].token \in Token
    BY <1>1 DEF BaseInv, StateTypes, Starts
  <2>3. \A i \in DOMAIN entries' : i < nextId'
    BY <1>1, <2>1 DEF BaseInv, StateTypes, Starts, Ids, RegistryAssumption
  <2>4. QED BY <2>1, <2>2, <2>3
<1>4. DOMAIN file' \subseteq DOMAIN entries' /\ \A i \in DOMAIN file' : file'[i] \in Token
  BY <1>1, <1>3 DEF BaseInv, StateTypes, Starts
<1>5. nextId' \in Nat \ {0} /\ watermark' < nextId'
  <2>1. top \in Nat BY DEF RegistryAssumption
  <2>2. nextId' \in Nat \ {0} /\ top < nextId' BY <1>1, <2>1 DEF Starts
  <2>3. watermark' <= top /\ watermark' \in Nat BY <1>1 DEF BaseInv, StateTypes, Starts, RegistryAssumption
  <2>4. QED BY <2>1, <2>2, <2>3
<1>6. StateTypes'
  BY <1>1, <1>2, <1>3, <1>4, <1>5 DEF BaseInv, StateTypes, Starts, TaskOK
<1>7. IdsDrawn'
  BY <1>2, <1>3, <1>4, <1>5 DEF IdsDrawn
<1>8. OneAtATime' BY <1>1 DEF OneAtATime, Starts
<1>9. QED BY <1>6, <1>7, <1>8 DEF BaseInv

LEMMA StopBase ==
    ASSUME RegistryAssumption, BaseInv, Stop
    PROVE  BaseInv'
<1>1. /\ running /\ running' = FALSE /\ entries' = <<>> /\ DOMAIN entries' = {} /\ nextId' = 1
      /\ task' = [t \in Tasks |-> Idle]
      /\ statsFile' = [i \in DOMAIN entries |-> entries[i].users] \/ statsFile' = statsFile
      /\ file' = file /\ loose' = loose /\ watermark' = watermark /\ tool' = tool /\ issued' = issued
  BY DEF Stop, SaveStats
<1>2. DOMAIN task' = Tasks /\ \A t \in Tasks : task'[t] = Idle /\ task'[t].pc = "idle"
  BY <1>1, IdleFacts
<1>3. DOMAIN statsFile' \subseteq Ids /\ \A i \in DOMAIN statsFile' : statsFile'[i] \subseteq Logins
  BY <1>1 DEF BaseInv, StateTypes, Entry
<1>4. StateTypes'
  <2>1. \A t \in Tasks : TaskOK(task'[t]) BY <1>2 DEF TaskOK
  <2>2. running' \in BOOLEAN /\ nextId' \in Nat \ {0}
    <3>1. running' \in BOOLEAN BY <1>1
    <3>2. nextId' \in Nat \ {0} BY <1>1
    <3>3. QED BY <3>1, <3>2
  <2>3. entries' \in [DOMAIN entries' -> Entry] BY <1>1
  <2>4. QED BY <1>1, <1>2, <1>3, <2>1, <2>2, <2>3 DEF BaseInv, StateTypes
<1>5. QED BY <1>1, <1>2, <1>4 DEF BaseInv, IdsDrawn, OneAtATime

LEMMA ServeBase ==
    ASSUME RegistryAssumption, BaseInv, NEW i \in Ids, Serve(i)
    PROVE  /\ BaseInv'
           /\ running /\ running' = TRUE /\ i \in DOMAIN entries /\ DOMAIN entries' = DOMAIN entries
           /\ \A j \in DOMAIN entries : entries'[j].token = entries[j].token
           /\ entries'[i].users = entries[i].users \cup {entries[i].token.login}
           /\ \A j \in DOMAIN entries : j # i => entries'[j] = entries[j]
           /\ \/ statsFile' = [j \in DOMAIN entries' |-> entries'[j].users]
              \/ statsFile' = statsFile
           /\ UNCHANGED <<nextId, task, file, loose, watermark, tool, issued, owners>>
<1> DEFINE r == [entries[i] EXCEPT !.users = @ \cup {entries[i].token.login}]
<1>1. /\ running /\ i \in DOMAIN entries /\ entries' = [entries EXCEPT ![i] = r]
      /\ statsFile' = [j \in DOMAIN entries' |-> entries'[j].users] \/ statsFile' = statsFile
      /\ UNCHANGED <<running, nextId, task, file, loose, watermark, tool, issued, owners>>
  BY DEF Serve, SaveStats
<1>2. entries \in [DOMAIN entries -> Entry] /\ entries[i] \in Entry BY <1>1 DEF BaseInv, StateTypes
<1>3. /\ r \in Entry /\ r.token = entries[i].token
      /\ r.users = entries[i].users \cup {entries[i].token.login}
  BY <1>2 DEF Entry, Token
<1> HIDE DEF r
<1>4. /\ DOMAIN entries' = DOMAIN entries /\ entries' \in [DOMAIN entries -> Entry]
      /\ entries'[i] = r /\ \A j \in DOMAIN entries : j # i => entries'[j] = entries[j]
  BY <1>1, <1>2, <1>3, EntrySet
<1>5. \A j \in DOMAIN entries : entries'[j].token = entries[j].token BY <1>3, <1>4
<1>6. DOMAIN statsFile' \subseteq Ids /\ \A j \in DOMAIN statsFile' : statsFile'[j] \subseteq Logins
  BY <1>1, <1>4 DEF BaseInv, StateTypes, Entry
<1>7. StateTypes' BY <1>1, <1>4, <1>6 DEF BaseInv, StateTypes
<1>8. IdsDrawn' BY <1>1, <1>4 DEF BaseInv, IdsDrawn
<1>9. OneAtATime' BY <1>1 DEF BaseInv, OneAtATime
<1>10. QED BY <1>1, <1>3, <1>4, <1>5, <1>7, <1>8, <1>9 DEF BaseInv, StateTypes

LEMMA RefreshBase ==
    ASSUME RegistryAssumption, BaseInv, NEW i \in Ids, Refresh(i)
    PROVE  /\ BaseInv'
           /\ running /\ running' = TRUE /\ i \in DOMAIN entries /\ DOMAIN entries' = DOMAIN entries
           /\ \E k \in Token : Refreshes(entries[i].token, k) /\ entries'[i].token = k
           /\ \A j \in DOMAIN entries : entries'[j].users = entries[j].users
           /\ \A j \in DOMAIN entries : j # i => entries'[j] = entries[j]
           /\ WriteFile(InMemory(entries'))
           /\ UNCHANGED <<nextId, task, loose, statsFile, watermark, tool>>
<1>1. PICK k \in Token :
         /\ Refreshes(entries[i].token, k)
         /\ entries' = [entries EXCEPT ![i].token = k]
  BY DEF Refresh
<1> DEFINE r == [entries[i] EXCEPT !.token = k]
<1>2. /\ running /\ i \in DOMAIN entries /\ entries' = [entries EXCEPT ![i] = r]
      /\ WriteFile(InMemory(entries'))
      /\ UNCHANGED <<running, nextId, task, loose, statsFile, watermark, tool>>
  BY <1>1 DEF Refresh
<1>3. entries \in [DOMAIN entries -> Entry] /\ entries[i] \in Entry BY <1>2 DEF BaseInv, StateTypes
<1>4. r \in Entry /\ r.token = k /\ r.users = entries[i].users BY <1>3 DEF Entry
<1> HIDE DEF r
<1>5. /\ DOMAIN entries' = DOMAIN entries /\ entries' \in [DOMAIN entries -> Entry]
      /\ entries'[i] = r /\ \A j \in DOMAIN entries : j # i => entries'[j] = entries[j]
  BY <1>2, <1>3, <1>4, EntrySet
<1>6. file' = [j \in DOMAIN entries |-> entries'[j].token] BY <1>2, <1>5 DEF WriteFile, InMemory
<1>7. issued' \in [Logins -> 0..MaxGen]
  BY <1>1, <1>3, RefreshGives DEF BaseInv, Entry
<1>8. DOMAIN file' \subseteq DOMAIN entries /\ \A j \in DOMAIN file' : file'[j] \in Token
  BY <1>5, <1>6 DEF Entry
<1>9. StateTypes' BY <1>2, <1>5, <1>7, <1>8 DEF BaseInv, StateTypes
<1>10. IdsDrawn' BY <1>2, <1>5, <1>8 DEF BaseInv, IdsDrawn
<1>11. OneAtATime' BY <1>2 DEF BaseInv, OneAtATime
<1>12. \A j \in DOMAIN entries : entries'[j].users = entries[j].users BY <1>4, <1>5
<1>13. QED BY <1>1, <1>2, <1>4, <1>5, <1>9, <1>10, <1>11, <1>12 DEF BaseInv

(* A call moves on and nothing else does.                                   *)
Moves(t, w) == /\ DOMAIN task' = Tasks /\ task'[t] = w
               /\ \A u \in Tasks : u # t => task'[u] = task[u]

LEMMA CallRuns ==
    ASSUME BaseInv, NEW t \in Tasks, task[t].pc # "idle"
    PROVE  running /\ loose = {} /\ tool = {}
BY IdleFacts DEF BaseInv, OneAtATime

LEMMA CallMoves ==
    ASSUME RegistryAssumption, BaseInv, NEW t \in Tasks, NEW w, Moves(t, w), TaskOK(w),
           running, w.pc # "insert",
           UNCHANGED <<running, entries, nextId, file, loose, watermark, tool, issued>>,
           DOMAIN statsFile' \subseteq Ids /\ \A i \in DOMAIN statsFile' : statsFile'[i] \subseteq Logins
    PROVE  BaseInv'
<1>1. StateTypes' BY DEF BaseInv, StateTypes, Moves
<1>2. IdsDrawn' BY DEF BaseInv, IdsDrawn, Moves
<1>3. OneAtATime' BY DEF BaseInv, OneAtATime
<1>4. QED BY <1>1, <1>2, <1>3 DEF BaseInv

LEMMA AddStartBase ==
    ASSUME RegistryAssumption, BaseInv, NEW t \in Tasks, AddStart(t)
    PROVE  /\ BaseInv' /\ running /\ running' = TRUE /\ task[t] = Idle
           /\ \E k \in Token : /\ Known(k) /\ \A i \in DOMAIN entries : entries[i].token # k
                               /\ Moves(t, [pc |-> "validate", sent |-> k])
           /\ UNCHANGED <<entries, nextId, disk, tool, issued, owners>>
<1>1. PICK k \in Token :
         /\ Known(k) /\ \A i \in DOMAIN entries : entries[i].token # k
         /\ task' = [task EXCEPT ![t] = [pc |-> "validate", sent |-> k]]
  BY DEF AddStart
<1> DEFINE w == [pc |-> "validate", sent |-> k]
<1>2. w.pc = "validate" /\ w.sent = k /\ TaskOK(w) BY DEF TaskOK
<1> HIDE DEF w
<1>3. Moves(t, w) BY <1>1, TaskMoves DEF BaseInv, StateTypes, Moves, w
<1>4. /\ running /\ running' = TRUE /\ task[t] = Idle
      /\ UNCHANGED <<running, entries, nextId, disk, tool, issued, owners>>
  BY DEF AddStart
<1>5. BaseInv'
  BY <1>2, <1>3, <1>4, CallMoves DEF disk, BaseInv, StateTypes
<1>6. QED BY <1>1, <1>3, <1>4, <1>5 DEF w

LEMMA AddValidateBase ==
    ASSUME RegistryAssumption, BaseInv, NEW t \in Tasks, AddValidate(t)
    PROVE  /\ BaseInv' /\ running /\ running' = TRUE /\ task[t].pc = "validate" /\ task[t].sent \in Token
           /\ \E w : /\ w.got \in Token /\ Refreshes(task[t].sent, w.got) /\ Moves(t, w)
                     /\ w.pc = "insert" /\ w.sent = task[t].sent /\ w.id = nextId
           /\ nextId' = nextId + 1
           /\ UNCHANGED <<entries, disk, tool, owners>>
<1>1. PICK k \in Token :
         /\ Refreshes(task[t].sent, k)
         /\ task' = [task EXCEPT ![t] = [pc |-> "insert", sent |-> task[t].sent, got |-> k, id |-> nextId]]
  BY DEF AddValidate
<1> DEFINE w == [pc |-> "insert", sent |-> task[t].sent, got |-> k, id |-> nextId]
<1>2. /\ task[t].pc = "validate" /\ nextId <= MaxId /\ nextId' = nextId + 1
      /\ UNCHANGED <<running, entries, disk, tool, owners>>
  BY DEF AddValidate
<1>3. running /\ loose = {} /\ tool = {} /\ task[t].sent \in Token
  BY <1>2, CallRuns DEF BaseInv, StateTypes, TaskOK
<1>4. w.pc = "insert" /\ w.sent = task[t].sent /\ w.got = k /\ w.id = nextId OBVIOUS
<1>5. nextId \in Ids /\ nextId' \in Nat \ {0} /\ nextId < nextId'
  BY <1>2 DEF BaseInv, StateTypes, Ids, RegistryAssumption
<1>6. TaskOK(w) BY <1>3, <1>4, <1>5 DEF TaskOK
<1> HIDE DEF w
<1>7. Moves(t, w) BY <1>1, TaskMoves DEF BaseInv, StateTypes, Moves, w
<1>8. issued' \in [Logins -> 0..MaxGen]
  BY <1>1, <1>3, RefreshGives DEF BaseInv
<1>9. StateTypes' BY <1>2, <1>5, <1>6, <1>7, <1>8 DEF BaseInv, StateTypes, disk, Moves
<1>10. IdsDrawn'
  <2>1. \A i \in DOMAIN entries \cup DOMAIN file \cup {watermark} : i < nextId /\ i < nextId'
    BY <1>2, <1>3, <1>5 DEF BaseInv, IdsDrawn, StateTypes, Ids, RegistryAssumption
  <2>2. \A u \in Tasks \ {t} : task[u].pc = "insert" => task[u].id < nextId /\ task[u].id < nextId' /\ task[u].id # nextId
    BY <1>5 DEF BaseInv, IdsDrawn, StateTypes, TaskOK, Ids
  <2>3. nextId \notin DOMAIN entries BY <1>5, <2>1 DEF Ids
  <2>4. QED BY <1>2, <1>3, <1>4, <1>5, <1>7, <2>1, <2>2, <2>3 DEF BaseInv, IdsDrawn, disk, Moves
<1>11. OneAtATime' BY <1>2, <1>3 DEF BaseInv, OneAtATime, disk
<1>12. BaseInv' BY <1>9, <1>10, <1>11 DEF BaseInv
<1>13. QED BY <1>1, <1>2, <1>3, <1>4, <1>7, <1>12

LEMMA AddRefusedBase ==
    ASSUME RegistryAssumption, BaseInv, NEW t \in Tasks, AddRefused(t)
    PROVE  /\ BaseInv' /\ running /\ running' = TRUE /\ Moves(t, Idle) /\ task[t].pc = "validate"
           /\ UNCHANGED <<entries, nextId, disk, tool, issued, owners>>
<1>1. /\ task[t].pc = "validate" /\ task' = [task EXCEPT ![t] = Idle]
      /\ UNCHANGED <<running, entries, nextId, disk, tool, issued, owners>>
  BY DEF AddRefused, Ends
<1>2. Moves(t, Idle) BY <1>1, TaskMoves DEF BaseInv, StateTypes, Moves
<1>3. running /\ TaskOK(Idle) BY <1>1, CallRuns, IdleFacts DEF TaskOK
<1>4. BaseInv' BY <1>1, <1>2, <1>3, CallMoves, IdleFacts DEF BaseInv, StateTypes, disk
<1>5. QED BY <1>1, <1>2, <1>3, <1>4 DEF BaseInv, StateTypes

LEMMA AddInsertBase ==
    ASSUME RegistryAssumption, BaseInv, NEW t \in Tasks, AddInsert(t)
    PROVE  /\ BaseInv' /\ running /\ running' = TRUE
           /\ task[t].pc = "insert" /\ task[t].id \in Ids /\ task[t].got \in Token
           /\ \E w : /\ Moves(t, w)
                     /\ \/ w.pc = "idle" /\ UNCHANGED entries
                        \/ /\ w.pc = "persist" /\ w.op = "add"
                           /\ \A i \in DOMAIN entries : entries[i].token # task[t].sent
                           /\ DOMAIN entries' = DOMAIN entries \cup {task[t].id}
                           /\ entries'[task[t].id].token = task[t].got
                           /\ entries'[task[t].id].users = {}
                           /\ \A i \in DOMAIN entries : entries'[i] = entries[i]
           /\ UNCHANGED <<nextId, disk, tool, issued, owners>>
<1> DEFINE n == task[t].id
           r == [token |-> task[t].got, users |-> {}]
           w == [pc |-> "persist", op |-> "add", sent |-> task[t].sent]
<1>1. /\ task[t].pc = "insert"
      /\ UNCHANGED <<running, nextId, disk, tool, issued, owners>>
      /\ IF \E i \in DOMAIN entries : entries[i].token = task[t].sent
         THEN task' = [task EXCEPT ![t] = Idle] /\ UNCHANGED entries
         ELSE /\ entries' = [i \in DOMAIN entries \cup {n} |-> IF i = n THEN r ELSE entries[i]]
              /\ task' = [task EXCEPT ![t] = w]
  BY DEF AddInsert, Ends
<1>2. /\ running /\ n \in Ids /\ task[t].got \in Token
      /\ n \notin DOMAIN entries /\ n < nextId /\ running' = TRUE
  BY <1>1, CallRuns DEF BaseInv, StateTypes, IdsDrawn, TaskOK
<1>3. CASE \E i \in DOMAIN entries : entries[i].token = task[t].sent
  <2>1. Moves(t, Idle) BY <1>1, <1>3, TaskMoves DEF BaseInv, StateTypes, Moves
  <2>2. TaskOK(Idle) BY IdleFacts DEF TaskOK
  <2>3. BaseInv' BY <1>1, <1>2, <1>3, <2>1, <2>2, CallMoves, IdleFacts DEF BaseInv, StateTypes, disk
  <2>4. Idle.pc = "idle" /\ UNCHANGED entries BY <1>1, <1>3, IdleFacts
  <2>5. QED BY <1>1, <1>2, <2>1, <2>3, <2>4
<1>4. CASE \A i \in DOMAIN entries : entries[i].token # task[t].sent
  <2>1. entries' = [i \in DOMAIN entries \cup {n} |-> IF i = n THEN r ELSE entries[i]]
    BY <1>1, <1>4
  <2>2. Moves(t, w) BY <1>1, <1>4, TaskMoves DEF BaseInv, StateTypes, Moves
  <2>3. w.pc = "persist" /\ w.op = "add" /\ TaskOK(w) BY DEF TaskOK
  <2>4. r \in Entry /\ r.token = task[t].got /\ r.users = {} BY <1>2 DEF Entry
  <2> HIDE DEF w, r
  <2>5. /\ DOMAIN entries' = DOMAIN entries \cup {n} /\ entries'[n] = r
        /\ \A i \in DOMAIN entries : entries'[i] = entries[i]
    BY <1>2, <2>1
  <2>6. entries' \in [DOMAIN entries' -> Entry] /\ DOMAIN entries' \subseteq Ids
    BY <1>2, <2>1, <2>4 DEF BaseInv, StateTypes
  <2>7. StateTypes' BY <1>1, <2>2, <2>3, <2>6 DEF BaseInv, StateTypes, disk, Moves
  <2>8. IdsDrawn' BY <1>1, <1>2, <2>2, <2>3, <2>5 DEF BaseInv, IdsDrawn, disk, Moves
  <2>9. OneAtATime' BY <1>1, <1>2 DEF BaseInv, OneAtATime, disk
  <2>10. BaseInv' BY <2>7, <2>8, <2>9 DEF BaseInv
  <2>11. QED BY <1>1, <1>2, <1>4, <2>2, <2>3, <2>4, <2>5, <2>10
<1>5. QED BY <1>3, <1>4

LEMMA ReplaceBase ==
    ASSUME RegistryAssumption, BaseInv, NEW t \in Tasks, NEW i \in Ids, NEW k \in Token, Replace(t, i, k)
    PROVE  /\ BaseInv' /\ running /\ running' = TRUE /\ task[t] = Idle /\ i \in DOMAIN entries
           /\ k.login = entries[i].token.login /\ Known(k)
           /\ \A j \in DOMAIN entries \ {i} : entries[j].token # k
           /\ \E w : Moves(t, w) /\ w.pc = "persist" /\ w.op = "replace"
           /\ DOMAIN entries' = DOMAIN entries /\ entries'[i].token = k
           /\ \A j \in DOMAIN entries : entries'[j].users = entries[j].users
           /\ \A j \in DOMAIN entries : j # i => entries'[j] = entries[j]
           /\ UNCHANGED <<nextId, disk, tool, issued, owners>>
<1> DEFINE r == [entries[i] EXCEPT !.token = k]
           w == [pc |-> "persist", op |-> "replace"]
<1>1. /\ running /\ task[t] = Idle /\ i \in DOMAIN entries
      /\ k.login = entries[i].token.login /\ Known(k)
      /\ \A j \in DOMAIN entries \ {i} : entries[j].token # k
      /\ entries' = [entries EXCEPT ![i] = r]
      /\ task' = [task EXCEPT ![t] = w]
      /\ UNCHANGED <<running, nextId, disk, tool, issued, owners>>
  BY DEF Replace
<1>2. entries \in [DOMAIN entries -> Entry] /\ entries[i] \in Entry BY <1>1 DEF BaseInv, StateTypes
<1>3. r \in Entry /\ r.token = k /\ r.users = entries[i].users BY <1>2 DEF Entry
<1>4. w.pc = "persist" /\ w.op = "replace" /\ TaskOK(w) BY DEF TaskOK
<1>5. Moves(t, w) BY <1>1, TaskMoves DEF BaseInv, StateTypes, Moves
<1> HIDE DEF r, w
<1>6. /\ DOMAIN entries' = DOMAIN entries /\ entries' \in [DOMAIN entries -> Entry]
      /\ entries'[i] = r /\ \A j \in DOMAIN entries : j # i => entries'[j] = entries[j]
  BY <1>1, <1>2, <1>3, EntrySet
<1>7. \A j \in DOMAIN entries : entries'[j].users = entries[j].users BY <1>3, <1>6
<1>8. StateTypes' BY <1>1, <1>4, <1>5, <1>6 DEF BaseInv, StateTypes, disk, Moves
<1>9. IdsDrawn' BY <1>1, <1>4, <1>5, <1>6 DEF BaseInv, IdsDrawn, disk, Moves
<1>10. OneAtATime' BY <1>1 DEF BaseInv, OneAtATime, disk
<1>11. QED BY <1>1, <1>3, <1>4, <1>5, <1>6, <1>7, <1>8, <1>9, <1>10 DEF BaseInv

LEMMA DeleteBase ==
    ASSUME RegistryAssumption, BaseInv, NEW t \in Tasks, NEW i \in Ids, Delete(t, i)
    PROVE  /\ BaseInv' /\ Deletes /\ running /\ running' = TRUE /\ task[t] = Idle /\ i \in DOMAIN entries
           /\ \E w : Moves(t, w) /\ w.pc = "persist" /\ w.op = "delete"
           /\ DOMAIN entries' = DOMAIN entries \ {i}
           /\ \A j \in DOMAIN entries' : entries'[j] = entries[j]
           /\ UNCHANGED <<nextId, disk, tool, issued, owners>>
<1> DEFINE w == [pc |-> "persist", op |-> "delete"]
<1>1. /\ Deletes /\ running /\ task[t] = Idle /\ i \in DOMAIN entries
      /\ entries' = [j \in DOMAIN entries \ {i} |-> entries[j]]
      /\ task' = [task EXCEPT ![t] = w]
      /\ UNCHANGED <<running, nextId, disk, tool, issued, owners>>
  BY DEF Delete, Restrict
<1>2. w.pc = "persist" /\ w.op = "delete" /\ TaskOK(w) BY DEF TaskOK
<1>3. Moves(t, w) BY <1>1, TaskMoves DEF BaseInv, StateTypes, Moves
<1> HIDE DEF w
<1>4. /\ DOMAIN entries' = DOMAIN entries \ {i} /\ \A j \in DOMAIN entries' : entries'[j] = entries[j]
  BY <1>1
<1>5. entries' \in [DOMAIN entries' -> Entry] BY <1>1 DEF BaseInv, StateTypes
<1>6. StateTypes' BY <1>1, <1>2, <1>3, <1>4, <1>5 DEF BaseInv, StateTypes, disk, Moves
<1>7. IdsDrawn' BY <1>1, <1>2, <1>3, <1>4 DEF BaseInv, IdsDrawn, disk, Moves
<1>8. OneAtATime' BY <1>1 DEF BaseInv, OneAtATime, disk
<1>9. QED BY <1>1, <1>2, <1>3, <1>4, <1>6, <1>7, <1>8 DEF BaseInv

LEMMA PersistBase ==
    ASSUME RegistryAssumption, BaseInv, NEW t \in Tasks, Persist(t)
    PROVE  /\ BaseInv' /\ running /\ running' = TRUE /\ task[t].pc = "persist"
           /\ \E w : /\ Moves(t, w)
                     /\ \/ /\ WriteFile(InMemory(entries))
                           /\ w.pc = IF task[t].op = "delete" THEN "stats" ELSE "idle"
                        \/ WriteFails /\ w.pc = "idle" /\ UNCHANGED <<file, owners>>
           /\ UNCHANGED <<entries, nextId, loose, statsFile, watermark, tool, issued>>
<1>1. /\ task[t].pc = "persist"
      /\ UNCHANGED <<running, entries, nextId, loose, statsFile, watermark, tool, issued>>
  BY DEF Persist
<1>2. running /\ running' = TRUE /\ tool = {} BY <1>1, CallRuns DEF BaseInv, StateTypes
<1>3. PICK w : /\ task' = [task EXCEPT ![t] = w] /\ w.pc \in {"stats", "idle"}
               /\ \/ /\ WriteFile(InMemory(entries))
                     /\ w.pc = IF task[t].op = "delete" THEN "stats" ELSE "idle"
                  \/ WriteFails /\ w.pc = "idle" /\ UNCHANGED <<file, owners>>
  <2> DEFINE s == [pc |-> "stats"]
  <2>1. s.pc = "stats" OBVIOUS
  <2>2. task' = [task EXCEPT ![t] = s] \/ task' = [task EXCEPT ![t] = Idle]
    BY DEF Persist, Ends
  <2> HIDE DEF s
  <2>3. CASE WriteFile(InMemory(entries)) /\ task[t].op = "delete" /\ task' = [task EXCEPT ![t] = s]
    BY <2>1, <2>3
  <2>4. CASE WriteFile(InMemory(entries)) /\ task[t].op # "delete" /\ task' = [task EXCEPT ![t] = Idle]
    BY IdleFacts, <2>4
  <2>5. CASE WriteFails /\ task' = [task EXCEPT ![t] = Idle] /\ UNCHANGED <<file, owners>>
    BY IdleFacts, <2>5
  <2>6. QED BY <2>3, <2>4, <2>5 DEF Persist, Ends, s
<1>4. Moves(t, w) /\ TaskOK(w) BY <1>3, TaskMoves DEF BaseInv, StateTypes, Moves, TaskOK
<1>5. DOMAIN file' \subseteq DOMAIN entries \cup DOMAIN file /\ \A i \in DOMAIN file' : file'[i] \in Token
  <2>1. CASE WriteFile(InMemory(entries))
    <3>1. file' = [i \in DOMAIN entries |-> entries[i].token] BY <2>1 DEF WriteFile, InMemory
    <3>2. QED BY <3>1 DEF BaseInv, StateTypes, Entry
  <2>2. CASE UNCHANGED <<file, owners>> BY <2>2 DEF BaseInv, StateTypes
  <2>3. QED BY <1>3, <2>1, <2>2
<1>6. StateTypes' BY <1>1, <1>4, <1>5 DEF BaseInv, StateTypes, Moves
<1>7. IdsDrawn' BY <1>1, <1>2, <1>3, <1>4, <1>5 DEF BaseInv, IdsDrawn, Moves
<1>8. OneAtATime' BY <1>1, <1>2 DEF BaseInv, OneAtATime
<1>9. QED BY <1>1, <1>2, <1>3, <1>4, <1>6, <1>7, <1>8 DEF BaseInv

LEMMA DropStatsBase ==
    ASSUME RegistryAssumption, BaseInv, NEW t \in Tasks, DropStats(t)
    PROVE  /\ BaseInv' /\ running /\ running' = TRUE /\ task[t].pc = "stats" /\ Moves(t, Idle)
           /\ statsFile' = [i \in DOMAIN entries |-> entries[i].users]
           /\ UNCHANGED <<entries, nextId, file, loose, watermark, tool, issued, owners>>
<1>1. /\ task[t].pc = "stats" /\ task' = [task EXCEPT ![t] = Idle]
      /\ statsFile' = [i \in DOMAIN entries |-> entries[i].users]
      /\ UNCHANGED <<running, entries, nextId, file, loose, watermark, tool, issued, owners>>
  BY DEF DropStats, Ends, SaveStats
<1>2. running /\ Moves(t, Idle) /\ TaskOK(Idle)
  BY <1>1, CallRuns, TaskMoves, IdleFacts DEF BaseInv, StateTypes, Moves, TaskOK
<1>3. DOMAIN statsFile' \subseteq Ids /\ \A i \in DOMAIN statsFile' : statsFile'[i] \subseteq Logins
  BY <1>1 DEF BaseInv, StateTypes, Entry
<1>4. BaseInv' BY <1>1, <1>2, <1>3, CallMoves, IdleFacts
<1>5. QED BY <1>1, <1>2, <1>4 DEF BaseInv, StateTypes

(* The deduplication tool.                                                  *)
LEMMA DedupMarkBase ==
    ASSUME RegistryAssumption, BaseInv, DedupMark
    PROVE  /\ BaseInv' /\ running' = FALSE /\ ~running /\ watermark <= watermark'
           /\ UNCHANGED <<memory, file, loose, statsFile, issued, owners>>
<1>1. /\ ~running /\ tool = {} /\ loose = {} /\ tool' \subseteq DOMAIN file
      /\ watermark' \in Largest(DOMAIN file \cup {watermark})
      /\ UNCHANGED <<memory, file, loose, statsFile, issued, owners>>
  BY DEF DedupMark
<1>2. /\ watermark' \in 0..MaxId /\ watermark <= watermark'
      /\ \A i \in DOMAIN file : i <= watermark'
  <2>1. /\ watermark' \in DOMAIN file \cup {watermark} \cup {0}
        /\ \A i \in DOMAIN file \cup {watermark} : i <= watermark'
    BY <1>1, LargestFacts
  <2>2. QED BY <2>1 DEF BaseInv, StateTypes, Ids, RegistryAssumption
<1>3. \A t \in Tasks : task[t].pc = "idle" BY <1>1, IdleFacts DEF BaseInv, OneAtATime
<1>4. StateTypes' BY <1>1, <1>2 DEF BaseInv, StateTypes, memory
<1>5. IdsDrawn' BY <1>1, <1>3 DEF BaseInv, IdsDrawn, memory
<1>6. OneAtATime' BY <1>1, <1>2 DEF BaseInv, OneAtATime, memory
<1>7. running' = FALSE BY <1>1 DEF memory, BaseInv, StateTypes
<1>8. QED BY <1>1, <1>2, <1>4, <1>5, <1>6, <1>7 DEF BaseInv

LEMMA DedupReplaceBase ==
    ASSUME RegistryAssumption, BaseInv, DedupReplace
    PROVE  /\ BaseInv' /\ running' = FALSE /\ ~running /\ tool # {} /\ tool \subseteq DOMAIN file
           /\ \A i \in DOMAIN file : i <= watermark
           /\ \/ UNCHANGED <<file, owners>>
              \/ /\ file' = [i \in tool |-> file[i]]
                 /\ owners' = [i \in Ids |-> IF i \in tool THEN owners[i] \cup {file[i].login} ELSE owners[i]]
           /\ UNCHANGED <<memory, loose, statsFile, watermark, issued>>
<1>1. /\ tool # {} /\ tool' = {} /\ UNCHANGED <<memory, loose, statsFile, watermark, issued>>
      /\ WriteFile(Restrict(file, tool)) \/ UNCHANGED <<file, owners>>
  BY DEF DedupReplace
<1>2. ~running /\ loose = {} /\ tool \subseteq DOMAIN file /\ \A i \in DOMAIN file : i <= watermark
  BY <1>1 DEF BaseInv, OneAtATime
<1>3. \/ UNCHANGED <<file, owners>>
      \/ /\ file' = [i \in tool |-> file[i]]
         /\ owners' = [i \in Ids |-> IF i \in tool THEN owners[i] \cup {file[i].login} ELSE owners[i]]
  BY <1>1 DEF WriteFile, Restrict
<1>4. DOMAIN file' \subseteq DOMAIN file /\ \A i \in DOMAIN file' : file'[i] \in Token
  BY <1>2, <1>3 DEF BaseInv, StateTypes
<1>5. \A t \in Tasks : task[t].pc = "idle" BY <1>2, IdleFacts DEF BaseInv, OneAtATime
<1>6. StateTypes' BY <1>1, <1>4 DEF BaseInv, StateTypes, memory
<1>7. IdsDrawn' BY <1>1, <1>2, <1>5 DEF BaseInv, IdsDrawn, memory
<1>8. OneAtATime' BY <1>1 DEF BaseInv, OneAtATime, memory
<1>9. running' = FALSE BY <1>1, <1>2 DEF memory, BaseInv, StateTypes
<1>10. QED BY <1>1, <1>2, <1>3, <1>6, <1>7, <1>8, <1>9 DEF BaseInv

LEMMA BaseStep ==
    ASSUME RegistryAssumption, BaseInv, [Next]_vars
    PROVE  BaseInv'
<1>1. CASE UNCHANGED vars
  BY <1>1 DEF vars, memory, disk, BaseInv, StateTypes, IdsDrawn, OneAtATime
<1>2. CASE Next
  <2>1. ASSUME NEW i \in Ids, Serve(i) PROVE BaseInv' BY <2>1, ServeBase
  <2>2. ASSUME NEW i \in Ids, Refresh(i) PROVE BaseInv' BY <2>2, RefreshBase
  <2>3. ASSUME NEW t \in Tasks, AddStart(t) PROVE BaseInv' BY <2>3, AddStartBase
  <2>4. ASSUME NEW t \in Tasks, AddValidate(t) PROVE BaseInv' BY <2>4, AddValidateBase
  <2>5. ASSUME NEW t \in Tasks, AddRefused(t) PROVE BaseInv' BY <2>5, AddRefusedBase
  <2>6. ASSUME NEW t \in Tasks, AddInsert(t) PROVE BaseInv' BY <2>6, AddInsertBase
  <2>7. ASSUME NEW t \in Tasks, Persist(t) PROVE BaseInv' BY <2>7, PersistBase
  <2>8. ASSUME NEW t \in Tasks, DropStats(t) PROVE BaseInv' BY <2>8, DropStatsBase
  <2>9. ASSUME NEW t \in Tasks, NEW i \in Ids, Delete(t, i) PROVE BaseInv' BY <2>9, DeleteBase
  <2>10. ASSUME NEW t \in Tasks, NEW i \in Ids, NEW k \in Token, Replace(t, i, k) PROVE BaseInv'
    BY <2>10, ReplaceBase
  <2>11. CASE Startup BY <2>11, StartupBase
  <2>12. CASE Stop BY <2>12, StopBase
  <2>13. CASE DedupMark BY <2>13, DedupMarkBase
  <2>14. CASE DedupReplace BY <2>14, DedupReplaceBase
  <2>15. QED
    BY <1>2, <2>1, <2>2, <2>3, <2>4, <2>5, <2>6, <2>7, <2>8, <2>9, <2>10, <2>11, <2>12, <2>13, <2>14
    DEF Next
<1>3. QED BY <1>1, <1>2

(* Types, and where ids come from: every entry of the file and every        *)
(* credential has an id below the counter, in every state of every start.   *)
THEOREM RegistryTypes == Spec => [](BaseInv /\ TypeOK)
<1>1. Init => BaseInv BY BaseInitial, RegistryAssumption
<1>2. BaseInv /\ [Next]_vars => BaseInv' BY BaseStep, RegistryAssumption
<1>3. BaseInv => TypeOK
  <2> SUFFICES ASSUME BaseInv PROVE TypeOK OBVIOUS
  <2>1. running => \A i \in DOMAIN entries \cup DOMAIN file : i < nextId BY DEF BaseInv, IdsDrawn
  <2>2. \A i \in DOMAIN entries : entries[i].token \in Token /\ entries[i].users \subseteq Logins
    BY DEF BaseInv, StateTypes, Entry
  <2>3. QED BY <2>1, <2>2 DEF TypeOK, BaseInv, StateTypes, OneAtATime
<1>4. QED BY <1>1, <1>2, <1>3, PTL DEF Spec

-----------------------------------------------------------------------------
(* Ids and accounts, where nothing is deleted.  What was once in the file   *)
(* is in it still or behind the watermark, and what is in the file is in    *)
(* memory: an id drawn afresh was never in the file.                        *)
OwnInv ==
    /\ owners \in [Ids -> SUBSET Logins]
    /\ HistoryNotInherited
    /\ \A i \in DOMAIN file : owners[i] \subseteq {file[i].login}
    /\ running => DOMAIN file \subseteq DOMAIN entries
    /\ \A i \in Ids : owners[i] # {} => i \in DOMAIN file \/ i <= watermark
    /\ \A i \in Ids : \A l, l2 \in owners[i] : l = l2

LEMMA OwnInitial ==
    ASSUME RegistryAssumption, Init
    PROVE  OwnInv
<1>1. /\ owners = [i \in Ids |-> IF i \in DOMAIN file THEN {file[i].login} ELSE {}]
      /\ entries = <<>> /\ DOMAIN entries = {} /\ ~running
  BY DEF Init
<1>2. DOMAIN file \subseteq Ids /\ \A i \in DOMAIN file : file[i].login \in Logins
  BY DEF Init, RegistryAssumption, Token
<1>3. QED BY <1>1, <1>2 DEF OwnInv, HistoryNotInherited

(* Memory is written to the file, with the same accounts under the ids.     *)
LEMMA WriteKeepsOwn ==
    ASSUME RegistryAssumption, BaseInv, BaseInv', OwnInv, running, running' = TRUE,
           DOMAIN entries' = DOMAIN entries,
           \A i \in DOMAIN entries : entries'[i].token.login = entries[i].token.login,
           WriteFile(InMemory(entries')), watermark' = watermark
    PROVE  OwnInv'
<1>1. /\ DOMAIN file' = DOMAIN entries
      /\ \A i \in DOMAIN entries : file'[i] = entries'[i].token
      /\ owners' = [i \in Ids |-> IF i \in DOMAIN entries
                                  THEN owners[i] \cup {entries'[i].token.login} ELSE owners[i]]
  BY DEF WriteFile, InMemory
<1>2. DOMAIN entries \subseteq Ids /\ \A i \in DOMAIN entries : entries[i].token.login \in Logins
  BY DEF BaseInv, StateTypes, Entry, Token
<1>3. \A i \in Ids : owners'[i] = IF i \in DOMAIN entries
                                 THEN owners[i] \cup {entries[i].token.login} ELSE owners[i]
  BY <1>1
<1>4. \A i \in DOMAIN entries : owners'[i] = {entries[i].token.login}
  BY <1>2, <1>3 DEF OwnInv, HistoryNotInherited
<1>5. owners' \in [Ids -> SUBSET Logins] BY <1>1, <1>2 DEF OwnInv
<1>6. HistoryNotInherited' BY <1>4 DEF HistoryNotInherited
<1>7. \A i \in DOMAIN file' : owners'[i] \subseteq {file'[i].login} BY <1>1, <1>4
<1>8. \A i \in Ids : owners'[i] # {} => i \in DOMAIN file' \/ i <= watermark'
  BY <1>1, <1>3 DEF OwnInv
<1>9. \A i \in Ids : \A l, l2 \in owners'[i] : l = l2
  BY <1>3, <1>4 DEF OwnInv
<1>10. QED BY <1>1, <1>5, <1>6, <1>7, <1>8, <1>9 DEF OwnInv

LEMMA StartupOwn ==
    ASSUME RegistryAssumption, BaseInv, OwnInv, Startup
    PROVE  OwnInv'
<1>1. PICK top \in 0..MaxId, given \in SUBSET Ids : Starts(top, given) BY StartupFacts
<1>2. /\ DOMAIN entries' = DOMAIN file \cup given /\ DOMAIN entries' \subseteq Ids
      /\ watermark' = watermark /\ running' = TRUE
      /\ \A i \in DOMAIN file \ given : entries'[i].token = file[i]
      /\ \A i \in DOMAIN entries' : entries'[i].token \in Token
  BY <1>1 DEF Starts, BaseInv, StateTypes
<1>3. \A i \in given : i \notin DOMAIN file /\ owners[i] = {}
  <2>1. \A i \in given : i = top + 1 BY <1>1 DEF Starts
  <2>2. \A i \in DOMAIN file \cup {watermark} : i <= top BY <1>1 DEF Starts
  <2>3. top \in Nat BY DEF RegistryAssumption
  <2>4. \A i \in given : i \notin DOMAIN file /\ ~(i <= watermark)
    BY <2>1, <2>2, <2>3 DEF BaseInv, StateTypes
  <2>5. QED BY <2>4 DEF OwnInv
<1>4. \A i \in DOMAIN entries' : owners[i] \subseteq {entries'[i].token.login}
  BY <1>2, <1>3 DEF OwnInv
<1>5. CASE loose = {}
  <2>1. file' = file /\ owners' = owners BY <1>1, <1>5 DEF Starts
  <2>2. HistoryNotInherited' BY <1>4, <2>1 DEF HistoryNotInherited
  <2>3. QED BY <1>2, <2>1, <2>2 DEF OwnInv
<1>6. CASE loose # {}
  <2>1. /\ DOMAIN file' = DOMAIN entries'
        /\ \A i \in DOMAIN entries' : file'[i] = entries'[i].token
        /\ owners' = [i \in Ids |-> IF i \in DOMAIN entries'
                                    THEN owners[i] \cup {entries'[i].token.login} ELSE owners[i]]
    BY <1>1, <1>6 DEF Starts
  <2>2. \A i \in DOMAIN entries' : owners'[i] = {entries'[i].token.login} /\ entries'[i].token.login \in Logins
    BY <1>2, <1>4, <2>1 DEF Token
  <2>3. owners' \in [Ids -> SUBSET Logins] BY <2>1, <2>2 DEF OwnInv
  <2>4. HistoryNotInherited' BY <2>2 DEF HistoryNotInherited
  <2>5. \A i \in Ids : i \notin DOMAIN entries' => owners'[i] = owners[i] BY <2>1
  <2>6. \A i \in Ids : owners'[i] # {} => i \in DOMAIN file' \/ i <= watermark'
    BY <1>2, <2>1, <2>5 DEF OwnInv
  <2>7. \A i \in Ids : \A l, l2 \in owners'[i] : l = l2 BY <2>2, <2>5 DEF OwnInv
  <2>8. /\ \A i \in DOMAIN file' : owners'[i] \subseteq {file'[i].login}
        /\ DOMAIN file' \subseteq DOMAIN entries'
    BY <2>1, <2>2
  <2>9. QED BY <2>3, <2>4, <2>6, <2>7, <2>8 DEF OwnInv
<1>7. QED BY <1>5, <1>6

LEMMA OwnStep ==
    ASSUME RegistryAssumption, ~Deletes, BaseInv, BaseInv', OwnInv, [Next]_vars
    PROVE  OwnInv'
<1>1. CASE UNCHANGED vars
  BY <1>1 DEF vars, memory, disk, OwnInv, HistoryNotInherited
<1>2. CASE Startup BY <1>2, StartupOwn
<1>3. CASE Stop
  <2>1. /\ running' = FALSE /\ DOMAIN entries' = {}
        /\ UNCHANGED <<file, watermark, owners>>
    BY <1>3 DEF Stop
  <2>2. QED BY <2>1 DEF OwnInv, HistoryNotInherited
<1>4. ASSUME NEW i \in Ids, Serve(i) PROVE OwnInv'
  <2>1. /\ running /\ DOMAIN entries' = DOMAIN entries
        /\ \A j \in DOMAIN entries : entries'[j].token = entries[j].token
        /\ UNCHANGED <<file, watermark, owners>>
    BY <1>4, ServeBase
  <2>2. QED BY <2>1 DEF OwnInv, HistoryNotInherited
<1>5. ASSUME NEW i \in Ids, Refresh(i) PROVE OwnInv'
  <2>1. /\ running /\ running' = TRUE /\ i \in DOMAIN entries /\ DOMAIN entries' = DOMAIN entries
        /\ \A j \in DOMAIN entries : j # i => entries'[j] = entries[j]
        /\ WriteFile(InMemory(entries')) /\ watermark' = watermark
    BY <1>5, RefreshBase
  <2>2. PICK k \in Token : Refreshes(entries[i].token, k) /\ entries'[i].token = k
    BY <1>5, RefreshBase
  <2>3. entries[i].token \in Token BY <2>1 DEF BaseInv, StateTypes, Entry
  <2>4. entries'[i].token.login = entries[i].token.login BY <2>2, <2>3, RefreshGives DEF BaseInv
  <2>5. \A j \in DOMAIN entries : entries'[j].token.login = entries[j].token.login BY <2>1, <2>4
  <2>6. QED BY <2>1, <2>5, WriteKeepsOwn
<1>6. ASSUME NEW t \in Tasks, AddStart(t) \/ AddValidate(t) \/ AddRefused(t) \/ DropStats(t)
      PROVE  OwnInv'
  <2>1. running /\ UNCHANGED <<entries, file, watermark, owners>>
    <3>1. CASE AddStart(t) BY <3>1, AddStartBase DEF disk
    <3>2. CASE AddValidate(t) BY <3>2, AddValidateBase DEF disk
    <3>3. CASE AddRefused(t) BY <3>3, AddRefusedBase DEF disk
    <3>4. CASE DropStats(t) BY <3>4, DropStatsBase
    <3>5. QED BY <1>6, <3>1, <3>2, <3>3, <3>4
  <2>2. QED BY <2>1 DEF OwnInv, HistoryNotInherited
<1>7. ASSUME NEW t \in Tasks, AddInsert(t) PROVE OwnInv'
  <2> DEFINE n == task[t].id
  <2>1. /\ running /\ task[t].pc = "insert" /\ n \in Ids /\ UNCHANGED <<file, watermark, owners>>
        /\ \/ UNCHANGED entries
           \/ /\ DOMAIN entries' = DOMAIN entries \cup {n}
              /\ \A i \in DOMAIN entries : entries'[i] = entries[i]
    BY <1>7, AddInsertBase DEF disk
  <2>2. watermark < n /\ n \notin DOMAIN entries BY <2>1 DEF BaseInv, IdsDrawn
  <2>3. owners[n] = {}
    <3>1. n \notin DOMAIN file BY <2>1, <2>2 DEF OwnInv
    <3>2. ~(n <= watermark) BY <2>1, <2>2 DEF BaseInv, StateTypes, Ids, RegistryAssumption
    <3>3. QED BY <2>1, <3>1, <3>2 DEF OwnInv
  <2>4. HistoryNotInherited' BY <2>1, <2>3 DEF OwnInv, HistoryNotInherited
  <2>5. QED BY <2>1, <2>4 DEF OwnInv
<1>8. ASSUME NEW t \in Tasks, NEW i \in Ids, NEW tok \in Token, Replace(t, i, tok) PROVE OwnInv'
  <2>1. /\ running /\ i \in DOMAIN entries /\ tok.login = entries[i].token.login
        /\ DOMAIN entries' = DOMAIN entries /\ entries'[i].token = tok
        /\ \A j \in DOMAIN entries : j # i => entries'[j] = entries[j]
        /\ UNCHANGED <<disk, owners>>
    <3>1. running /\ i \in DOMAIN entries BY <1>8, ReplaceBase
    <3>2. tok.login = entries[i].token.login BY <1>8 DEF Replace
    <3>3. DOMAIN entries' = DOMAIN entries /\ entries'[i].token = tok
      <4>1. entries' = [entries EXCEPT ![i] = [entries[i] EXCEPT !.token = tok]] BY <1>8 DEF Replace
      <4>2. entries[i] \in Entry BY <3>1 DEF BaseInv, StateTypes
      <4>3. [entries[i] EXCEPT !.token = tok].token = tok BY <4>2 DEF Entry
      <4>4. QED BY <3>1, <4>1, <4>3
    <3>4. \A j \in DOMAIN entries : j # i => entries'[j] = entries[j] BY <1>8, ReplaceBase
    <3>5. UNCHANGED <<disk, owners>> BY <1>8, ReplaceBase
    <3>6. QED BY <3>1, <3>2, <3>3, <3>4, <3>5
  <2>2. \A j \in DOMAIN entries : entries'[j].token.login = entries[j].token.login BY <2>1
  <2>3. QED BY <2>1, <2>2 DEF OwnInv, HistoryNotInherited, disk
<1>9. ASSUME NEW t \in Tasks, NEW i \in Ids, Delete(t, i) PROVE FALSE
  BY <1>9 DEF Delete
<1>10. ASSUME NEW t \in Tasks, Persist(t) PROVE OwnInv'
  <2>1. /\ running /\ running' = TRUE /\ entries' = entries /\ watermark' = watermark
        /\ WriteFile(InMemory(entries)) \/ UNCHANGED <<file, owners>>
    BY <1>10, PersistBase
  <2>2. CASE WriteFile(InMemory(entries)) BY <2>1, <2>2, WriteKeepsOwn
  <2>3. CASE UNCHANGED <<file, owners>> BY <2>1, <2>3 DEF OwnInv, HistoryNotInherited
  <2>4. QED BY <2>1, <2>2, <2>3
<1>11. CASE DedupMark
  <2>1. /\ ~running /\ UNCHANGED <<running, entries, file, owners>> /\ watermark <= watermark'
    BY <1>11, DedupMarkBase DEF memory
  <2>2. watermark \in Nat /\ watermark' \in Nat BY DEF BaseInv, StateTypes, RegistryAssumption
  <2>3. \A i \in Ids : i <= watermark => i <= watermark' BY <2>1, <2>2 DEF Ids
  <2>4. QED BY <2>1, <2>3 DEF OwnInv, HistoryNotInherited
<1>12. CASE DedupReplace
  <2>1. /\ ~running /\ UNCHANGED <<running, entries, watermark>> /\ tool \subseteq DOMAIN file
        /\ DOMAIN file \subseteq Ids /\ \A i \in DOMAIN file : i <= watermark /\ file[i].login \in Logins
        /\ DOMAIN entries' = {}
    BY <1>12, DedupReplaceBase, IdleFacts DEF memory, BaseInv, StateTypes, OneAtATime, Token
  <2>2. CASE UNCHANGED <<file, owners>>
    BY <2>1, <2>2 DEF OwnInv, HistoryNotInherited
  <2>3. CASE /\ file' = [i \in tool |-> file[i]]
             /\ owners' = [i \in Ids |-> IF i \in tool THEN owners[i] \cup {file[i].login} ELSE owners[i]]
    <3>1. DOMAIN file' = tool /\ \A i \in tool : file'[i] = file[i] BY <2>3
    <3>2. \A i \in tool : owners'[i] = {file[i].login} BY <2>1, <2>3 DEF OwnInv
    <3>3. \A i \in Ids : i \notin tool => owners'[i] = owners[i] BY <2>3
    <3>4. owners' \in [Ids -> SUBSET Logins] BY <2>1, <2>3 DEF OwnInv
    <3>5. \A i \in Ids : owners'[i] # {} => i \in DOMAIN file' \/ i <= watermark'
      BY <2>1, <3>1, <3>3 DEF OwnInv
    <3>6. \A i \in Ids : \A l, l2 \in owners'[i] : l = l2 BY <3>2, <3>3 DEF OwnInv
    <3>7. HistoryNotInherited' BY <2>1 DEF HistoryNotInherited
    <3>8. QED BY <2>1, <3>1, <3>2, <3>4, <3>5, <3>6, <3>7 DEF OwnInv
  <2>4. QED BY <1>12, <2>2, <2>3, DedupReplaceBase
<1>13. QED
  BY <1>1, <1>2, <1>3, <1>4, <1>5, <1>6, <1>7, <1>8, <1>9, <1>10, <1>11, <1>12 DEF Next

(* Where the Admin API deletes nothing an id is never given to another      *)
(* account and a credential inherits nobody's history, for any number of    *)
(* accounts and calls, whatever is killed and whichever write of the file   *)
(* fails: the server's start, its counter and the tool's watermark suffice. *)
THEOREM IdsStayWithAccounts ==
    ~Deletes => (Spec => [](IdsNotReused /\ HistoryNotInherited))
<1> SUFFICES ASSUME ~Deletes PROVE Spec => [](IdsNotReused /\ HistoryNotInherited)
  OBVIOUS
<1>1. Init => OwnInv BY OwnInitial, RegistryAssumption
<1>2. BaseInv /\ BaseInv' /\ OwnInv /\ [Next]_vars => OwnInv' BY OwnStep, RegistryAssumption
<1>3. BaseInv /\ OwnInv => IdsNotReused /\ HistoryNotInherited
  <2> SUFFICES ASSUME OwnInv, NEW i \in Ids PROVE Cardinality(owners[i]) <= 1
    BY DEF IdsNotReused, OwnInv
  <2>1. CASE owners[i] = {} BY <2>1, FS_EmptySet
  <2>2. CASE owners[i] # {}
    <3>1. PICK l \in owners[i] : TRUE BY <2>2
    <3>2. owners[i] = {l} BY <3>1 DEF OwnInv
    <3>3. Cardinality({l}) = 1 BY FS_Singleton
    <3>4. QED BY <3>2, <3>3
  <2>3. QED BY <2>1, <2>2
<1>4. QED BY <1>1, <1>2, <1>3, RegistryTypes, PTL DEF Spec

-----------------------------------------------------------------------------
(* No token twice.  A token the provider has just given an addition is not  *)
(* known outside it, and every token anybody holds was issued: so a refresh *)
(* gives what nobody has, and the one comparison left is the submitted      *)
(* token's, made under the lock.                                            *)
IssuedToken(k) == k.gen <= issued[k.login]

FileTokens ==
    /\ \A i, j \in DOMAIN file : file[i] = file[j] => i = j
    /\ \A k \in loose, i \in DOMAIN file : file[i] # k

TokensIssued ==
    /\ \A i \in DOMAIN entries : IssuedToken(entries[i].token)
    /\ \A i \in DOMAIN file : IssuedToken(file[i])
    /\ \A k \in loose : IssuedToken(k)
    /\ \A t \in Tasks : /\ task[t].pc \in {"validate", "insert"} => IssuedToken(task[t].sent)
                        /\ task[t].pc = "insert" => IssuedToken(task[t].got)

\* The token k is the addition's alone.
Alone(t, k) ==
    /\ \A i \in DOMAIN entries : entries[i].token # k
    /\ \A u \in Tasks \ {t} : /\ task[u].pc = "validate" => task[u].sent # k
                              /\ task[u].pc = "insert" => task[u].got # k

GivenAlone ==
    \A t \in Tasks : task[t].pc = "insert" /\ task[t].got # task[t].sent => Alone(t, task[t].got)

TokInv == NoTokenTwice /\ FileTokens /\ TokensIssued /\ GivenAlone

(* The files of the first start: no token in them twice, none rotated yet.  *)
FilesDistinct ==
    \A f \in InitialFiles : /\ \A i, j \in DOMAIN f : f[i] = f[j] => i = j
                            /\ \A i \in DOMAIN f : f[i].gen = 0

LEMMA TokInitial ==
    ASSUME RegistryAssumption, FilesDistinct, Init
    PROVE  TokInv
<1>1. /\ DOMAIN entries = {} /\ file \in InitialFiles /\ issued = [l \in Logins |-> 0]
      /\ \A k \in loose, i \in DOMAIN file : file[i].login # k.login
  BY DEF Init
<1>2. \A t \in Tasks : task[t].pc = "idle" BY IdleFacts DEF Init
<1>3. DOMAIN file \subseteq Ids /\ \A i \in DOMAIN file : file[i] \in Token /\ file[i].gen = 0
  BY <1>1 DEF RegistryAssumption, FilesDistinct
<1>4. \A k \in loose : k.login \in Logins /\ k.gen = 0 BY DEF Init
<1>5. FileTokens BY <1>1 DEF FileTokens, FilesDistinct
<1>6. TokensIssued BY <1>1, <1>2, <1>3, <1>4 DEF TokensIssued, IssuedToken, Token
<1>7. QED BY <1>1, <1>2, <1>5, <1>6 DEF TokInv, NoTokenTwice, GivenAlone

(* Nothing new comes to be held; a file written is what memory holds.       *)
LEMMA TokKept ==
    ASSUME TokInv, issued' = issued, loose' = loose,
           \A t \in Tasks : task'[t] = task[t] \/ task'[t].pc \notin {"validate", "insert"},
           DOMAIN entries' \subseteq DOMAIN entries,
           \A i \in DOMAIN entries' : entries'[i].token = entries[i].token,
           \/ DOMAIN file' \subseteq DOMAIN file /\ \A i \in DOMAIN file' : file'[i] = file[i]
           \/ /\ loose = {} /\ DOMAIN file' = DOMAIN entries'
              /\ \A i \in DOMAIN file' : file'[i] = entries'[i].token
    PROVE  TokInv'
<1>1. NoTokenTwice' BY DEF TokInv, NoTokenTwice
<1>2. FileTokens' BY DEF TokInv, NoTokenTwice, FileTokens
<1>3. TokensIssued' BY DEF TokInv, TokensIssued, IssuedToken
<1>4. GivenAlone' BY DEF TokInv, GivenAlone, Alone
<1>5. QED BY <1>1, <1>2, <1>3, <1>4 DEF TokInv

LEMMA TokStartup ==
    ASSUME RegistryAssumption, BaseInv, TokInv, Startup
    PROVE  TokInv'
<1>1. PICK top \in 0..MaxId, given \in SUBSET Ids : Starts(top, given) BY StartupFacts
<1>2. \A t \in Tasks : task'[t].pc = "idle"
  BY <1>1, IdleFacts DEF BaseInv, OneAtATime, Starts
<1>3. /\ DOMAIN entries' = DOMAIN file \cup given /\ loose' = {} /\ issued' = issued
      /\ \A i \in DOMAIN entries' : IF i \in given THEN entries'[i].token \in loose
                                    ELSE entries'[i].token = file[i]
      /\ \A i, j \in given : i = j
      /\ \A i \in DOMAIN file' : i \in DOMAIN entries' /\ file'[i] = entries'[i].token
  <2>1. /\ DOMAIN entries' = DOMAIN file \cup given /\ loose' = {} /\ issued' = issued
        /\ \A i \in DOMAIN entries' : IF i \in given THEN entries'[i].token \in loose
                                      ELSE entries'[i].token = file[i]
    BY <1>1 DEF Starts
  <2>2. given = {} \/ given = {top + 1} BY <1>1 DEF Starts
  <2>3. \A i, j \in given : i = j BY <2>2
  <2>4. \A i \in DOMAIN file' : i \in DOMAIN entries' /\ file'[i] = entries'[i].token
    <3>1. CASE loose = {}
      <4>1. file' = file /\ given = {} BY <1>1, <3>1 DEF Starts
      <4>2. QED BY <2>1, <4>1
    <3>2. CASE loose # {} BY <1>1, <3>2 DEF Starts
    <3>3. QED BY <3>1, <3>2
  <2>5. QED BY <2>1, <2>3, <2>4
<1>4. \A k, k2 \in loose : k = k2 BY DEF BaseInv, StateTypes
<1>5. NoTokenTwice'
  <2> SUFFICES ASSUME NEW i \in DOMAIN entries', NEW j \in DOMAIN entries',
                      entries'[i].token = entries'[j].token
               PROVE  i = j
    BY DEF NoTokenTwice
  <2>1. CASE i \in given /\ j \in given BY <1>3, <2>1
  <2>2. CASE i \in given /\ j \notin given BY <1>3, <2>2 DEF TokInv, FileTokens
  <2>3. CASE i \notin given /\ j \in given BY <1>3, <2>3 DEF TokInv, FileTokens
  <2>4. CASE i \notin given /\ j \notin given BY <1>3, <2>4 DEF TokInv, FileTokens
  <2>5. QED BY <2>1, <2>2, <2>3, <2>4
<1>6. FileTokens' BY <1>3, <1>5 DEF FileTokens, NoTokenTwice
<1>7. TokensIssued'
  <2>1. \A i \in DOMAIN entries' : entries'[i].token.gen <= issued[entries'[i].token.login]
    BY <1>3 DEF TokInv, TokensIssued, IssuedToken
  <2>2. QED BY <1>2, <1>3, <2>1 DEF TokensIssued, IssuedToken
<1>8. GivenAlone' BY <1>2 DEF GivenAlone
<1>9. QED BY <1>5, <1>6, <1>7, <1>8 DEF TokInv

(* What a refresh gives is the token it was given or one nobody holds.      *)
LEMMA RefreshFresh ==
    ASSUME RegistryAssumption, StateTypes, NEW k \in Token, NEW k2 \in Token, Refreshes(k, k2),
           IssuedToken(k)
    PROVE  /\ IssuedToken(k2)'
           /\ \A j \in Token : IssuedToken(j) => IssuedToken(j)'
           /\ k2 = k \/ \A j \in Token : IssuedToken(j) => j # k2
<1>1. issued \in [Logins -> 0..MaxGen] /\ MaxGen \in Nat BY DEF StateTypes, RegistryAssumption
<1>2. \A j \in Token : j.login \in Logins /\ j.gen \in Nat /\ issued[j.login] \in Nat /\ issued'[j.login] \in Nat
  BY <1>1, RefreshGives DEF Token, RegistryAssumption
<1>3. \A j \in Token : IssuedToken(j) => IssuedToken(j)'
  <2> SUFFICES ASSUME NEW j \in Token, IssuedToken(j) PROVE j.gen <= issued'[j.login]
    BY DEF IssuedToken
  <2>1. issued[j.login] <= issued'[j.login] BY <1>2, RefreshGives
  <2>2. QED BY <1>2, <2>1 DEF IssuedToken
<1>4. CASE k2 = k BY <1>3, <1>4
<1>5. CASE k2 # k
  <2>1. k2.gen = issued[k.login] + 1 /\ issued'[k.login] = k2.gen /\ k2.login = k.login
    BY <1>5, RefreshGives
  <2>2. IssuedToken(k2)' BY <1>2, <2>1 DEF IssuedToken
  <2>3. \A j \in Token : IssuedToken(j) => j # k2 BY <1>2, <2>1 DEF IssuedToken
  <2>4. QED BY <1>3, <2>2, <2>3
<1>6. QED BY <1>4, <1>5

(* All that is held stays issued over a refresh.                            *)
LEMMA StillIssued ==
    ASSUME BaseInv, TokInv, \A j \in Token : IssuedToken(j) => IssuedToken(j)'
    PROVE  /\ \A i \in DOMAIN entries : IssuedToken(entries[i].token) /\ entries[i].token.gen <= issued'[entries[i].token.login]
           /\ \A i \in DOMAIN file : file[i].gen <= issued'[file[i].login]
           /\ \A j \in loose : j.gen <= issued'[j.login]
           /\ \A t \in Tasks :
                /\ task[t].pc \in {"validate", "insert"} =>
                      task[t].sent \in Token /\ IssuedToken(task[t].sent) /\ task[t].sent.gen <= issued'[task[t].sent.login]
                /\ task[t].pc = "insert" =>
                      task[t].got \in Token /\ IssuedToken(task[t].got) /\ task[t].got.gen <= issued'[task[t].got.login]
<1>1. \A i \in DOMAIN entries : entries[i].token \in Token BY DEF BaseInv, StateTypes, Entry
<1>2. \A t \in Tasks : /\ task[t].pc \in {"validate", "insert"} => task[t].sent \in Token
                       /\ task[t].pc = "insert" => task[t].got \in Token
  BY DEF BaseInv, StateTypes, TaskOK
<1>3. (\A i \in DOMAIN file : file[i] \in Token) /\ loose \subseteq Token BY DEF BaseInv, StateTypes
<1>4. QED BY <1>1, <1>2, <1>3 DEF TokInv, TokensIssued, IssuedToken

LEMMA TokRefresh ==
    ASSUME RegistryAssumption, BaseInv, TokInv, NEW i \in Ids, Refresh(i)
    PROVE  TokInv'
<1>1. /\ running /\ i \in DOMAIN entries /\ DOMAIN entries' = DOMAIN entries
      /\ \A j \in DOMAIN entries : j # i => entries'[j] = entries[j]
      /\ WriteFile(InMemory(entries'))
      /\ UNCHANGED <<task, loose>>
  BY RefreshBase
<1>2. PICK k \in Token : Refreshes(entries[i].token, k) /\ entries'[i].token = k BY RefreshBase
<1>3. \A j \in DOMAIN entries : entries[j].token \in Token BY DEF BaseInv, StateTypes, Entry
<1>4. IssuedToken(entries[i].token) BY <1>1 DEF TokInv, TokensIssued
<1>5. /\ k.gen <= issued'[k.login]
      /\ \A j \in Token : IssuedToken(j) => IssuedToken(j)'
      /\ k = entries[i].token \/ \A j \in Token : IssuedToken(j) => j # k
  BY <1>1, <1>2, <1>3, <1>4, RefreshFresh DEF BaseInv, IssuedToken
<1>6. /\ \A j \in DOMAIN entries : IssuedToken(entries[j].token) /\ entries[j].token.gen <= issued'[entries[j].token.login]
      /\ \A t \in Tasks :
            /\ task[t].pc \in {"validate", "insert"} =>
                  task[t].sent.gen <= issued'[task[t].sent.login]
            /\ task[t].pc = "insert" =>
                  task[t].got \in Token /\ IssuedToken(task[t].got) /\ task[t].got.gen <= issued'[task[t].got.login]
  BY <1>5, StillIssued
<1>7. DOMAIN file' = DOMAIN entries' /\ \A j \in DOMAIN file' : file'[j] = entries'[j].token
  BY DEF WriteFile, InMemory, Refresh
<1>8. loose = {} BY <1>1 DEF BaseInv, OneAtATime
<1>9. \A j \in DOMAIN entries : j # i => entries[j].token # k
  <2>1. CASE k = entries[i].token BY <1>1, <2>1 DEF TokInv, NoTokenTwice
  <2>2. CASE \A j \in Token : IssuedToken(j) => j # k BY <1>3, <1>6, <2>2
  <2>3. QED BY <1>5, <2>1, <2>2
<1>10. NoTokenTwice' BY <1>1, <1>2, <1>9 DEF TokInv, NoTokenTwice
<1>11. FileTokens' BY <1>1, <1>7, <1>8, <1>10 DEF FileTokens, NoTokenTwice
<1>12. TokensIssued' BY <1>1, <1>2, <1>5, <1>6, <1>7, <1>8 DEF TokensIssued, IssuedToken
<1>13. \A t \in Tasks : task[t].pc = "insert" /\ task[t].got # task[t].sent => task[t].got # k
  <2>1. CASE k = entries[i].token BY <1>1, <2>1 DEF TokInv, GivenAlone, Alone
  <2>2. CASE \A j \in Token : IssuedToken(j) => j # k BY <1>6, <2>2
  <2>3. QED BY <1>5, <2>1, <2>2
<1>14. GivenAlone' BY <1>1, <1>2, <1>13 DEF TokInv, GivenAlone, Alone
<1>15. QED BY <1>10, <1>11, <1>12, <1>14 DEF TokInv

LEMMA TokAddStart ==
    ASSUME RegistryAssumption, BaseInv, TokInv, NEW t \in Tasks, AddStart(t)
    PROVE  TokInv'
<1>1. PICK k \in Token : /\ Known(k) /\ \A i \in DOMAIN entries : entries[i].token # k
                         /\ Moves(t, [pc |-> "validate", sent |-> k])
  BY AddStartBase
<1>2. UNCHANGED <<entries, file, loose, issued>> BY AddStartBase DEF disk
<1>3. /\ task'[t].pc = "validate" /\ task'[t].sent = k
      /\ \A u \in Tasks : u # t => task'[u] = task[u]
  BY <1>1 DEF Moves
<1>4. IssuedToken(k) /\ \A u \in Tasks : task[u].pc = "insert" => task[u].got # k \/ task[u].sent = k
  BY <1>1 DEF Known, IssuedToken
<1>5. TokensIssued' BY <1>2, <1>3, <1>4 DEF TokInv, TokensIssued, IssuedToken
<1>6. GivenAlone' BY <1>2, <1>3, <1>4 DEF TokInv, GivenAlone, Alone
<1>7. QED BY <1>2, <1>5, <1>6 DEF TokInv, NoTokenTwice, FileTokens

LEMMA TokAddValidate ==
    ASSUME RegistryAssumption, BaseInv, TokInv, NEW t \in Tasks, AddValidate(t)
    PROVE  TokInv'
<1> DEFINE s == task[t].sent
<1>1. task[t].pc = "validate" /\ s \in Token /\ UNCHANGED <<entries, file, loose>>
  BY AddValidateBase DEF disk
<1>2. PICK w : /\ w.got \in Token /\ Refreshes(s, w.got) /\ Moves(t, w)
               /\ w.pc = "insert" /\ w.sent = s
  BY AddValidateBase
<1> DEFINE k == w.got
<1>3. /\ task'[t].pc = "insert" /\ task'[t].sent = s /\ task'[t].got = k
      /\ \A u \in Tasks : u # t => task'[u] = task[u]
  BY <1>2 DEF Moves
<1>4. IssuedToken(s) BY <1>1 DEF TokInv, TokensIssued
<1>5. /\ k.gen <= issued'[k.login]
      /\ \A j \in Token : IssuedToken(j) => IssuedToken(j)'
      /\ k = s \/ \A j \in Token : IssuedToken(j) => j # k
  BY <1>1, <1>2, <1>4, RefreshFresh DEF BaseInv, IssuedToken
<1>6. /\ \A i \in DOMAIN entries : IssuedToken(entries[i].token) /\ entries[i].token.gen <= issued'[entries[i].token.login]
      /\ \A i \in DOMAIN file : file[i].gen <= issued'[file[i].login]
      /\ \A j \in loose : j.gen <= issued'[j.login]
      /\ \A u \in Tasks :
            /\ task[u].pc \in {"validate", "insert"} =>
                  task[u].sent \in Token /\ IssuedToken(task[u].sent) /\ task[u].sent.gen <= issued'[task[u].sent.login]
            /\ task[u].pc = "insert" =>
                  task[u].got \in Token /\ IssuedToken(task[u].got) /\ task[u].got.gen <= issued'[task[u].got.login]
  BY <1>5, StillIssued
<1>7. \A i \in DOMAIN entries : entries[i].token \in Token BY DEF BaseInv, StateTypes, Entry
<1>8. TokensIssued'
  <2>1. s.gen <= issued'[s.login] BY <1>1, <1>6
  <2>2. QED BY <1>1, <1>3, <1>5, <1>6, <2>1 DEF TokensIssued, IssuedToken
<1>9. GivenAlone'
  <2> SUFFICES ASSUME NEW u \in Tasks, task'[u].pc = "insert", task'[u].got # task'[u].sent
               PROVE  Alone(u, task[u].got)'
    BY DEF GivenAlone
  <2>1. CASE u = t
    <3>1. k # s BY <1>3, <2>1
    <3>2. \A j \in Token : IssuedToken(j) => j # k BY <1>5, <3>1
    <3>3. \A i \in DOMAIN entries : entries[i].token # k BY <1>6, <1>7, <3>2
    <3>4. \A v \in Tasks \ {t} : /\ task'[v].pc = "validate" => task'[v].sent # k
                                 /\ task'[v].pc = "insert" => task'[v].got # k
      BY <1>3, <1>6, <3>2
    <3>5. QED BY <1>1, <1>3, <2>1, <3>3, <3>4 DEF Alone
  <2>2. CASE u # t
    <3>1. task[u] = task'[u] /\ Alone(u, task[u].got) /\ task[u].got \in Token /\ IssuedToken(task[u].got)
      BY <1>3, <1>6, <2>2 DEF TokInv, GivenAlone
    <3>2. task[u].got # s BY <1>1, <2>2, <3>1 DEF Alone
    <3>3. task[u].got # k BY <1>5, <3>1, <3>2
    <3>4. QED BY <1>1, <1>3, <3>1, <3>3 DEF Alone
  <2>3. QED BY <2>1, <2>2
<1>10. QED BY <1>1, <1>8, <1>9 DEF TokInv, NoTokenTwice, FileTokens

LEMMA TokAddInsert ==
    ASSUME RegistryAssumption, BaseInv, TokInv, NEW t \in Tasks, AddInsert(t)
    PROVE  TokInv'
<1> DEFINE n == task[t].id
           k == task[t].got
<1>1. task[t].pc = "insert" /\ UNCHANGED <<file, loose, issued>> BY AddInsertBase DEF disk
<1>2. PICK w : /\ Moves(t, w)
               /\ \/ w.pc = "idle" /\ UNCHANGED entries
                  \/ /\ w.pc = "persist"
                     /\ \A i \in DOMAIN entries : entries[i].token # task[t].sent
                     /\ DOMAIN entries' = DOMAIN entries \cup {n}
                     /\ entries'[n].token = k
                     /\ \A i \in DOMAIN entries : entries'[i] = entries[i]
  BY AddInsertBase
<1>3. /\ task'[t].pc \in {"idle", "persist"} /\ \A u \in Tasks : u # t => task'[u] = task[u]
  BY <1>2 DEF Moves
<1>4. CASE w.pc = "idle" /\ UNCHANGED entries
  <2>1. \A u \in Tasks : task'[u] = task[u] \/ task'[u].pc \notin {"validate", "insert"} BY <1>3
  <2>2. QED BY <1>1, <1>4, <2>1, TokKept
<1>5. CASE /\ \A i \in DOMAIN entries : entries[i].token # task[t].sent
           /\ DOMAIN entries' = DOMAIN entries \cup {n}
           /\ entries'[n].token = k
           /\ \A i \in DOMAIN entries : entries'[i] = entries[i]
  <2>1. \A i \in DOMAIN entries : entries[i].token # k
    <3>1. CASE k = task[t].sent BY <1>5, <3>1
    <3>2. CASE k # task[t].sent BY <1>1, <3>2 DEF TokInv, GivenAlone, Alone
    <3>3. QED BY <3>1, <3>2
  <2>2. NoTokenTwice' BY <1>5, <2>1 DEF TokInv, NoTokenTwice
  <2>3. k.gen <= issued[k.login] BY <1>1 DEF TokInv, TokensIssued, IssuedToken
  <2>4. TokensIssued' BY <1>1, <1>3, <1>5, <2>3 DEF TokInv, TokensIssued, IssuedToken
  <2>5. GivenAlone'
    <3> SUFFICES ASSUME NEW u \in Tasks, task'[u].pc = "insert", task'[u].got # task'[u].sent
                 PROVE  Alone(u, task[u].got)'
      BY DEF GivenAlone
    <3>1. u # t /\ task'[u] = task[u] BY <1>3
    <3>2. Alone(u, task[u].got) BY <3>1 DEF TokInv, GivenAlone
    <3>3. k # task[u].got BY <1>1, <3>1, <3>2 DEF Alone
    <3>4. QED BY <1>3, <1>5, <3>1, <3>2, <3>3 DEF Alone
  <2>6. QED BY <1>1, <2>2, <2>4, <2>5 DEF TokInv, FileTokens
<1>6. QED BY <1>2, <1>4, <1>5

LEMMA TokReplace ==
    ASSUME RegistryAssumption, BaseInv, TokInv, NEW t \in Tasks, NEW i \in Ids, NEW tok \in Token,
           Replace(t, i, tok)
    PROVE  TokInv'
<1>1. /\ i \in DOMAIN entries /\ Known(tok) /\ UNCHANGED <<file, loose, issued>>
      /\ \A j \in DOMAIN entries : j # i => entries[j].token # tok
      /\ entries' = [entries EXCEPT ![i] = [entries[i] EXCEPT !.token = tok]]
  BY DEF Replace, disk
<1>2. entries[i] \in Entry BY <1>1 DEF BaseInv, StateTypes
<1>3. [entries[i] EXCEPT !.token = tok].token = tok BY <1>2 DEF Entry
<1>4. /\ DOMAIN entries' = DOMAIN entries /\ entries'[i].token = tok
      /\ \A j \in DOMAIN entries : j # i => entries'[j] = entries[j]
  BY <1>1, <1>3
<1>5. \A u \in Tasks : task'[u] = task[u] \/ task'[u].pc = "persist"
  BY ReplaceBase DEF Moves
<1>6. IssuedToken(tok) /\ \A u \in Tasks : task[u].pc = "insert" => task[u].got # tok \/ task[u].sent = tok
  BY <1>1 DEF Known, IssuedToken
<1>7. NoTokenTwice' BY <1>1, <1>4 DEF TokInv, NoTokenTwice
<1>8. TokensIssued' BY <1>1, <1>4, <1>5, <1>6 DEF TokInv, TokensIssued, IssuedToken
<1>9. GivenAlone'
  <2> SUFFICES ASSUME NEW u \in Tasks, task'[u].pc = "insert", task'[u].got # task'[u].sent
               PROVE  Alone(u, task[u].got)'
    BY DEF GivenAlone
  <2>1. task'[u] = task[u] BY <1>5
  <2>2. Alone(u, task[u].got) /\ task[u].got # tok BY <1>6, <2>1 DEF TokInv, GivenAlone
  <2>3. QED BY <1>4, <1>5, <2>1, <2>2 DEF Alone
<1>10. QED BY <1>1, <1>7, <1>8, <1>9 DEF TokInv, FileTokens

LEMMA TokStep ==
    ASSUME RegistryAssumption, BaseInv, TokInv, [Next]_vars
    PROVE  TokInv'
<1>1. CASE UNCHANGED vars
  BY <1>1, TokKept DEF vars, memory, disk
<1>2. CASE Startup BY <1>2, TokStartup
<1>3. CASE Stop
  <2>1. /\ DOMAIN entries' = {} /\ UNCHANGED <<file, loose, issued>> /\ \A u \in Tasks : task'[u] = Idle
    BY <1>3 DEF Stop
  <2>2. \A u \in Tasks : task'[u] = task[u] \/ task'[u].pc \notin {"validate", "insert"}
    BY <2>1, IdleFacts
  <2>3. QED BY <2>1, <2>2, TokKept
<1>4. ASSUME NEW i \in Ids, Serve(i) PROVE TokInv'
  <2>1. /\ DOMAIN entries' = DOMAIN entries
        /\ \A j \in DOMAIN entries : entries'[j].token = entries[j].token
        /\ UNCHANGED <<task, file, loose, issued>>
    BY <1>4, ServeBase
  <2>2. QED BY <2>1, TokKept
<1>5. ASSUME NEW i \in Ids, Refresh(i) PROVE TokInv' BY <1>5, TokRefresh
<1>6. ASSUME NEW t \in Tasks, AddStart(t) PROVE TokInv' BY <1>6, TokAddStart
<1>7. ASSUME NEW t \in Tasks, AddValidate(t) PROVE TokInv' BY <1>7, TokAddValidate
<1>8. ASSUME NEW t \in Tasks, AddInsert(t) PROVE TokInv' BY <1>8, TokAddInsert
<1>9. ASSUME NEW t \in Tasks, NEW i \in Ids, NEW tok \in Token, Replace(t, i, tok) PROVE TokInv'
  BY <1>9, TokReplace
<1>10. ASSUME NEW t \in Tasks, AddRefused(t) \/ DropStats(t) PROVE TokInv'
  <2>1. Moves(t, Idle) /\ UNCHANGED <<entries, file, loose, issued>>
    <3>1. CASE AddRefused(t) BY <3>1, AddRefusedBase DEF disk
    <3>2. CASE DropStats(t) BY <3>2, DropStatsBase
    <3>3. QED BY <1>10, <3>1, <3>2
  <2>2. \A u \in Tasks : task'[u] = task[u] \/ task'[u].pc \notin {"validate", "insert"}
    BY <2>1, IdleFacts DEF Moves
  <2>3. QED BY <2>1, <2>2, TokKept
<1>11. ASSUME NEW t \in Tasks, NEW i \in Ids, Delete(t, i) PROVE TokInv'
  <2>1. PICK w : Moves(t, w) /\ w.pc = "persist" BY <1>11, DeleteBase
  <2>2. \A u \in Tasks : task'[u] = task[u] \/ task'[u].pc \notin {"validate", "insert"}
    BY <2>1 DEF Moves
  <2>3. /\ DOMAIN entries' \subseteq DOMAIN entries
        /\ \A j \in DOMAIN entries' : entries'[j].token = entries[j].token
        /\ UNCHANGED <<file, loose, issued>>
    BY <1>11, DeleteBase DEF disk
  <2>4. QED BY <2>2, <2>3, TokKept
<1>12. ASSUME NEW t \in Tasks, Persist(t) PROVE TokInv'
  <2>1. running /\ UNCHANGED <<entries, loose, issued>> BY <1>12, PersistBase
  <2>2. PICK w : /\ Moves(t, w) /\ w.pc \in {"stats", "idle"}
                 /\ WriteFile(InMemory(entries)) \/ file' = file
    BY <1>12, PersistBase
  <2>3. \A u \in Tasks : task'[u] = task[u] \/ task'[u].pc \notin {"validate", "insert"}
    BY <2>2 DEF Moves
  <2>4. CASE WriteFile(InMemory(entries))
    <3>1. DOMAIN file' = DOMAIN entries /\ \A j \in DOMAIN file' : file'[j] = entries[j].token
      BY <2>4 DEF WriteFile, InMemory
    <3>2. loose = {} BY <2>1 DEF BaseInv, OneAtATime
    <3>3. QED BY <2>1, <2>3, <3>1, <3>2, TokKept
  <2>5. CASE file' = file BY <2>1, <2>3, <2>5, TokKept
  <2>6. QED BY <2>2, <2>4, <2>5
<1>13. CASE DedupMark
  <2>1. UNCHANGED <<entries, task, file, loose, issued>> BY <1>13, DedupMarkBase DEF memory
  <2>2. QED BY <2>1, TokKept
<1>14. CASE DedupReplace
  <2>1. UNCHANGED <<entries, task, loose, issued>> /\ tool \subseteq DOMAIN file
    BY <1>14, DedupReplaceBase DEF memory
  <2>2. file' = file \/ file' = [i \in tool |-> file[i]] BY <1>14, DedupReplaceBase
  <2>3. DOMAIN file' \subseteq DOMAIN file /\ \A i \in DOMAIN file' : file'[i] = file[i] BY <2>1, <2>2
  <2>4. QED BY <2>1, <2>3, TokKept
<1>15. QED
  BY <1>1, <1>2, <1>3, <1>4, <1>5, <1>6, <1>7, <1>8, <1>9, <1>10, <1>11, <1>12, <1>13, <1>14 DEF Next

-----------------------------------------------------------------------------
(* Counters and accounts, where every write of the file succeeds and the    *)
(* server is stopped only between calls.                                    *)
Persisting == \E t \in Tasks : task[t].pc = "persist"
Deleting == \E t \in Tasks : (task[t].pc = "persist" /\ task[t].op = "delete") \/ task[t].pc = "stats"
Counts(i) == i \in DOMAIN statsFile /\ statsFile[i] # {}

FileCurrent ==
    running => \/ Persisting
               \/ /\ DOMAIN file = DOMAIN entries
                  /\ \A i \in DOMAIN entries : file[i] = entries[i].token

\* What kiro_stats.json has for an id nobody has is about to be dropped, or the
\* watermark keeps the id from being given again.
SavedRunning ==
    running => \A i \in Ids : Counts(i) =>
        IF i \in DOMAIN entries THEN statsFile[i] \subseteq {entries[i].token.login}
        ELSE /\ i < nextId /\ (Deleting \/ i <= watermark)
             /\ \A t \in Tasks : task[t].pc = "insert" => task[t].id # i

SavedStopped ==
    ~running => \A i \in Ids : Counts(i) =>
        IF i \in DOMAIN file THEN statsFile[i] \subseteq {file[i].login} ELSE i <= watermark

StatsInv == StatsFollowAccount /\ FileCurrent /\ SavedRunning /\ SavedStopped

LEMMA StatsInitial ==
    ASSUME Init
    PROVE  StatsInv
<1>1. DOMAIN entries = {} /\ DOMAIN statsFile = {} /\ ~running BY DEF Init
<1>2. QED
  BY <1>1 DEF StatsInv, StatsFollowAccount, FileCurrent, SavedRunning, SavedStopped, Counts

LEMMA StatsStartup ==
    ASSUME RegistryAssumption, BaseInv, StatsInv, Startup
    PROVE  StatsInv'
<1>1. PICK top \in 0..MaxId, given \in SUBSET Ids : Starts(top, given) BY StartupFacts
<1>2. ~running /\ running' = TRUE BY <1>1 DEF Starts
<1>3. \A t \in Tasks : task'[t].pc = "idle"
  BY <1>1, IdleFacts DEF BaseInv, OneAtATime, Starts
<1>4. DOMAIN entries' = DOMAIN file \cup given /\ statsFile' = statsFile /\ watermark' = watermark
  BY <1>1 DEF Starts
<1>5. \A i \in given : ~Counts(i)
  <2>1. \A i \in given : i = top + 1 BY <1>1 DEF Starts
  <2>2. \A i \in DOMAIN file \cup {watermark} : i <= top BY <1>1 DEF Starts
  <2>3. top \in Nat BY DEF RegistryAssumption
  <2>4. \A i \in given : i \notin DOMAIN file /\ ~(i <= watermark)
    BY <2>1, <2>2, <2>3 DEF BaseInv, StateTypes
  <2>5. QED BY <1>2, <2>4 DEF StatsInv, SavedStopped
<1>6. \A i \in DOMAIN file : i \notin given => entries'[i].token = file[i] BY <1>1 DEF Starts
<1>7. \A i \in DOMAIN entries' : Counts(i) => statsFile[i] \subseteq {entries'[i].token.login}
  <2> SUFFICES ASSUME NEW i \in DOMAIN entries', Counts(i)
               PROVE  statsFile[i] \subseteq {entries'[i].token.login}
    OBVIOUS
  <2>1. i \in DOMAIN file /\ i \notin given BY <1>4, <1>5
  <2>2. i \in Ids BY <2>1 DEF BaseInv, StateTypes
  <2>3. QED BY <1>2, <1>6, <2>1, <2>2 DEF StatsInv, SavedStopped
<1>8. StatsFollowAccount'
  <2>1. \A i \in DOMAIN entries' : entries'[i].users = IF i \in DOMAIN statsFile THEN statsFile[i] ELSE {}
    BY <1>1 DEF Starts
  <2>2. QED BY <1>7, <2>1 DEF StatsFollowAccount, Counts
<1>9. FileCurrent'
  <2>1. CASE loose = {}
    <3>1. file' = file /\ given = {} BY <1>1, <2>1 DEF Starts
    <3>2. QED BY <1>4, <1>6, <3>1 DEF FileCurrent
  <2>2. CASE loose # {}
    <3>1. DOMAIN file' = DOMAIN entries' /\ \A i \in DOMAIN entries' : file'[i] = entries'[i].token
      BY <1>1, <2>2 DEF Starts
    <3>2. QED BY <3>1 DEF FileCurrent
  <2>3. QED BY <2>1, <2>2
<1>10. SavedRunning'
  <2>1. \A i \in Ids : i \notin DOMAIN entries' /\ Counts(i) => i <= watermark
    BY <1>2, <1>4 DEF StatsInv, SavedStopped
  <2>2. BaseInv' BY StartupBase
  <2>3. watermark < nextId' /\ watermark \in Nat /\ nextId' \in Nat
    BY <1>2, <1>4, <2>2 DEF BaseInv, IdsDrawn, StateTypes, RegistryAssumption
  <2>4. \A i \in Ids : i <= watermark => i < nextId' BY <2>3 DEF Ids
  <2>5. QED BY <1>3, <1>4, <1>7, <2>1, <2>4 DEF SavedRunning, Counts
<1>11. SavedStopped' BY <1>2 DEF SavedStopped
<1>12. QED BY <1>8, <1>9, <1>10, <1>11 DEF StatsInv

LEMMA StatsStop ==
    ASSUME RegistryAssumption, ~Kills, BaseInv, StatsInv, Stop
    PROVE  StatsInv'
<1>1. /\ running /\ ~running' /\ DOMAIN entries' = {} /\ UNCHANGED <<file, watermark>>
      /\ \A t \in Tasks : task[t] = Idle
      /\ statsFile' = [i \in DOMAIN entries |-> entries[i].users] \/ statsFile' = statsFile
  BY DEF Stop, SaveStats
<1>2. ~Persisting /\ ~Deleting BY <1>1, IdleFacts DEF Persisting, Deleting
<1>3. DOMAIN file = DOMAIN entries /\ \A i \in DOMAIN entries : file[i] = entries[i].token
  BY <1>1, <1>2 DEF StatsInv, FileCurrent
<1>4. SavedStopped'
  <2>1. CASE statsFile' = [i \in DOMAIN entries |-> entries[i].users]
    BY <1>1, <1>3, <2>1 DEF StatsInv, StatsFollowAccount, SavedStopped, Counts
  <2>2. CASE statsFile' = statsFile
    <3>1. \A i \in Ids : Counts(i) => IF i \in DOMAIN entries THEN statsFile[i] \subseteq {entries[i].token.login}
                                      ELSE i <= watermark
      BY <1>1, <1>2 DEF StatsInv, SavedRunning
    <3>2. QED BY <1>1, <1>3, <2>2, <3>1 DEF SavedStopped, Counts
  <2>3. QED BY <1>1, <2>1, <2>2
<1>5. QED BY <1>1, <1>4 DEF StatsInv, StatsFollowAccount, FileCurrent, SavedRunning

(* What a call or a request does while the server runs: no id is freed      *)
(* without a deletion, and what it writes it writes whole.                  *)
LEMMA StatsRuns ==
    ASSUME BaseInv, StatsInv, running, running' = TRUE, watermark' = watermark,
           DOMAIN entries' = DOMAIN entries,
           \A i \in DOMAIN entries : /\ entries'[i].token.login = entries[i].token.login
                                     /\ entries'[i].users \subseteq {entries[i].token.login},
           \/ statsFile' = [i \in DOMAIN entries' |-> entries'[i].users]
           \/ statsFile' = statsFile /\ (Deleting => Deleting'),
           nextId' \in Nat, nextId <= nextId',
           \A t \in Tasks : task'[t].pc = "insert" => task'[t] = task[t] \/ task'[t].id = nextId,
           FileCurrent'
    PROVE  StatsInv'
<1>1. StatsFollowAccount' BY DEF StatsFollowAccount
<1>2. nextId \in Nat /\ \A t \in Tasks : task[t].pc = "insert" => task[t].id \notin DOMAIN entries
  BY DEF BaseInv, StateTypes, IdsDrawn
<1>3. SavedRunning'
  <2>1. CASE statsFile' = [i \in DOMAIN entries' |-> entries'[i].users]
    BY <2>1 DEF SavedRunning, Counts
  <2>2. CASE statsFile' = statsFile /\ (Deleting => Deleting')
    <3> SUFFICES ASSUME NEW i \in Ids, Counts(i)
                 PROVE  IF i \in DOMAIN entries' THEN statsFile[i] \subseteq {entries'[i].token.login}
                        ELSE /\ i < nextId' /\ (Deleting' \/ i <= watermark')
                             /\ \A t \in Tasks : task'[t].pc = "insert" => task'[t].id # i
      BY <2>2 DEF SavedRunning, Counts
    <3>1. CASE i \in DOMAIN entries BY <3>1 DEF StatsInv, SavedRunning
    <3>2. CASE i \notin DOMAIN entries
      <4>1. /\ i < nextId /\ (Deleting \/ i <= watermark)
            /\ \A t \in Tasks : task[t].pc = "insert" => task[t].id # i
        BY <3>2 DEF StatsInv, SavedRunning
      <4>2. i < nextId' BY <1>2, <4>1 DEF Ids
      <4>3. nextId # i BY <1>2, <4>1 DEF Ids
      <4>4. QED BY <2>2, <3>2, <4>1, <4>2, <4>3
    <3>3. QED BY <3>1, <3>2
  <2>3. QED BY <2>1, <2>2
<1>4. QED BY <1>1, <1>3 DEF StatsInv, SavedStopped

LEMMA StatsAddInsert ==
    ASSUME RegistryAssumption, BaseInv, StatsInv, NEW t \in Tasks, AddInsert(t)
    PROVE  StatsInv'
<1> DEFINE n == task[t].id
<1>1. /\ running /\ running' = TRUE /\ task[t].pc = "insert" /\ n \in Ids
      /\ UNCHANGED <<nextId, file, statsFile, watermark>>
  BY AddInsertBase DEF disk
<1>2. PICK w : /\ Moves(t, w)
               /\ \/ w.pc = "idle" /\ UNCHANGED entries
                  \/ /\ w.pc = "persist"
                     /\ DOMAIN entries' = DOMAIN entries \cup {n}
                     /\ entries'[n].users = {}
                     /\ \A i \in DOMAIN entries : entries'[i] = entries[i]
  BY AddInsertBase
<1>3. /\ task'[t] = w /\ w.pc \in {"idle", "persist"}
      /\ \A u \in Tasks : u # t => task'[u] = task[u]
  BY <1>2 DEF Moves
<1>4. Deleting => Deleting' BY <1>1, <1>3 DEF Deleting
<1>5. CASE w.pc = "idle" /\ UNCHANGED entries
  <2>1. FileCurrent' BY <1>1, <1>3, <1>5 DEF StatsInv, FileCurrent, Persisting
  <2>2. \A u \in Tasks : task'[u].pc = "insert" => task'[u] = task[u] BY <1>3
  <2>3. nextId \in Nat /\ nextId <= nextId BY DEF BaseInv, StateTypes
  <2>4. QED BY <1>1, <1>4, <1>5, <2>1, <2>2, <2>3, StatsRuns DEF StatsInv, StatsFollowAccount
<1>6. CASE /\ w.pc = "persist"
           /\ DOMAIN entries' = DOMAIN entries \cup {n}
           /\ entries'[n].users = {}
           /\ \A i \in DOMAIN entries : entries'[i] = entries[i]
  <2>1. StatsFollowAccount' BY <1>6 DEF StatsInv, StatsFollowAccount
  <2>2. FileCurrent' BY <1>3, <1>6 DEF FileCurrent, Persisting
  <2>3. n \notin DOMAIN entries BY <1>1 DEF BaseInv, IdsDrawn
  <2>4. ~Counts(n) BY <1>1, <2>3 DEF StatsInv, SavedRunning
  <2>5. SavedRunning'
    <3> SUFFICES ASSUME NEW i \in Ids, Counts(i)
                 PROVE  IF i \in DOMAIN entries' THEN statsFile[i] \subseteq {entries'[i].token.login}
                        ELSE /\ i < nextId /\ (Deleting' \/ i <= watermark)
                             /\ \A u \in Tasks : task'[u].pc = "insert" => task'[u].id # i
      BY <1>1 DEF SavedRunning, Counts
    <3>1. i # n BY <2>4
    <3>2. CASE i \in DOMAIN entries BY <1>1, <1>6, <3>2 DEF StatsInv, SavedRunning
    <3>3. CASE i \notin DOMAIN entries
      <4>1. /\ i < nextId /\ (Deleting \/ i <= watermark)
            /\ \A u \in Tasks : task[u].pc = "insert" => task[u].id # i
        BY <1>1, <3>3 DEF StatsInv, SavedRunning
      <4>2. \A u \in Tasks : task'[u].pc = "insert" => task'[u].id # i BY <1>3, <1>6, <4>1
      <4>3. QED BY <1>4, <1>6, <3>1, <3>3, <4>1, <4>2
    <3>4. QED BY <3>2, <3>3
  <2>6. QED BY <1>1, <2>1, <2>2, <2>5 DEF StatsInv, SavedStopped
<1>7. QED BY <1>2, <1>5, <1>6

LEMMA StatsDelete ==
    ASSUME RegistryAssumption, BaseInv, StatsInv, NEW t \in Tasks, NEW i \in Ids, Delete(t, i)
    PROVE  StatsInv'
<1>1. /\ running /\ running' = TRUE /\ i \in DOMAIN entries
      /\ DOMAIN entries' = DOMAIN entries \ {i}
      /\ \A j \in DOMAIN entries' : entries'[j] = entries[j]
      /\ UNCHANGED <<nextId, file, statsFile, watermark>>
  BY DeleteBase DEF disk
<1>2. PICK w : Moves(t, w) /\ w.pc = "persist" /\ w.op = "delete" BY DeleteBase
<1>3. task'[t] = w /\ \A u \in Tasks : u # t => task'[u] = task[u] BY <1>2 DEF Moves
<1>4. StatsFollowAccount' BY <1>1 DEF StatsInv, StatsFollowAccount
<1>5. FileCurrent' BY <1>2, <1>3 DEF FileCurrent, Persisting
<1>6. Deleting' BY <1>2, <1>3 DEF Deleting
<1>7. SavedRunning'
  <2> SUFFICES ASSUME NEW j \in Ids, Counts(j)
               PROVE  IF j \in DOMAIN entries' THEN statsFile[j] \subseteq {entries'[j].token.login}
                      ELSE /\ j < nextId
                           /\ \A u \in Tasks : task'[u].pc = "insert" => task'[u].id # j
    BY <1>1, <1>6 DEF SavedRunning, Counts
  <2>1. CASE j \in DOMAIN entries'
    <3>1. j \in DOMAIN entries /\ entries'[j] = entries[j] BY <1>1, <2>1
    <3>2. QED BY <1>1, <2>1, <3>1 DEF StatsInv, SavedRunning
  <2>2. CASE j \notin DOMAIN entries' /\ j \in DOMAIN entries
    <3>1. j < nextId BY <1>1, <2>2 DEF BaseInv, IdsDrawn
    <3>2. \A u \in Tasks : task[u].pc = "insert" => task[u].id # j BY <2>2 DEF BaseInv, IdsDrawn
    <3>3. QED BY <1>2, <1>3, <2>2, <3>1, <3>2
  <2>3. CASE j \notin DOMAIN entries
    <3>1. j < nextId /\ \A u \in Tasks : task[u].pc = "insert" => task[u].id # j
      BY <1>1, <2>3 DEF StatsInv, SavedRunning
    <3>2. QED BY <1>1, <1>2, <1>3, <2>3, <3>1
  <2>4. QED BY <2>1, <2>2, <2>3
<1>8. QED BY <1>1, <1>4, <1>5, <1>7 DEF StatsInv, SavedStopped

LEMMA StatsStep ==
    ASSUME RegistryAssumption, ~Kills, ~WriteFails, BaseInv, BaseInv', StatsInv, [Next]_vars
    PROVE  StatsInv'
<1>1. CASE UNCHANGED vars
  BY <1>1 DEF vars, memory, disk, StatsInv, StatsFollowAccount, FileCurrent, SavedRunning, SavedStopped,
     Counts, Persisting, Deleting
<1>2. CASE Startup BY <1>2, StatsStartup
<1>3. CASE Stop BY <1>3, StatsStop
<1>4. nextId \in Nat /\ nextId <= nextId BY DEF BaseInv, StateTypes
<1>5. \A i \in DOMAIN entries : entries[i].users \subseteq {entries[i].token.login}
  BY DEF StatsInv, StatsFollowAccount
<1>6. ASSUME NEW i \in Ids, Serve(i) PROVE StatsInv'
  <2>1. /\ running /\ running' = TRUE /\ i \in DOMAIN entries /\ DOMAIN entries' = DOMAIN entries
        /\ \A j \in DOMAIN entries : entries'[j].token = entries[j].token
        /\ entries'[i].users = entries[i].users \cup {entries[i].token.login}
        /\ \A j \in DOMAIN entries : j # i => entries'[j] = entries[j]
        /\ statsFile' = [j \in DOMAIN entries' |-> entries'[j].users] \/ statsFile' = statsFile
        /\ UNCHANGED <<nextId, task, file, watermark>>
    BY <1>6, ServeBase
  <2>2. \A j \in DOMAIN entries : /\ entries'[j].token.login = entries[j].token.login
                                  /\ entries'[j].users \subseteq {entries[j].token.login}
    BY <1>5, <2>1
  <2>3. FileCurrent' BY <2>1 DEF StatsInv, FileCurrent, Persisting
  <2>4. Deleting => Deleting' BY <2>1 DEF Deleting
  <2>5. QED BY <1>4, <2>1, <2>2, <2>3, <2>4, StatsRuns
<1>7. ASSUME NEW i \in Ids, Refresh(i) PROVE StatsInv'
  <2>1. /\ running /\ running' = TRUE /\ i \in DOMAIN entries /\ DOMAIN entries' = DOMAIN entries
        /\ \A j \in DOMAIN entries : entries'[j].users = entries[j].users
        /\ \A j \in DOMAIN entries : j # i => entries'[j] = entries[j]
        /\ WriteFile(InMemory(entries'))
        /\ UNCHANGED <<nextId, task, statsFile, watermark>>
    BY <1>7, RefreshBase
  <2>2. PICK k \in Token : Refreshes(entries[i].token, k) /\ entries'[i].token = k
    BY <1>7, RefreshBase
  <2>3. entries[i].token \in Token BY <2>1 DEF BaseInv, StateTypes, Entry
  <2>4. entries'[i].token.login = entries[i].token.login BY <2>2, <2>3, RefreshGives DEF BaseInv
  <2>5. \A j \in DOMAIN entries : /\ entries'[j].token.login = entries[j].token.login
                                  /\ entries'[j].users \subseteq {entries[j].token.login}
    BY <1>5, <2>1, <2>4
  <2>6. FileCurrent' BY <2>1 DEF FileCurrent, WriteFile, InMemory
  <2>7. Deleting => Deleting' BY <2>1 DEF Deleting
  <2>8. QED BY <1>4, <2>1, <2>5, <2>6, <2>7, StatsRuns
<1>8. ASSUME NEW t \in Tasks, AddStart(t) PROVE StatsInv'
  <2>1. running /\ running' = TRUE /\ task[t] = Idle
        /\ UNCHANGED <<entries, nextId, file, statsFile, watermark>>
    BY <1>8, AddStartBase DEF disk
  <2>2. PICK k \in Token : Moves(t, [pc |-> "validate", sent |-> k]) BY <1>8, AddStartBase
  <2>3. task'[t].pc = "validate" /\ \A u \in Tasks : u # t => task'[u] = task[u] BY <2>2 DEF Moves
  <2>4. task[t].pc = "idle" BY <2>1, IdleFacts
  <2>5. Deleting => Deleting' BY <2>3, <2>4 DEF Deleting
  <2>6. FileCurrent' BY <2>1, <2>3, <2>4 DEF StatsInv, FileCurrent, Persisting
  <2>7. \A u \in Tasks : task'[u].pc = "insert" => task'[u] = task[u] BY <2>3
  <2>8. QED BY <1>4, <1>5, <2>1, <2>5, <2>6, <2>7, StatsRuns
<1>9. ASSUME NEW t \in Tasks, AddValidate(t) PROVE StatsInv'
  <2>1. /\ running /\ running' = TRUE /\ task[t].pc = "validate" /\ nextId' = nextId + 1
        /\ UNCHANGED <<entries, file, statsFile, watermark>>
    BY <1>9, AddValidateBase DEF disk
  <2>2. PICK w : Moves(t, w) /\ w.pc = "insert" /\ w.id = nextId
    BY <1>9, AddValidateBase
  <2>3. /\ task'[t].pc = "insert" /\ task'[t].id = nextId
        /\ \A u \in Tasks : u # t => task'[u] = task[u]
    BY <2>2 DEF Moves
  <2>4. Deleting => Deleting' BY <2>1, <2>3 DEF Deleting
  <2>5. FileCurrent' BY <2>1, <2>3 DEF StatsInv, FileCurrent, Persisting
  <2>6. \A u \in Tasks : task'[u].pc = "insert" => task'[u] = task[u] \/ task'[u].id = nextId BY <2>3
  <2>7. nextId' \in Nat /\ nextId <= nextId' BY <1>4, <2>1
  <2>8. QED BY <1>5, <2>1, <2>4, <2>5, <2>6, <2>7, StatsRuns
<1>10. ASSUME NEW t \in Tasks, AddRefused(t) PROVE StatsInv'
  <2>1. running /\ running' = TRUE /\ Moves(t, Idle) /\ task[t].pc = "validate"
        /\ UNCHANGED <<entries, nextId, file, statsFile, watermark>>
    BY <1>10, AddRefusedBase DEF disk
  <2>2. task'[t].pc = "idle" /\ \A u \in Tasks : u # t => task'[u] = task[u] BY <2>1, IdleFacts DEF Moves
  <2>3. Deleting => Deleting' BY <2>1, <2>2 DEF Deleting
  <2>4. FileCurrent' BY <2>1, <2>2 DEF StatsInv, FileCurrent, Persisting
  <2>5. \A u \in Tasks : task'[u].pc = "insert" => task'[u] = task[u] BY <2>2
  <2>6. QED BY <1>4, <1>5, <2>1, <2>3, <2>4, <2>5, StatsRuns
<1>11. ASSUME NEW t \in Tasks, AddInsert(t) PROVE StatsInv' BY <1>11, StatsAddInsert
<1>12. ASSUME NEW t \in Tasks, NEW i \in Ids, NEW tok \in Token, Replace(t, i, tok) PROVE StatsInv'
  <2>1. running /\ running' = TRUE /\ task[t] = Idle /\ UNCHANGED <<nextId, statsFile, watermark>>
    BY <1>12, ReplaceBase DEF disk
  <2>2. /\ i \in DOMAIN entries /\ tok.login = entries[i].token.login
        /\ entries' = [entries EXCEPT ![i] = [entries[i] EXCEPT !.token = tok]]
    BY <1>12 DEF Replace
  <2>3. entries[i] \in Entry BY <2>2 DEF BaseInv, StateTypes
  <2>4. /\ [entries[i] EXCEPT !.token = tok].token = tok
        /\ [entries[i] EXCEPT !.token = tok].users = entries[i].users
    BY <2>3 DEF Entry
  <2>5. /\ DOMAIN entries' = DOMAIN entries /\ entries'[i].token = tok
        /\ entries'[i].users = entries[i].users
        /\ \A j \in DOMAIN entries : j # i => entries'[j] = entries[j]
    BY <2>2, <2>4
  <2>6. \A j \in DOMAIN entries : /\ entries'[j].token.login = entries[j].token.login
                                  /\ entries'[j].users \subseteq {entries[j].token.login}
    BY <1>5, <2>2, <2>5
  <2>7. PICK w : Moves(t, w) /\ w.pc = "persist" BY <1>12, ReplaceBase
  <2>8. task'[t].pc = "persist" /\ \A u \in Tasks : u # t => task'[u] = task[u] BY <2>7 DEF Moves
  <2>9. FileCurrent' BY <2>8 DEF FileCurrent, Persisting
  <2>10. task[t].pc = "idle" BY <2>1, IdleFacts
  <2>11. Deleting => Deleting' BY <2>8, <2>10 DEF Deleting
  <2>12. \A u \in Tasks : task'[u].pc = "insert" => task'[u] = task[u] BY <2>8
  <2>13. QED BY <1>4, <2>1, <2>5, <2>6, <2>9, <2>11, <2>12, StatsRuns
<1>13. ASSUME NEW t \in Tasks, NEW i \in Ids, Delete(t, i) PROVE StatsInv' BY <1>13, StatsDelete
<1>14. ASSUME NEW t \in Tasks, Persist(t) PROVE StatsInv'
  <2>1. running /\ running' = TRUE /\ task[t].pc = "persist"
        /\ UNCHANGED <<entries, nextId, statsFile, watermark>>
    BY <1>14, PersistBase
  <2>2. PICK w : /\ Moves(t, w) /\ WriteFile(InMemory(entries))
                 /\ w.pc = IF task[t].op = "delete" THEN "stats" ELSE "idle"
    BY <1>14, PersistBase
  <2>3. task'[t] = w /\ \A u \in Tasks : u # t => task'[u] = task[u] BY <2>2 DEF Moves
  <2>4. Deleting => Deleting'
    <3>1. CASE task[t].op = "delete" BY <2>2, <2>3, <3>1 DEF Deleting
    <3>2. CASE task[t].op # "delete" BY <2>1, <2>3, <3>2 DEF Deleting
    <3>3. QED BY <3>1, <3>2
  <2>5. FileCurrent' BY <2>1, <2>2 DEF FileCurrent, WriteFile, InMemory
  <2>6. \A u \in Tasks : task'[u].pc = "insert" => task'[u] = task[u] BY <2>2, <2>3
  <2>7. QED BY <1>4, <1>5, <2>1, <2>4, <2>5, <2>6, StatsRuns
<1>15. ASSUME NEW t \in Tasks, DropStats(t) PROVE StatsInv'
  <2>1. running /\ running' = TRUE /\ task[t].pc = "stats" /\ Moves(t, Idle)
        /\ statsFile' = [i \in DOMAIN entries |-> entries[i].users]
        /\ UNCHANGED <<entries, nextId, file, watermark>>
    BY <1>15, DropStatsBase
  <2>2. task'[t].pc = "idle" /\ \A u \in Tasks : u # t => task'[u] = task[u] BY <2>1, IdleFacts DEF Moves
  <2>3. FileCurrent' BY <2>1, <2>2 DEF StatsInv, FileCurrent, Persisting
  <2>4. \A u \in Tasks : task'[u].pc = "insert" => task'[u] = task[u] BY <2>2
  <2>5. QED BY <1>4, <1>5, <2>1, <2>3, <2>4, StatsRuns
<1>16. CASE DedupMark
  <2>1. /\ ~running /\ ~running' /\ watermark <= watermark'
        /\ UNCHANGED <<entries, file, statsFile>>
    BY <1>16, DedupMarkBase DEF memory
  <2>2. watermark \in Nat /\ watermark' \in Nat BY DEF BaseInv, StateTypes, RegistryAssumption
  <2>3. \A i \in Ids : i <= watermark => i <= watermark' BY <2>1, <2>2 DEF Ids
  <2>4. SavedStopped' BY <2>1, <2>3 DEF StatsInv, SavedStopped, Counts
  <2>5. QED BY <2>1, <2>4 DEF StatsInv, StatsFollowAccount, FileCurrent, SavedRunning
<1>17. CASE DedupReplace
  <2>1. /\ ~running /\ ~running' /\ UNCHANGED <<entries, statsFile, watermark>>
        /\ \A i \in DOMAIN file : i <= watermark
        /\ file' = file \/ file' = [i \in tool |-> file[i]]
    BY <1>17, DedupReplaceBase DEF memory
  <2>2. \A i \in DOMAIN file : i \in DOMAIN file' => file'[i] = file[i] BY <2>1
  <2>3. \A i \in DOMAIN file' : i \in DOMAIN file
    <3>1. tool \subseteq DOMAIN file BY <1>17, DedupReplaceBase
    <3>2. QED BY <2>1, <3>1
  <2>4. SavedStopped' BY <2>1, <2>2, <2>3 DEF StatsInv, SavedStopped, Counts
  <2>5. QED BY <2>1, <2>4 DEF StatsInv, StatsFollowAccount, FileCurrent, SavedRunning
<1>18. QED
  BY <1>1, <1>2, <1>3, <1>6, <1>7, <1>8, <1>9, <1>10, <1>11, <1>12, <1>13, <1>14, <1>15, <1>16, <1>17
  DEF Next

-----------------------------------------------------------------------------
(* The two properties of the Admin API's part of the run.                   *)

LEMMA ApiSteps ==
    ASSUME [MCNext]_<<part, vars>>
    PROVE  part' = part /\ (part = "api" => [Next]_vars)
<1>1. CASE MCNext BY <1>1 DEF MCNext
<1>2. CASE UNCHANGED <<part, vars>> BY <1>2 DEF vars
<1>3. QED BY <1>1, <1>2

(* No two credentials ever hold one token, for any number of accounts and   *)
(* concurrent calls, whether or not the provider rotates tokens and accepts *)
(* old ones, with deletions, kills and failing writes: a token is compared  *)
(* before the refresh and the one submitted once more under the lock, and   *)
(* these two looks are enough.  The files of the first start hold no token  *)
(* twice themselves.                                                        *)
THEOREM NoTokenHeldTwice ==
    FilesDistinct => (MCSpec => []ApiNoTokenTwice)
<1> SUFFICES ASSUME FilesDistinct PROVE MCSpec => []ApiNoTokenTwice
  OBVIOUS
<1> DEFINE Inv == part = "api" => BaseInv /\ TokInv
<1>1. MCInit => Inv BY BaseInitial, TokInitial, RegistryAssumption DEF MCInit
<1>2. Inv /\ [MCNext]_<<part, vars>> => Inv'
  BY ApiSteps, BaseStep, TokStep, RegistryAssumption
<1>3. Inv => ApiNoTokenTwice BY DEF ApiNoTokenTwice, TokInv
<1>4. QED BY <1>1, <1>2, <1>3, PTL DEF MCSpec

(* What is counted for a credential was used by its own account, over       *)
(* additions, deletions, replaced logins and restarts, when the server is   *)
(* stopped between calls and its writes succeed: a deleted credential's     *)
(* counters go from the file before its id can come back.                   *)
THEOREM CountersFollowAccount ==
    ~Kills /\ ~WriteFails => (MCSpec => []ApiStatsFollow)
<1> SUFFICES ASSUME ~Kills, ~WriteFails PROVE MCSpec => []ApiStatsFollow
  OBVIOUS
<1> DEFINE Inv == part = "api" => BaseInv /\ StatsInv
<1>1. MCInit => Inv BY BaseInitial, StatsInitial, RegistryAssumption DEF MCInit
<1>2. Inv /\ [MCNext]_<<part, vars>> => Inv'
  BY ApiSteps, BaseStep, StatsStep, RegistryAssumption
<1>3. Inv => ApiStatsFollow BY DEF ApiStatsFollow, StatsInv
<1>4. QED BY <1>1, <1>2, <1>3, PTL DEF MCSpec

=============================================================================
