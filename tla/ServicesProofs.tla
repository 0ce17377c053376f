--------------------------- MODULE ServicesProofs ---------------------------
(***************************************************************************)
(* What administrators change beside each other, for any number of         *)
(* requests, accounts, updates and addresses: memory, config.json and what *)
(* administrators were told agree once the updates of a setting have       *)
(* ended; kiro_stats.json never moves back; while updates of the           *)
(* executable do not overlap, one to return to is always there; the pool   *)
(* of proxies keeps what an administrator took out of service out of it,   *)
(* and a rotation replaces what it judged; what is charged to a key, what  *)
(* opens nothing any more and which accounts a key uses; with the types of *)
(* all that MCServices runs.                                               *)
(***************************************************************************)
EXTENDS MCServices, FiniteSetTheorems, TLAPS

-----------------------------------------------------------------------------
(* config.json.                                                             *)

Values == UNION {Value(s) : s \in Settings}

UpdateRecord ==
    [pc : {"idle", "load", "save", "saved", "failed"}, setting : Settings,
     field : {"mode", "invert", "value"}, new : Values, prev : Values, read : Conf]

(* A setting whose updates cannot meet, or have not.                        *)
Kept(s) == Guard[s] # "none" \/ s \notin met

(* What an update under way knows of memory and of the file.                *)
Knows(u) ==
    LET t == update[u]
        s == t.setting
    IN  /\ t.new = [t.prev EXCEPT ![t.field] = t.new[t.field]]
        /\ memory[s] = IF s \in MemoryFirst THEN t.new ELSE t.prev
        /\ file[s] = told[s]
        /\ file[s] = IF t.pc = "saved" THEN t.new ELSE t.prev

TypesOK ==
    /\ ConfigTypeOK
    /\ update \in [Updaters -> UpdateRecord]

(* One writer of the file at a time, with the copy it read.                 *)
WriterOK ==
    /\ \A u, w \in holder : u = w
    /\ \A u \in holder : update[u].read = file

AloneOK == \A s \in Settings : Kept(s) => \A u, w \in Busy(s) : u = w
RestOK == \A s \in Settings : Kept(s) => Agrees(s)
WorkOK == \A u \in Updaters : update[u].pc # "idle" /\ Kept(update[u].setting) => Knows(u)

ConfigInv == TypesOK /\ WriterOK /\ AloneOK /\ RestOK /\ WorkOK

-----------------------------------------------------------------------------

LEMMA SettingNames ==
    /\ Settings \subseteq {"balancing", "tools", "headers", "quota", "proxy"}
    /\ \E s \in Settings : TRUE
    /\ \A s \in Settings : Fields(s) \subseteq {"mode", "invert", "value"} /\ \E f \in Fields(s) : TRUE
    /\ \A s \in Settings : Value(s) \subseteq Values
  BY ConfigAssumption DEF Fields, Values

LEMMA ConfUpdated ==
    ASSUME NEW c \in Conf, NEW s \in Settings, NEW v \in Value(s)
    PROVE  [c EXCEPT ![s] = v] \in Conf
  BY SettingNames DEF Conf, Values

LEMMA DefaultsOK == Defaults \in Conf
  <1>1. \A s \in Settings : [f \in Fields(s) |-> FALSE] \in Value(s)
    BY DEF Value
  <1> QED BY <1>1, SettingNames DEF Defaults, Conf, Values

LEMMA NoUpdateOK ==
    /\ NoUpdate \in UpdateRecord /\ NoUpdate.pc = "idle"
    /\ NoUpdate.field \in Fields(NoUpdate.setting)
    /\ NoUpdate.new \in Value(NoUpdate.setting) /\ NoUpdate.prev \in Value(NoUpdate.setting)
  <1> DEFINE s == CHOOSE x \in Settings : TRUE
             f == CHOOSE x \in Fields(s) : TRUE
  <1>1. s \in Settings
    BY SettingNames
  <1>2. f \in Fields(s)
    BY <1>1, SettingNames
  <1>3. Defaults[s] \in Value(s) /\ Value(s) \subseteq Values
    BY <1>1, DefaultsOK, SettingNames DEF Conf
  <1>4. NoUpdate = [pc |-> "idle", setting |-> s, field |-> f,
                    new |-> Defaults[s], prev |-> Defaults[s], read |-> Defaults]
    BY DEF NoUpdate
  <1> HIDE DEF s, f
  <1> QED BY <1>1, <1>2, <1>3, <1>4, DefaultsOK, SettingNames DEF UpdateRecord

LEMMA ConfigStarts == ConfigInit => ConfigInv
  <1> SUFFICES ASSUME ConfigInit PROVE ConfigInv
    OBVIOUS
  <1> USE DefaultsOK, NoUpdateOK DEF ConfigInit
  <1>1. TypesOK
    BY DEF TypesOK, ConfigTypeOK, UpdateRecord
  <1>2. \A s \in Settings : Busy(s) = {}
    BY DEF Busy
  <1> QED BY <1>1, <1>2 DEF ConfigInv, WriterOK, AloneOK, RestOK, WorkOK, Agrees

(* An update moves to a well-typed place.                                    *)
LEMMA UpdateMoves ==
    ASSUME TypesOK, NEW u \in Updaters, NEW r \in UpdateRecord, Go(u, r),
           r.field \in Fields(r.setting),
           r.new \in Value(r.setting), r.prev \in Value(r.setting),
           memory' \in Conf, file' \in Conf, told' \in Conf, met' \subseteq Settings,
           holder' = IF r.pc = "save" THEN {u} ELSE holder \ {u}, 
           r.pc = "save" => holder = {}
    PROVE  TypesOK'
  <1>1. update' \in [Updaters -> UpdateRecord]
    BY DEF TypesOK, Go
  <1>2. \A w \in Updaters : update'[w] = IF w = u THEN r ELSE update[w]
    BY DEF TypesOK, Go
  <1> QED BY <1>1, <1>2 DEF TypesOK, ConfigTypeOK, UpdateRecord

LEMMA BeginHolds ==
    ASSUME ConfigInv, NEW u \in Updaters, NEW s \in Settings, NEW f \in Fields(s),
           NEW v \in BOOLEAN, Begin(u, s, f, v)
    PROVE  ConfigInv'
  <1> DEFINE new == [memory[s] EXCEPT ![f] = v]
             r == [pc |-> "load", setting |-> s, field |-> f, new |-> new,
                   prev |-> memory[s], read |-> Defaults]
  <1>1. memory \in Conf /\ memory[s] \in Value(s) /\ file \in Conf /\ told \in Conf
    BY DEF ConfigInv, TypesOK, ConfigTypeOK, Conf
  <1>2. new \in Value(s) /\ new = [memory[s] EXCEPT ![f] = new[f]] /\ f \in {"mode", "invert", "value"}
    BY <1>1, SettingNames DEF Value
  <1>3. r \in UpdateRecord /\ Go(u, r) /\ update[u].pc = "idle"
    BY <1>1, <1>2, SettingNames, DefaultsOK DEF Begin, UpdateRecord
  <1>4. memory' \in Conf /\ memory'[s] = IF s \in MemoryFirst THEN new ELSE memory[s]
    BY <1>1, <1>2, ConfUpdated DEF Begin, Conf
  <1>5. \A x \in Settings : x # s => memory'[x] = memory[x]
    BY <1>1 DEF Begin, Conf
  <1>6. \A w \in Updaters : update'[w] = IF w = u THEN r ELSE update[w]
    BY <1>3 DEF ConfigInv, TypesOK, Go
  <1>7. met' = (IF Busy(s) = {} THEN met ELSE met \cup {s})
        /\ (Guard[s] # "none" => Holds(Guard[s]) = {}) /\ UNCHANGED <<file, holder, told>>
    BY DEF Begin
  <1>8. r.setting = s /\ r.field = f /\ r.new = new /\ r.prev = memory[s] /\ r.pc = "load"
    OBVIOUS
  <1> HIDE DEF r, new
  <1>9. u \notin holder
    BY <1>3 DEF ConfigInv, TypesOK, ConfigTypeOK
  <1>10. TypesOK'
    BY <1>1, <1>2, <1>3, <1>4, <1>7, <1>8, <1>9, UpdateMoves DEF ConfigInv, TypesOK, ConfigTypeOK
  <1>11. WriterOK'
    BY <1>6, <1>7, <1>9 DEF ConfigInv, WriterOK, TypesOK, ConfigTypeOK
  <1>12. Busy(s) # {} => ~Kept(s)'
    BY <1>7 DEF Kept, Busy, Holds
  <1>13. \A x \in Settings : x # s => Busy(x)' = Busy(x)
    BY <1>3, <1>6, <1>8 DEF Busy
  <1>14. Busy(s)' = Busy(s) \cup {u}
    BY <1>3, <1>6, <1>8 DEF Busy
  <1>15. \A x \in Settings : Kept(x)' => Kept(x)
    BY <1>7 DEF Kept
  <1>16. AloneOK'
    BY <1>12, <1>13, <1>14, <1>15 DEF ConfigInv, AloneOK
  <1>17. RestOK'
    BY <1>5, <1>7, <1>13, <1>14, <1>15 DEF ConfigInv, RestOK, Agrees
  <1>18. WorkOK'
    <2> SUFFICES ASSUME NEW w \in Updaters, update'[w].pc # "idle", Kept(update[w].setting)'
                 PROVE  Knows(w)'
      BY DEF WorkOK
    <2>1. CASE w = u
      <3>1. Agrees(s) /\ Busy(s) = {}
        BY <2>1, <1>6, <1>8, <1>12, <1>15 DEF ConfigInv, RestOK
      <3> QED BY <2>1, <3>1, <1>2, <1>4, <1>6, <1>7, <1>8 DEF Knows, Agrees
    <2>2. CASE w # u
      <3>1. update'[w] = update[w] /\ w \in Busy(update[w].setting) /\ update[w].setting \in Settings
        BY <2>2, <1>6 DEF Busy, ConfigInv, TypesOK, ConfigTypeOK
      <3>2. update[w].setting # s
        BY <3>1, <1>12
      <3> QED BY <3>1, <3>2, <1>5, <1>7, <1>15 DEF ConfigInv, WorkOK, Knows
    <2> QED BY <2>1, <2>2
  <1> QED BY <1>10, <1>11, <1>16, <1>17, <1>18 DEF ConfigInv

LEMMA LoadHolds ==
    ASSUME ConfigInv, NEW u \in Updaters, Load(u)
    PROVE  ConfigInv'
  <1> DEFINE r == [update[u] EXCEPT !.pc = "save", !.read = file]
  <1>1. /\ update[u] \in UpdateRecord /\ file \in Conf /\ update[u].pc = "load"
        /\ holder = {} /\ holder' = {u} /\ Go(u, r) /\ UNCHANGED <<memory, file, told, met>>
    BY DEF Load, ConfigInv, TypesOK, ConfigTypeOK
  <1>2. /\ r \in UpdateRecord /\ r.pc = "save" /\ r.read = file
        /\ r.setting = update[u].setting /\ r.field = update[u].field
        /\ r.new = update[u].new /\ r.prev = update[u].prev
    BY <1>1 DEF UpdateRecord
  <1> HIDE DEF r
  <1>3. \A w \in Updaters : update'[w] = IF w = u THEN r ELSE update[w]
    BY <1>1 DEF ConfigInv, TypesOK, Go
  <1>4. TypesOK'
    BY <1>1, <1>2, UpdateMoves DEF ConfigInv, TypesOK, ConfigTypeOK
  <1>5. WriterOK'
    BY <1>1, <1>2, <1>3 DEF WriterOK
  <1>6. \A s \in Settings : Busy(s)' = Busy(s) /\ Kept(s)' = Kept(s)
    BY <1>1, <1>2, <1>3 DEF Busy, Kept
  <1>7. WorkOK'
    <2> SUFFICES ASSUME NEW w \in Updaters, update'[w].pc # "idle", Kept(update[w].setting)'
                 PROVE  Knows(w)'
      BY DEF WorkOK
    <2>1. update[w].pc # "idle" /\ Kept(update[w].setting)
      BY <1>1, <1>2, <1>3 DEF Kept
    <2> QED BY <2>1, <1>1, <1>2, <1>3 DEF ConfigInv, WorkOK, Knows
  <1> QED BY <1>1, <1>4, <1>5, <1>6, <1>7 DEF ConfigInv, AloneOK, RestOK, Agrees

LEMMA SaveHolds ==
    ASSUME ConfigInv, NEW u \in Updaters, Save(u)
    PROVE  ConfigInv'
  <1> DEFINE s == update[u].setting
             pc == IF file' = file /\ told' = told /\ update'[u].pc = "failed" THEN "failed" ELSE "saved"
             r == [update[u] EXCEPT !.pc = pc]
             f == update[u].field
  <1>1. /\ update[u] \in UpdateRecord /\ s \in Settings /\ f \in Fields(s)
        /\ update[u].new \in Value(s) /\ update[u].prev \in Value(s)
        /\ file \in Conf /\ told \in Conf /\ memory \in Conf
        /\ holder = {u} /\ update[u].read = file /\ update[u].pc = "save"
    BY DEF Save, ConfigInv, TypesOK, ConfigTypeOK, WriterOK
  <1>2. told[s] \in Value(s) /\ [told[s] EXCEPT ![f] = update[u].new[f]] \in Value(s)
    BY <1>1 DEF Conf, Value
  <1>3. UNCHANGED <<memory, met>> /\ holder' = {} 
    BY <1>1 DEF Save
  <1>4. /\ Go(u, r) /\ r \in UpdateRecord /\ r.pc \in {"saved", "failed"}
        /\ r.setting = s /\ r.field = f /\ r.new = update[u].new /\ r.prev = update[u].prev
        /\ r.pc = "failed" => UNCHANGED <<file, told>>
        /\ r.pc = "saved" => /\ file' = [file EXCEPT ![s] = update[u].new]
                             /\ told' = [told EXCEPT ![s] = [told[s] EXCEPT ![f] = update[u].new[f]]]
    BY <1>1 DEF Save, Go, UpdateRecord, ConfigInv, TypesOK
  <1> HIDE DEF r, pc
  <1>5. \A w \in Updaters : update'[w] = IF w = u THEN r ELSE update[w]
    BY <1>4 DEF ConfigInv, TypesOK, Go
  <1>6. file' \in Conf /\ told' \in Conf
    BY <1>1, <1>2, <1>4, ConfUpdated
  <1>7. \A x \in Settings : x # s => file'[x] = file[x] /\ told'[x] = told[x]
    BY <1>1, <1>4 DEF Conf
  <1>8. TypesOK'
    BY <1>1, <1>3, <1>4, <1>6, UpdateMoves DEF ConfigInv, TypesOK, ConfigTypeOK
  <1>9. WriterOK'
    BY <1>3 DEF WriterOK
  <1>10. \A x \in Settings : Busy(x)' = Busy(x) /\ Kept(x)' = Kept(x)
    BY <1>1, <1>3, <1>4, <1>5 DEF Busy, Kept
  <1>11. u \in Busy(s)
    BY <1>1 DEF Busy
  <1>12. RestOK'
    BY <1>3, <1>7, <1>10, <1>11 DEF ConfigInv, RestOK, Agrees
  <1>13. WorkOK'
    <2> SUFFICES ASSUME NEW w \in Updaters, update'[w].pc # "idle", Kept(update[w].setting)'
                 PROVE  Knows(w)'
      BY DEF WorkOK
    <2>1. update[w].pc # "idle" /\ Kept(update[w].setting) /\ update'[w].setting = update[w].setting
          /\ update[w].setting \in Settings
      BY <1>1, <1>3, <1>4, <1>5 DEF Kept, ConfigInv, TypesOK, ConfigTypeOK
    <2>2. CASE w = u
      <3>1. Knows(u)
        BY <2>1, <2>2 DEF ConfigInv, WorkOK
      <3>2. CASE r.pc = "failed"
        BY <2>2, <3>1, <3>2, <1>1, <1>3, <1>4, <1>5 DEF Knows
      <3>3. CASE r.pc = "saved"
        <4>1. [told[s] EXCEPT ![f] = update[u].new[f]] = update[u].new
          BY <3>1, <1>1 DEF Knows
        <4>2. file'[s] = update[u].new /\ told'[s] = update[u].new
          BY <4>1, <3>3, <1>1, <1>4 DEF Conf
        <4> QED BY <2>2, <3>1, <3>3, <4>2, <1>1, <1>3, <1>4, <1>5 DEF Knows
      <3> QED BY <3>2, <3>3, <1>4
    <2>3. CASE w # u
      <3>1. update[w].setting # s
        BY <2>1, <2>3, <1>1, <1>11 DEF ConfigInv, AloneOK, Busy
      <3> QED BY <2>1, <2>3, <3>1, <1>3, <1>5, <1>7 DEF ConfigInv, WorkOK, Knows
    <2> QED BY <2>2, <2>3
  <1> QED BY <1>8, <1>9, <1>10, <1>12, <1>13 DEF ConfigInv, AloneOK

LEMMA EndHolds ==
    ASSUME ConfigInv, NEW u \in Updaters, End(u)
    PROVE  ConfigInv'
  <1> DEFINE s == update[u].setting
  <1>1. /\ update[u] \in UpdateRecord /\ s \in Settings
        /\ update[u].new \in Value(s) /\ update[u].prev \in Value(s)
        /\ file \in Conf /\ told \in Conf /\ memory \in Conf
        /\ update[u].pc \in {"saved", "failed"} /\ u \notin holder
        /\ Go(u, NoUpdate) /\ UNCHANGED <<file, holder, told, met>>
    BY DEF End, ConfigInv, TypesOK, ConfigTypeOK
  <1>2. /\ memory' \in Conf
        /\ memory'[s] = CASE update[u].pc = "saved" /\ s \notin MemoryFirst -> update[u].new
                          [] update[u].pc = "failed" /\ s \in MemoryFirst -> update[u].prev
                          [] OTHER -> memory[s]
        /\ \A x \in Settings : x # s => memory'[x] = memory[x]
    <2>1. CASE update[u].pc = "saved" /\ s \notin MemoryFirst
      BY <2>1, <1>1, ConfUpdated DEF End, Conf
    <2>2. CASE update[u].pc = "failed" /\ s \in MemoryFirst
      BY <2>2, <1>1, ConfUpdated DEF End, Conf
    <2>3. CASE ~(update[u].pc = "saved" /\ s \notin MemoryFirst)
               /\ ~(update[u].pc = "failed" /\ s \in MemoryFirst)
      BY <2>3, <1>1 DEF End
    <2> QED BY <2>1, <2>2, <2>3
  <1>3. \A w \in Updaters : update'[w] = IF w = u THEN NoUpdate ELSE update[w]
    BY <1>1 DEF ConfigInv, TypesOK, Go
  <1>4. TypesOK'
    BY <1>1, <1>2, NoUpdateOK, UpdateMoves DEF ConfigInv, TypesOK, ConfigTypeOK
  <1>5. WriterOK'
    BY <1>1, <1>3 DEF ConfigInv, WriterOK, TypesOK, ConfigTypeOK
  <1>6. \A x \in Settings : /\ Kept(x)' = Kept(x)
                            /\ Busy(x)' = IF x = s THEN Busy(s) \ {u} ELSE Busy(x)
    BY <1>1, <1>3, NoUpdateOK DEF Busy, Kept
  <1>7. u \in Busy(s)
    BY <1>1 DEF Busy
  <1>8. RestOK'
    <2> SUFFICES ASSUME NEW x \in Settings, Kept(x) PROVE Agrees(x)'
      BY <1>6 DEF RestOK
    <2>1. CASE x = s
      <3>1. Knows(u)
        BY <2>1, <1>1, <1>6 DEF ConfigInv, WorkOK
      <3> QED BY <2>1, <3>1, <1>1, <1>2 DEF Agrees, Knows
    <2>2. CASE x # s
      BY <2>2, <1>1, <1>2, <1>6 DEF ConfigInv, RestOK, Agrees
    <2> QED BY <2>1, <2>2
  <1>9. WorkOK'
    <2> SUFFICES ASSUME NEW w \in Updaters, update'[w].pc # "idle", Kept(update[w].setting)'
                 PROVE  Knows(w)'
      BY DEF WorkOK
    <2>1. w # u /\ update'[w] = update[w] /\ update[w].setting \in Settings /\ Kept(update[w].setting)
      BY <1>1, <1>3, NoUpdateOK DEF Kept, ConfigInv, TypesOK, ConfigTypeOK
    <2>2. update[w].setting # s
      BY <2>1, <1>1, <1>7 DEF ConfigInv, AloneOK, Busy
    <2> QED BY <2>1, <2>2, <1>1, <1>2 DEF ConfigInv, WorkOK, Knows
  <1> QED BY <1>4, <1>5, <1>6, <1>8, <1>9 DEF ConfigInv, AloneOK

LEMMA ConfigStep == ConfigInv /\ [ConfigNext]_configVars => ConfigInv'
  <1> SUFFICES ASSUME ConfigInv, [ConfigNext]_configVars PROVE ConfigInv'
    OBVIOUS
  <1>1. CASE ConfigNext
    BY <1>1, BeginHolds, LoadHolds, SaveHolds, EndHolds DEF ConfigNext
  <1>2. CASE UNCHANGED configVars
    <2>1. UNCHANGED <<memory, file, holder, update, told, met>> BY <1>2 DEF configVars
    <2>2. TypesOK' BY <2>1 DEF ConfigInv, TypesOK, ConfigTypeOK
    <2>3. WriterOK' BY <2>1 DEF ConfigInv, WriterOK
    <2>4. AloneOK' BY <2>1 DEF ConfigInv, AloneOK, Kept, Busy
    <2>5. RestOK'
      <3> SUFFICES ASSUME NEW s \in Settings, Kept(s)' PROVE Agrees(s)'
        BY DEF RestOK
      <3>1. Kept(s) BY <2>1 DEF Kept
      <3>2. Busy(s)' = Busy(s) BY <2>1 DEF Busy
      <3>3. Agrees(s) BY <3>1 DEF ConfigInv, RestOK
      <3> QED BY <2>1, <3>2, <3>3 DEF Agrees
    <2>6. WorkOK'
      <3> SUFFICES ASSUME NEW u \in Updaters, update'[u].pc # "idle", Kept(update[u].setting)'
                   PROVE  Knows(u)'
        BY <2>1 DEF WorkOK
      <3>1. Knows(u) BY <2>1 DEF ConfigInv, WorkOK, Kept
      <3> QED BY <2>1, <3>1 DEF Knows
    <2> QED BY <2>2, <2>3, <2>4, <2>5, <2>6 DEF ConfigInv
  <1> QED BY <1>1, <1>2

(* The state is well typed, and only who is between reading config.json and *)
(* writing it holds config_write_lock (update_config_file).                 *)
THEOREM ConfigTypeCorrect == ConfigSpec => []ConfigTypeOK
  <1>1. ConfigInv => ConfigTypeOK
    BY DEF ConfigInv, TypesOK
  <1> QED BY <1>1, ConfigStarts, ConfigStep, PTL DEF ConfigSpec

(* Memory, config.json and what administrators were told agree on a setting *)
(* once its updates have ended, for any number of updates at a time.        *)
THEOREM SettingsStayInAgreement == ConfigSpec => []SettingsAgree
  <1>1. ConfigInv => SettingsAgree
    BY DEF ConfigInv, RestOK, Kept, SettingsAgree
  <1> QED BY <1>1, ConfigStarts, ConfigStep, PTL DEF ConfigSpec

-----------------------------------------------------------------------------
(* kiro_stats.json.                                                         *)

SaverRecord ==
    [pc : {"idle", "mark", "save", "write", "clear"}, kind : Counters, copy : Counts]

CountersOK ==
    /\ counted \in Counts /\ saved \in Counts
    /\ dirty \in BOOLEAN /\ due \in BOOLEAN /\ missed \in BOOLEAN /\ failed \in BOOLEAN
    /\ saver \in [Savers -> SaverRecord]

LockOK ==
    /\ saving = {t \in Savers : saver[t].pc \in {"write", "clear"}}
    /\ \A t, w \in saving : t = w

(* An update of the counter that has not come to its snapshot yet.          *)
Pending(k) == \E t \in Savers : saver[t].kind = k /\ saver[t].pc \in {"mark", "save"}
Marking(k) == \E t \in Savers : saver[t].kind = k /\ saver[t].pc = "mark"

(* A snapshot lies between the file and memory; what it lacks was counted   *)
(* after it.                                                                *)
CopyOK ==
    /\ \A k \in Counters : saved[k] <= counted[k]
    /\ \A t \in Savers : saver[t].pc = "write" =>
          /\ \A k \in Counters : saved[k] <= saver[t].copy[k] /\ saver[t].copy[k] <= counted[k]
          /\ missed \/ saver[t].copy = counted
          /\ \A k \in AtOnce : saver[t].copy[k] = counted[k] \/ Pending(k)
    /\ \A t \in Savers : saver[t].pc = "clear" => missed \/ saved = counted

(* What the file lacks, and why it will get there.                          *)
LackOK ==
    /\ \A k \in AtOnce :
          saved[k] = counted[k] \/ failed \/ Pending(k) \/ \E t \in Savers : saver[t].kind = k /\ saver[t].pc = "write"
    /\ \A k \in {"uses", "credits"} : saved[k] = counted[k] \/ dirty \/ missed \/ Marking(k)

SaverInv == CountersOK /\ LockOK /\ CopyOK /\ LackOK

-----------------------------------------------------------------------------

LEMMA NoCountsOK == NoCounts \in Counts /\ AtEase \in SaverRecord
  BY StatsAssumption DEF NoCounts, Counts, AtEase, SaverRecord, Counters

LEMMA SaverStarts == StatsInit => SaverInv
  <1> SUFFICES ASSUME StatsInit PROVE SaverInv
    OBVIOUS
  <1>1. \A t \in Savers : saver[t].pc = "idle"
    BY DEF StatsInit, AtEase
  <1>2. \A k \in Counters : saved[k] = 0 /\ counted[k] = 0
    BY DEF StatsInit, NoCounts
  <1>3. CountersOK
    BY NoCountsOK DEF StatsInit, CountersOK
  <1>4. LockOK
    BY <1>1 DEF StatsInit, LockOK
  <1>5. CopyOK /\ LackOK
    BY <1>1, <1>2 DEF CopyOK, LackOK, Counters, AtOnce
  <1> QED BY <1>3, <1>4, <1>5 DEF SaverInv

LEMMA OneTurn ==
    ASSUME CountersOK, NEW t \in Savers, NEW r \in SaverRecord, StatsTurn(t, r)
    PROVE  /\ saver' \in [Savers -> SaverRecord]
           /\ saver'[t] = r
           /\ \A w \in Savers : w # t => saver'[w] = saver[w]
  BY DEF CountersOK, StatsTurn

LEMMA CountHolds ==
    ASSUME SaverInv, NEW t \in Savers, NEW kind \in Counters, Count(t, kind)
    PROVE  SaverInv'
  <1> DEFINE r == [AtEase EXCEPT !.pc = "mark", !.kind = kind]
  <1>1. r \in SaverRecord /\ r.pc = "mark" /\ r.kind = kind
    BY NoCountsOK DEF AtEase, SaverRecord
  <1>2. /\ saver[t].pc = "idle" /\ StatsTurn(t, r) /\ counted \in Counts /\ saved \in Counts
        /\ counted' = [counted EXCEPT ![kind] = @ + 1] /\ counted[kind] < MaxCount
        /\ missed' = (missed \/ saving # {}) /\ UNCHANGED <<saved, dirty, due, saving, failed>>
    BY DEF Count, SaverInv, CountersOK
  <1> HIDE DEF r
  <1>3. counted' \in Counts /\ \A k \in Counters : counted'[k] = IF k = kind THEN counted[k] + 1 ELSE counted[k]
    BY <1>2, StatsAssumption DEF Counts
  <1>4. /\ saver' \in [Savers -> SaverRecord] /\ saver'[t] = r
        /\ \A w \in Savers : w # t => saver'[w] = saver[w]
    BY <1>1, <1>2, OneTurn DEF SaverInv
  <1>5. CountersOK'
    BY <1>2, <1>3, <1>4 DEF SaverInv, CountersOK
  <1>6. LockOK'
    BY <1>1, <1>2, <1>4 DEF SaverInv, LockOK
  <1>7. Pending(kind)' /\ Marking(kind)' /\ \A k \in Counters : (Pending(k) => Pending(k)') /\ (Marking(k) => Marking(k)')
    BY <1>1, <1>2, <1>4 DEF Pending, Marking
  <1>8. CopyOK'
    <2>1. \A k \in Counters : saved'[k] <= counted'[k]
      BY <1>2, <1>3, StatsAssumption DEF SaverInv, CopyOK, Counts
    <2>2. ASSUME NEW w \in Savers, saver'[w].pc = "write"
          PROVE  /\ \A k \in Counters : saved'[k] <= saver'[w].copy[k] /\ saver'[w].copy[k] <= counted'[k]
                 /\ missed' 
                 /\ \A k \in AtOnce : saver'[w].copy[k] = counted'[k] \/ Pending(k)'
      <3>1. w # t /\ saver'[w] = saver[w] /\ saver[w].copy \in Counts /\ saver[w].pc = "write" /\ w \in saving
        BY <2>2, <1>1, <1>4 DEF SaverInv, CountersOK, SaverRecord, LockOK
      <3>2. \A k \in Counters : saver[w].copy[k] \in 0..MaxCount /\ counted[k] \in 0..MaxCount
        BY <3>1, <1>2 DEF Counts
      <3>3. missed'
        BY <3>1, <1>2
      <3>4. \A k \in Counters : saved[k] <= saver[w].copy[k] /\ saver[w].copy[k] <= counted[k]
        BY <3>1 DEF SaverInv, CopyOK
      <3>5. \A k \in Counters : saved'[k] <= saver'[w].copy[k] /\ saver'[w].copy[k] <= counted'[k]
        BY <3>1, <3>2, <3>4, <1>2, <1>3, StatsAssumption
      <3>6. \A k \in AtOnce : saver'[w].copy[k] = counted'[k] \/ Pending(k)'
        BY <3>1, <1>3, <1>7 DEF SaverInv, CopyOK, AtOnce, Counters
      <3> QED BY <3>3, <3>5, <3>6
    <2>3. ASSUME NEW w \in Savers, saver'[w].pc = "clear" PROVE missed'
      BY <2>3, <1>1, <1>2, <1>4 DEF SaverInv, LockOK
    <2> QED BY <2>1, <2>2, <2>3 DEF CopyOK
  <1>9. LackOK'
    BY <1>2, <1>3, <1>4, <1>7 DEF SaverInv, LackOK, AtOnce, Counters
  <1> QED BY <1>5, <1>6, <1>8, <1>9 DEF SaverInv

LEMMA MarkHolds ==
    ASSUME SaverInv, NEW t \in Savers, Mark(t)
    PROVE  SaverInv'
  <1> DEFINE k0 == saver[t].kind
             r == IF saver[t].kind \in AtOnce \/ due THEN [saver[t] EXCEPT !.pc = "save"] ELSE AtEase
  <1>1. /\ saver[t] \in SaverRecord /\ saver[t].pc = "mark" /\ StatsTurn(t, r)
        /\ dirty' = (dirty \/ saver[t].kind # "reset")
        /\ UNCHANGED <<counted, saved, due, saving, missed, failed>>
    BY DEF Mark, SaverInv, CountersOK
  <1>2. r \in SaverRecord /\ r.pc \in {"save", "idle"}
        /\ (saver[t].kind \in AtOnce => r.pc = "save" /\ r.kind = saver[t].kind)
    BY <1>1, NoCountsOK DEF SaverRecord, AtEase
  <1> HIDE DEF r
  <1>3. /\ saver' \in [Savers -> SaverRecord] /\ saver'[t] = r
        /\ \A w \in Savers : w # t => saver'[w] = saver[w]
    BY <1>1, <1>2, OneTurn DEF SaverInv
  <1>4. CountersOK'
    BY <1>1, <1>3 DEF SaverInv, CountersOK
  <1>5. LockOK'
    BY <1>1, <1>2, <1>3 DEF SaverInv, LockOK
  <1>6. \A k \in AtOnce : Pending(k) => Pending(k)'
    BY <1>1, <1>2, <1>3 DEF Pending
  <1>7. CopyOK'
    BY <1>1, <1>2, <1>3, <1>6 DEF SaverInv, CopyOK
  <1>8. \A k \in {"uses", "credits"} : Marking(k) => Marking(k)' \/ dirty'
    BY <1>1, <1>2, <1>3 DEF Marking
  <1>9. ASSUME NEW k, NEW w \in Savers, saver[w].kind = k, saver[w].pc = "write"
        PROVE  saver'[w].kind = k /\ saver'[w].pc = "write"
    BY <1>1, <1>3, <1>9
  <1>10. LackOK'
    <2>1. \A k \in AtOnce : \/ saved'[k] = counted'[k] \/ failed' \/ Pending(k)'
                            \/ \E w \in Savers : saver'[w].kind = k /\ saver'[w].pc = "write"
      BY <1>1, <1>6, <1>9 DEF SaverInv, LackOK
    <2>2. \A k \in {"uses", "credits"} : saved'[k] = counted'[k] \/ dirty' \/ missed' \/ Marking(k)'
      BY <1>1, <1>8 DEF SaverInv, LackOK
    <2> QED BY <2>1, <2>2 DEF LackOK
  <1> QED BY <1>4, <1>5, <1>7, <1>10 DEF SaverInv

LEMMA SnapshotHolds ==
    ASSUME SaverInv, NEW t \in Savers, Snapshot(t)
    PROVE  SaverInv'
  <1> DEFINE r == [saver[t] EXCEPT !.pc = "write", !.copy = counted]
  <1>1. /\ saver[t] \in SaverRecord /\ saver[t].pc = "save" /\ StatsTurn(t, r)
        /\ counted \in Counts /\ saved \in Counts /\ saving = {} /\ saving' = {t}
        /\ UNCHANGED <<counted, saved, dirty, due, missed, failed>>
    BY DEF Snapshot, SaverInv, CountersOK
  <1>2. r \in SaverRecord /\ r.pc = "write" /\ r.copy = counted /\ r.kind = saver[t].kind
    BY <1>1 DEF SaverRecord
  <1> HIDE DEF r
  <1>3. /\ saver' \in [Savers -> SaverRecord] /\ saver'[t] = r
        /\ \A w \in Savers : w # t => saver'[w] = saver[w]
    BY <1>1, <1>2, OneTurn DEF SaverInv
  <1>4. CountersOK'
    BY <1>1, <1>3 DEF SaverInv, CountersOK
  <1>5. LockOK'
    BY <1>1, <1>2, <1>3 DEF SaverInv, LockOK
  <1>6. \A w \in Savers : saver'[w].pc \in {"write", "clear"} => w = t
    BY <1>1, <1>3 DEF SaverInv, LockOK
  <1>7. CopyOK'
    <2>1. \A k \in Counters : counted[k] \in 0..MaxCount
      BY <1>1 DEF Counts
    <2> QED BY <2>1, <1>1, <1>2, <1>3, <1>6, StatsAssumption DEF SaverInv, CopyOK
  <1>8. \A k \in {"uses", "credits"} : Marking(k) => Marking(k)'
    BY <1>1, <1>2, <1>3 DEF Marking
  <1>9. \A k \in AtOnce : Pending(k) => Pending(k)' \/ \E w \in Savers : saver'[w].kind = k /\ saver'[w].pc = "write"
    BY <1>1, <1>2, <1>3 DEF Pending
  <1>10. \A w \in Savers : saver[w].pc # "write"
    BY <1>1 DEF SaverInv, LockOK
  <1>11. LackOK'
    BY <1>1, <1>8, <1>9, <1>10 DEF SaverInv, LackOK
  <1> QED BY <1>4, <1>5, <1>7, <1>11 DEF SaverInv

LEMMA WriteHolds ==
    ASSUME SaverInv, NEW t \in Savers, WriteStats(t)
    PROVE  SaverInv'
  <1>1. /\ saver[t] \in SaverRecord /\ saver[t].pc = "write" /\ saver[t].copy \in Counts
        /\ counted \in Counts /\ saved \in Counts /\ saving = {t}
        /\ UNCHANGED <<counted, dirty, due, missed>>
    BY DEF WriteStats, SaverInv, CountersOK, LockOK, SaverRecord
  <1>2. \A w \in Savers : w # t => saver[w].pc \notin {"write", "clear"}
    BY <1>1 DEF SaverInv, LockOK
  <1>3. CASE saved' = saver[t].copy /\ failed' = FALSE
             /\ StatsTurn(t, [saver[t] EXCEPT !.pc = "clear"]) /\ UNCHANGED saving
    <2> DEFINE r == [saver[t] EXCEPT !.pc = "clear"]
    <2>1. r \in SaverRecord /\ r.pc = "clear" /\ StatsTurn(t, r)
      BY <1>1, <1>3 DEF SaverRecord
    <2> HIDE DEF r
    <2>2. /\ saver' \in [Savers -> SaverRecord] /\ saver'[t] = r
          /\ \A w \in Savers : w # t => saver'[w] = saver[w]
      BY <2>1, OneTurn DEF SaverInv
    <2>3. CountersOK' /\ LockOK'
      BY <1>1, <1>2, <1>3, <2>1, <2>2 DEF SaverInv, CountersOK, LockOK
    <2>4. \A k \in Counters : (Pending(k) => Pending(k)') /\ (Marking(k) => Marking(k)')
      BY <1>1, <2>1, <2>2 DEF Pending, Marking
    <2>5. CopyOK'
      BY <1>1, <1>2, <1>3, <2>1, <2>2 DEF SaverInv, CopyOK
    <2>6. LackOK'
      BY <1>1, <1>3, <2>2, <2>4 DEF SaverInv, CopyOK, LackOK, AtOnce, Counters
    <2> QED BY <2>3, <2>5, <2>6 DEF SaverInv
  <1>4. CASE failed' = TRUE /\ StatsTurn(t, AtEase) /\ saving' = {} /\ UNCHANGED saved
    <2>1. /\ saver' \in [Savers -> SaverRecord] /\ saver'[t] = AtEase /\ AtEase.pc = "idle"
          /\ \A w \in Savers : w # t => saver'[w] = saver[w]
      BY <1>4, NoCountsOK, OneTurn DEF SaverInv, AtEase
    <2>2. CountersOK' /\ LockOK'
      BY <1>1, <1>2, <1>4, <2>1 DEF SaverInv, CountersOK, LockOK
    <2>3. \A k \in Counters : (Pending(k) => Pending(k)') /\ (Marking(k) => Marking(k)')
      BY <1>1, <2>1 DEF Pending, Marking
    <2>4. CopyOK' /\ LackOK'
      BY <1>1, <1>2, <1>4, <2>1, <2>3 DEF SaverInv, CopyOK, LackOK, AtOnce, Counters
    <2> QED BY <2>2, <2>4 DEF SaverInv
  <1> QED BY <1>3, <1>4 DEF WriteStats

LEMMA ClearHolds ==
    ASSUME SaverInv, NEW t \in Savers, ClearFlag(t)
    PROVE  SaverInv'
  <1>1. /\ saver[t] \in SaverRecord /\ saver[t].pc = "clear" /\ saving = {t} /\ saving' = {}
        /\ counted \in Counts /\ saved \in Counts
        /\ due' = FALSE /\ dirty' = FALSE /\ missed' = (missed /\ counted # saved)
        /\ StatsTurn(t, AtEase) /\ UNCHANGED <<counted, saved, failed>>
    BY DEF ClearFlag, SaverInv, CountersOK, LockOK
  <1>2. \A w \in Savers : w # t => saver[w].pc \notin {"write", "clear"}
    BY <1>1 DEF SaverInv, LockOK
  <1>3. /\ saver' \in [Savers -> SaverRecord] /\ saver'[t] = AtEase /\ AtEase.pc = "idle"
        /\ \A w \in Savers : w # t => saver'[w] = saver[w]
    BY <1>1, NoCountsOK, OneTurn DEF SaverInv, AtEase
  <1>4. CountersOK' /\ LockOK'
    BY <1>1, <1>2, <1>3 DEF SaverInv, CountersOK, LockOK
  <1>5. \A k \in Counters : Pending(k) => Pending(k)'
    BY <1>1, <1>3 DEF Pending
  <1>6. CopyOK'
    BY <1>1, <1>2, <1>3 DEF SaverInv, CopyOK
  <1>7. missed' \/ saved = counted
    BY <1>1 DEF SaverInv, CopyOK
  <1>8. LackOK'
    BY <1>1, <1>2, <1>3, <1>5, <1>7 DEF SaverInv, LackOK, AtOnce, Counters
  <1> QED BY <1>4, <1>6, <1>8 DEF SaverInv

LEMMA SaverStep == SaverInv /\ [StatsNext]_statsVars => SaverInv'
  <1> SUFFICES ASSUME SaverInv, [StatsNext]_statsVars PROVE SaverInv'
    OBVIOUS
  <1>1. CASE DebounceEnds
    BY <1>1 DEF DebounceEnds, SaverInv, CountersOK, LockOK, CopyOK, LackOK, Pending, Marking
  <1>2. CASE UNCHANGED statsVars
    BY <1>2 DEF statsVars, SaverInv, CountersOK, LockOK, CopyOK, LackOK, Pending, Marking
  <1> QED BY <1>1, <1>2, CountHolds, MarkHolds, SnapshotHolds, WriteHolds, ClearHolds DEF StatsNext

(* One save at a time, and the state is well typed.                         *)
THEOREM StatsTypeCorrect == StatsSpec => []StatsTypeOK
  <1>1. ASSUME SaverInv PROVE StatsTypeOK
    <2>1. CASE saving = {}
      BY <1>1, <2>1, FS_EmptySet DEF SaverInv, CountersOK, LockOK, StatsTypeOK
    <2>2. CASE saving # {}
      <3>1. PICK t : saving = {t}
        BY <1>1, <2>2 DEF SaverInv, LockOK
      <3>2. Cardinality(saving) = 1
        BY <3>1, FS_Singleton
      <3> QED BY <1>1, <3>2 DEF SaverInv, CountersOK, LockOK, StatsTypeOK
    <2> QED BY <2>1, <2>2
  <1> QED BY <1>1, SaverStarts, SaverStep, PTL DEF StatsSpec

(* Whatever is counted gets into the file or is announced (save_stats,      *)
(* save_stats_debounced).                                                   *)
THEOREM StatsReachTheFile == StatsSpec => []StatsReachFile
  <1>1. ASSUME SaverInv PROVE StatsReachFile
    <2>1. ASSUME NEW k \in AtOnce, ~failed, \A t \in Savers : saver[t].kind # k \/ saver[t].pc = "idle"
          PROVE  saved[k] = counted[k]
      BY <1>1, <2>1 DEF SaverInv, LackOK, Pending
    <2>2. ASSUME \A t \in Savers : saver[t].pc = "idle", ~dirty, ~missed, NEW k \in {"uses", "credits"}
          PROVE  saved[k] = counted[k]
      BY <1>1, <2>2 DEF SaverInv, LackOK, Marking
    <2> QED BY <2>1, <2>2 DEF StatsReachFile
  <1> QED BY <1>1, SaverStarts, SaverStep, PTL DEF StatsSpec

(* No save puts older counts over newer ones.                               *)
THEOREM StatsOnlyMoveForward == StatsSpec => StatsForward
  <1>1. ASSUME SaverInv, [StatsNext]_statsVars
        PROVE  [\A k \in Counters : saved'[k] >= saved[k]]_statsVars
    <2>1. \A k \in Counters : saved[k] \in Int
      BY <1>1 DEF SaverInv, CountersOK, Counts
    <2>2. ASSUME NEW t \in Savers, WriteStats(t) PROVE \A k \in Counters : saved'[k] >= saved[k]
      <3>1. saver[t].copy \in Counts
        BY <1>1 DEF SaverInv, CountersOK, SaverRecord
      <3> QED BY <1>1, <2>1, <2>2, <3>1 DEF WriteStats, SaverInv, CopyOK, Counts
    <2>3. CASE UNCHANGED saved
      BY <2>1, <2>3
    <2> QED BY <1>1, <2>2, <2>3 DEF StatsNext, DebounceEnds, Count, Mark, Snapshot, ClearFlag
  <1> QED BY <1>1, SaverStarts, SaverStep, PTL DEF StatsSpec, StatsForward

-----------------------------------------------------------------------------
(* The executable and its backup.                                           *)

(* One update at a time, and none while the exit of the last is pending.    *)
OneUpdate == (\A u, w \in Workers : u = w) /\ ~Fault("hurry")

StagedFiles == {Staged(0, v) : v \in Releases}
FileRecord == [v : Nat, state : {"none", "whole", "torn"} \cup Workers]
JobRecord ==
    [op : {"none", "pull", "apply", "rollback"},
     at : {"idle", "ask", "fetch", "copy", "tidy", "unbackup", "away", "in", "note",
           "unpark", "park", "restore", "forget"},
     n : {0}, v : Nat]

UpdateTypes ==
    /\ disk \in [Files -> FileRecord]
    /\ running \in [file : Files \cup {Nowhere}, v : Nat]
    /\ published \in Releases
    /\ label \in [mem : Nat \cup {NoVersion}, file : Nat \cup {NoVersion}]
    /\ job \in [Workers -> JobRecord]

(* What is under way keeps its target, and the process.                     *)
JobsOK ==
    \A w \in Workers :
        /\ job[w].at = "idle" => job[w] = Idle
        /\ job[w].at # "idle" => running # Stopped /\ ~exiting
        /\ job[w].at \in {"fetch", "copy", "tidy", "unbackup", "away", "in", "note"} =>
              job[w].v \in Releases

(* Only a staged file is half copied, and by who copies it.                 *)
CopiesStaged ==
    \A f \in Files : disk[f].state \in Workers =>
        f \in StagedFiles /\ job[disk[f].state].at = "copy"

(* Where the process's own executable is at each place of a job.            *)
Own(f) == running.file = f /\ disk[f] = Whole(running.v)
PlaceOK(w) ==
    /\ job[w].at \in {"in", "note"} => disk[Exe(1)] = Whole(running.v)
    /\ job[w].at = "in" => running.file = Exe(1) /\ disk[Exe(0)] = NoFile
    /\ job[w].at = "restore" => Own(Parked(0)) /\ disk[Exe(0)] = NoFile
    /\ job[w].at = "forget" => disk[Exe(0)].state = "whole" /\ disk[Exe(1)] = NoFile
InPlace ==
    running # Stopped /\ ~exiting
        /\ (\A w \in Workers : job[w].at \notin {"in", "note", "restore", "forget"}) => Own(Exe(0))

BackupWhole == disk[Exe(1)] = NoFile \/ disk[Exe(1)].state = "whole"
SomeWhole == \E f \in {Exe(0), Exe(1), Parked(0)} : disk[f].state = "whole"

(* What is noted of the backup.                                             *)
LabelOK ==
    ~unnoted =>
      /\ label.mem \in {label.file, NoVersion}
      /\ (\A w \in Workers : job[w].at \notin {"in", "note"}) =>
            label.file = NoVersion \/ disk[Exe(1)] \in {NoFile, Whole(label.file)}

UpdateInv ==
    /\ UpdateTypes /\ JobsOK /\ CopiesStaged /\ (\A w \in Workers : PlaceOK(w)) /\ InPlace
    /\ BackupWhole /\ SomeWhole /\ LabelOK

LEMMA FileNames ==
    /\ {Exe(0), Exe(1), Parked(0)} \subseteq Files /\ StagedFiles \subseteq Files
    /\ Exe(0) # Exe(1) /\ Exe(0) # Parked(0) /\ Exe(1) # Parked(0)
    /\ {Exe(0), Exe(1), Parked(0)} \cap StagedFiles = {}
    /\ Nowhere \notin Files
<1>1. 0 \in 0 .. MaxDepth /\ 1 \in 0 .. MaxDepth BY UpdateAssumption
<1>2. {Exe(0), Exe(1), Parked(0)} \subseteq {"exe", "parked"} \X (0 .. MaxDepth)
  BY <1>1 DEF Exe, Parked
<1>3. ASSUME NEW v \in Releases PROVE Staged(0, v) \in {"staged"} \X (0 .. MaxDepth) \X Releases
  BY <1>1 DEF Staged
<1>4. Exe(0) # Exe(1) /\ Exe(0) # Parked(0) /\ Exe(1) # Parked(0) BY DEF Exe, Parked
<1>5. ASSUME NEW v \in Releases PROVE Staged(0, v) \notin {Exe(0), Exe(1), Parked(0)}
  BY DEF Staged, Exe, Parked
<1>6. Nowhere \notin {"exe", "parked"} \X (0 .. MaxDepth) BY DEF Nowhere
<1>7. Nowhere \notin {"staged"} \X (0 .. MaxDepth) \X Releases BY DEF Nowhere
<1>8. QED BY <1>2, <1>3, <1>4, <1>5, <1>6, <1>7 DEF Files, StagedFiles

LEMMA UpdateStarts == UpdateInit => UpdateInv
<1> SUFFICES ASSUME UpdateInit PROVE UpdateInv OBVIOUS
<1>1. /\ disk = [f \in Files |-> IF f = Exe(0) THEN Whole(1) ELSE NoFile]
      /\ running = [file |-> Exe(0), v |-> 1] /\ published = 1
      /\ label = [mem |-> NoVersion, file |-> NoVersion]
      /\ \A w \in Workers : job[w] = Idle
  BY DEF UpdateInit
<1>2. Idle \in JobRecord /\ Idle.at = "idle" BY DEF Idle, JobRecord
<1>3. Whole(1) \in FileRecord /\ NoFile \in FileRecord BY DEF Whole, NoFile, FileRecord
<1>4. \A f \in Files : disk[f].state \in {"whole", "none"} BY <1>1 DEF Whole, NoFile
<1>5. UpdateTypes BY <1>1, <1>2, <1>3, FileNames, UpdateAssumption DEF UpdateTypes, UpdateInit
<1>6. JobsOK /\ \A w \in Workers : PlaceOK(w) BY <1>1, <1>2 DEF JobsOK, PlaceOK
<1>7. CopiesStaged BY <1>4, UpdateAssumption DEF CopiesStaged
<1>8. InPlace /\ BackupWhole /\ SomeWhole /\ LabelOK
  BY <1>1, FileNames DEF InPlace, BackupWhole, SomeWhole, LabelOK, Own, Whole
<1>9. QED BY <1>5, <1>6, <1>7, <1>8 DEF UpdateInv

-----------------------------------------------------------------------------
LEMMA Relocated ==
    ASSUME UpdateTypes, NEW from \in Files, NEW to \in Files, from # to, Rename(from, to)
    PROVE  /\ disk' \in [Files -> FileRecord]
           /\ disk'[to] = disk[from] /\ disk'[from] = NoFile
           /\ \A f \in Files \ {from, to} : disk'[f] = disk[f]
           /\ running' \in [file : Files \cup {Nowhere}, v : Nat] /\ running'.v = running.v
           /\ running.file = from => running'.file = to
           /\ running.file \notin {from, to} => running'.file = running.file
<1>1. NoFile \in FileRecord BY DEF NoFile, FileRecord
<1>2. disk \in [Files -> FileRecord] /\ running \in [file : Files \cup {Nowhere}, v : Nat]
  BY DEF UpdateTypes
<1>3. disk' = [disk EXCEPT ![to] = disk[from], ![from] = NoFile] BY DEF Rename
<1>4. running' = [running EXCEPT !.file =
          CASE running.file = from -> to [] running.file = to -> Nowhere [] OTHER -> running.file]
  BY DEF Rename
<1>5. QED BY <1>1, <1>2, <1>3, <1>4

LEMMA Removed ==
    ASSUME UpdateTypes, NEW S, RemoveFiles(S)
    PROVE  /\ disk' \in [Files -> FileRecord]
           /\ \A f \in Files : disk'[f] = IF f \in S THEN NoFile ELSE disk[f]
           /\ running' \in [file : Files \cup {Nowhere}, v : Nat] /\ running'.v = running.v
           /\ running.file \notin S => running'.file = running.file
<1>1. NoFile \in FileRecord BY DEF NoFile, FileRecord
<1>2. disk \in [Files -> FileRecord] /\ running \in [file : Files \cup {Nowhere}, v : Nat]
  BY DEF UpdateTypes
<1>3. QED BY <1>1, <1>2 DEF RemoveFiles

LEMMA GoesTo ==
    ASSUME UpdateTypes, NEW w \in Workers, NEW at, To(w, at),
           at \in {"fetch", "copy", "tidy", "unbackup", "away", "in", "note",
                   "park", "restore", "forget"}
    PROVE  /\ job' \in [Workers -> JobRecord]
           /\ job'[w].at = at /\ job'[w].v = job[w].v
<1>1. job \in [Workers -> JobRecord] BY DEF UpdateTypes
<1>2. [job[w] EXCEPT !.at = at] \in JobRecord BY <1>1 DEF JobRecord
<1>3. job' = [job EXCEPT ![w] = [job[w] EXCEPT !.at = at]] BY DEF To
<1>4. job'[w] = [job[w] EXCEPT !.at = at] BY <1>1, <1>3
<1>5. QED BY <1>1, <1>2, <1>3, <1>4 DEF JobRecord

LEMMA GoesHome ==
    ASSUME UpdateTypes, NEW w \in Workers, Ends(w)
    PROVE  job' \in [Workers -> JobRecord] /\ job'[w] = Idle /\ job'[w].at = "idle"
<1>1. job \in [Workers -> JobRecord] BY DEF UpdateTypes
<1>2. Idle \in JobRecord /\ Idle.at = "idle" BY DEF Idle, JobRecord
<1>3. QED BY <1>1, <1>2 DEF Ends

(* With one worker, what it does next says all of the jobs.                 *)
NextJobOK(w) ==
    /\ job' \in [Workers -> JobRecord]
    /\ job'[w].at = "idle" => job'[w] = Idle
    /\ job'[w].at # "idle" => running' # Stopped /\ ~exiting'
    /\ job'[w].at \in {"fetch", "copy", "tidy", "unbackup", "away", "in", "note"} =>
          job'[w].v \in Releases

LEMMA Together ==
    ASSUME OneUpdate, NEW w \in Workers, NextJobOK(w), UpdateTypes', CopiesStaged', PlaceOK(w)',
           running' # Stopped /\ ~exiting' /\ job'[w].at \notin {"in", "note", "restore", "forget"}
              => Own(Exe(0))',
           BackupWhole', SomeWhole',
           ~unnoted' => /\ label'.mem \in {label'.file, NoVersion}
                        /\ job'[w].at \notin {"in", "note"} =>
                              label'.file = NoVersion \/ disk'[Exe(1)] \in {NoFile, Whole(label'.file)}
    PROVE  UpdateInv'
<1>1. \A u \in Workers : u = w BY DEF OneUpdate
<1>2. JobsOK' BY <1>1 DEF JobsOK, NextJobOK
<1>3. \A u \in Workers : PlaceOK(u)' BY <1>1
<1>4. InPlace' BY <1>1 DEF InPlace
<1>5. LabelOK' BY <1>1 DEF LabelOK
<1>6. QED BY <1>2, <1>3, <1>4, <1>5 DEF UpdateInv

(* Before anything is renamed the executable is the process's own.          *)
LEMMA Standing ==
    ASSUME OneUpdate, UpdateInv, NEW w \in Workers, running # Stopped, ~exiting,
           job[w].at \notin {"in", "note", "restore", "forget"}
    PROVE  Own(Exe(0)) /\ disk[Exe(0)].state = "whole"
<1>1. \A u \in Workers : u = w BY DEF OneUpdate
<1>2. Own(Exe(0)) BY <1>1 DEF UpdateInv, InPlace
<1>3. QED BY <1>2 DEF Own, Whole

LEMMA NothingCopied ==
    ASSUME OneUpdate, UpdateInv, NEW w \in Workers, job[w].at # "copy"
    PROVE  \A f \in Files : disk[f].state \notin Workers
<1>1. \A u \in Workers : u = w BY DEF OneUpdate
<1>2. QED BY <1>1 DEF UpdateInv, CopiesStaged

LEMMA AtWork ==
    ASSUME UpdateInv, NEW w \in Workers, NEW op, NEW at, Is(w, op, at), at # "idle"
    PROVE  /\ job[w].at = at /\ job[w].op \in op /\ job[w].n = 0 /\ job[w].n + 1 = 1
           /\ running # Stopped /\ ~exiting
           /\ at \in {"fetch", "copy", "tidy", "unbackup", "away", "in", "note"} => job[w].v \in Releases
<1>1. job[w].at = at /\ job[w].op \in op BY DEF Is
<1>2. job[w] \in JobRecord BY DEF UpdateInv, UpdateTypes
<1>3. QED BY <1>1, <1>2 DEF UpdateInv, JobsOK, JobRecord

(* Steps that leave the files alone.                                        *)
LEMMA FilesStay ==
    ASSUME OneUpdate, UpdateInv, NEW w \in Workers, NextJobOK(w),
           job[w].at \notin {"copy", "in", "note", "restore", "forget"},
           job'[w].at \notin {"in", "note", "restore", "forget"},
           UNCHANGED <<disk, running>>, UpdateRest
    PROVE  UpdateInv'
<1>1. UNCHANGED <<published, label, exiting, unnoted>> BY DEF UpdateRest
<1>2. UpdateTypes' BY <1>1 DEF UpdateInv, UpdateTypes, NextJobOK
<1>3. \A f \in Files : disk'[f].state \notin Workers BY NothingCopied
<1>4. CopiesStaged' BY <1>3 DEF CopiesStaged
<1>5. PlaceOK(w)' BY DEF PlaceOK
<1>6. ASSUME running' # Stopped, ~exiting' PROVE Own(Exe(0))'
  BY <1>1, <1>6, Standing DEF Own
<1>7. BackupWhole' /\ SomeWhole' BY DEF UpdateInv, BackupWhole, SomeWhole
<1>8. \A u \in Workers : job[u].at \notin {"in", "note"} BY DEF OneUpdate
<1>9. ~unnoted' => /\ label'.mem \in {label'.file, NoVersion}
                   /\ label'.file = NoVersion \/ disk'[Exe(1)] \in {NoFile, Whole(label'.file)}
  BY <1>1, <1>8 DEF UpdateInv, LabelOK
<1>10. QED BY <1>2, <1>4, <1>5, <1>6, <1>7, <1>9, Together

(* Steps that disturb no file but staged ones.                              *)
LEMMA OnlyStaged ==
    ASSUME OneUpdate, UpdateInv, NEW w \in Workers, NextJobOK(w), running # Stopped, ~exiting,
           job[w].at \notin {"in", "note", "restore", "forget"},
           job'[w].at \notin {"in", "note", "restore", "forget"},
           disk' \in [Files -> FileRecord], CopiesStaged',
           \A f \in {Exe(0), Exe(1), Parked(0)} : disk'[f] = disk[f],
           running' \in [file : Files \cup {Nowhere}, v : Nat], running'.v = running.v,
           running.file = Exe(0) => running'.file = Exe(0), UpdateRest
    PROVE  UpdateInv'
<1>1. UNCHANGED <<published, label, exiting, unnoted>> BY DEF UpdateRest
<1>2. UpdateTypes' BY <1>1 DEF UpdateInv, UpdateTypes, NextJobOK
<1>3. Own(Exe(0)) BY Standing
<1>4. Own(Exe(0))' BY <1>3 DEF Own
<1>5. PlaceOK(w)' BY DEF PlaceOK
<1>6. BackupWhole' /\ SomeWhole' BY DEF UpdateInv, BackupWhole, SomeWhole
<1>7. \A u \in Workers : job[u].at \notin {"in", "note"} BY DEF OneUpdate
<1>8. ~unnoted' => /\ label'.mem \in {label'.file, NoVersion}
                   /\ label'.file = NoVersion \/ disk'[Exe(1)] \in {NoFile, Whole(label'.file)}
  BY <1>1, <1>7 DEF UpdateInv, LabelOK
<1>9. QED BY <1>2, <1>4, <1>5, <1>6, <1>8, Together

LEMMA BeginKeeps ==
    ASSUME OneUpdate, UpdateInv, NEW w \in Workers, NEW op \in {"pull", "apply", "rollback"},
           BeginUpdate(w, op)
    PROVE  UpdateInv'
<1>1. job[w] = Idle /\ running # Stopped /\ ~exiting
  BY DEF BeginUpdate, OneUpdate
<1>2. job[w].at = "idle" BY <1>1 DEF Idle
<1>3. running.file = Exe(0) BY <1>1, <1>2, Standing DEF Own
<1>4. PICK n \in 0 .. MaxDepth - 1 :
          /\ running.file = Exe(n)
          /\ job' = [job EXCEPT ![w] =
                [op |-> op, at |-> IF op = "rollback" THEN "unpark" ELSE "ask", n |-> n, v |-> 0]]
  BY DEF BeginUpdate
<1>5. n = 0 BY <1>3, <1>4 DEF Exe
<1>6. job \in [Workers -> JobRecord] BY DEF UpdateInv, UpdateTypes
<1>7. job'[w] = [op |-> op, at |-> IF op = "rollback" THEN "unpark" ELSE "ask", n |-> 0, v |-> 0]
  BY <1>4, <1>5, <1>6
<1>8. job'[w] \in JobRecord /\ job'[w].at \in {"unpark", "ask"} BY <1>7 DEF JobRecord
<1>9. job' \in [Workers -> JobRecord] BY <1>4, <1>6, <1>7, <1>8
<1>10. UNCHANGED <<disk, running, exiting>> /\ UpdateRest BY DEF BeginUpdate, UpdateRest
<1>11. NextJobOK(w) BY <1>1, <1>8, <1>9, <1>10 DEF NextJobOK
<1>12. QED BY <1>2, <1>8, <1>10, <1>11, FilesStay

LEMMA ResolveKeeps ==
    ASSUME OneUpdate, UpdateInv, NEW w \in Workers, Resolve(w)
    PROVE  UpdateInv'
<1>1. UpdateTypes /\ Is(w, {"pull", "apply"}, "ask") /\ UNCHANGED <<disk, running>> /\ UpdateRest
  BY DEF UpdateInv, Resolve
<1>2. job[w].at = "ask" /\ running # Stopped /\ ~exiting BY <1>1, AtWork
<1>3. running' # Stopped /\ ~exiting' BY <1>1, <1>2 DEF UpdateRest
<1>4. CASE Ends(w)
  <2>1. NextJobOK(w) /\ job'[w].at = "idle" BY <1>1, <1>4, GoesHome DEF NextJobOK
  <2>2. QED BY <1>1, <1>2, <2>1, FilesStay
<1>5. CASE job' = [job EXCEPT ![w].v = published,
                              ![w].at = IF Exists(Staged(job[w].n, published)) THEN "tidy" ELSE "fetch"]
  <2>1. job \in [Workers -> JobRecord] /\ published \in Releases BY <1>1 DEF UpdateTypes
  <2> DEFINE next == IF Exists(Staged(job[w].n, published)) THEN "tidy" ELSE "fetch"
             onward == [[job[w] EXCEPT !.v = published] EXCEPT !.at = next]
  <2>2. next \in {"tidy", "fetch"} OBVIOUS
  <2>3. onward \in JobRecord /\ onward.at = next /\ onward.v = published
    <3> HIDE DEF next
    <3>1. job[w] \in JobRecord /\ published \in Nat BY <2>1, UpdateAssumption
    <3>2. QED BY <2>2, <3>1 DEF JobRecord
  <2>4. job' = [job EXCEPT ![w] = onward] BY <1>5, <2>1
  <2> HIDE DEF onward, next
  <2>5. job'[w] = onward /\ job' \in [Workers -> JobRecord] BY <2>1, <2>3, <2>4
  <2>6. NextJobOK(w) BY <1>3, <2>1, <2>2, <2>3, <2>5 DEF NextJobOK
  <2>7. job'[w].at \notin {"in", "note", "restore", "forget"} BY <2>2, <2>3, <2>5
  <2>8. QED BY <1>1, <1>2, <2>6, <2>7, FilesStay
<1>6. QED BY <1>4, <1>5 DEF Resolve

LEMMA FetchKeeps ==
    ASSUME OneUpdate, UpdateInv, NEW w \in Workers, Fetch(w)
    PROVE  UpdateInv'
<1>1. UpdateTypes /\ Is(w, {"pull", "apply"}, "fetch") /\ running' = running /\ UpdateRest
  BY DEF UpdateInv, Fetch
<1>2. job[w].at = "fetch" /\ job[w].n = 0 /\ running # Stopped /\ ~exiting /\ job[w].v \in Releases
  BY <1>1, AtWork
<1>3. running' # Stopped /\ ~exiting' BY <1>1, <1>2 DEF UpdateRest
<1>4. CASE Ends(w) /\ UNCHANGED disk
  <2>1. NextJobOK(w) /\ job'[w].at = "idle" BY <1>1, <1>4, GoesHome DEF NextJobOK
  <2>2. QED BY <1>1, <1>2, <1>4, <2>1, FilesStay
<1>5. CASE /\ To(w, "copy")
           /\ disk' = [disk EXCEPT ![Staged(job[w].n, job[w].v)] = [v |-> job[w].v, state |-> w]]
  <2> DEFINE s == Staged(0, job[w].v)
  <2>1. job' \in [Workers -> JobRecord] /\ job'[w].at = "copy" /\ job'[w].v = job[w].v
    BY <1>1, <1>5, GoesTo
  <2>2. NextJobOK(w) BY <1>2, <1>3, <2>1 DEF NextJobOK
  <2>3. s \in StagedFiles BY <1>2 DEF StagedFiles
  <2>4. s \in Files /\ s \notin {Exe(0), Exe(1), Parked(0)} BY <2>3, FileNames
  <2>5. disk' = [disk EXCEPT ![s] = [v |-> job[w].v, state |-> w]] BY <1>2, <1>5
  <2> HIDE DEF s
  <2>6. disk \in [Files -> FileRecord] BY <1>1 DEF UpdateTypes
  <2>7. [v |-> job[w].v, state |-> w] \in FileRecord BY <1>2, UpdateAssumption DEF FileRecord
  <2>8. /\ disk' \in [Files -> FileRecord] /\ disk'[s] = [v |-> job[w].v, state |-> w]
        /\ \A f \in Files \ {s} : disk'[f] = disk[f]
    BY <2>4, <2>5, <2>6, <2>7
  <2>9. \A f \in Files : disk[f].state \notin Workers BY <1>2, NothingCopied
  <2>10. CopiesStaged'
    <3>1. ASSUME NEW f \in Files, disk'[f].state \in Workers
          PROVE  f \in StagedFiles /\ job'[disk'[f].state].at = "copy"
      <4>1. f = s BY <2>8, <2>9, <3>1
      <4>2. disk'[f].state = w BY <2>8, <4>1
      <4>3. QED BY <2>1, <2>3, <4>1, <4>2
    <3>2. QED BY <3>1 DEF CopiesStaged, StagedFiles
  <2>11. \A f \in {Exe(0), Exe(1), Parked(0)} : disk'[f] = disk[f] BY <2>4, <2>8, FileNames
  <2>12. running' \in [file : Files \cup {Nowhere}, v : Nat] BY <1>1 DEF UpdateTypes
  <2>13. QED BY <1>1, <1>2, <2>1, <2>2, <2>8, <2>10, <2>11, <2>12, OnlyStaged
<1>6. QED BY <1>4, <1>5 DEF Fetch

LEMMA CopyKeeps ==
    ASSUME OneUpdate, UpdateInv, NEW w \in Workers, Copy(w)
    PROVE  UpdateInv'
<1>1. UpdateTypes /\ Is(w, {"pull", "apply"}, "copy") /\ running' = running /\ UpdateRest
  BY DEF UpdateInv, Copy
<1>2. job[w].at = "copy" /\ running # Stopped /\ ~exiting /\ job[w].v \in Releases
  BY <1>1, AtWork
<1>3. running' # Stopped /\ ~exiting' BY <1>1, <1>2 DEF UpdateRest
<1>4. PICK state \in {"torn", "whole"} : Copied(w, state) /\ (Ends(w) \/ To(w, "tidy"))
  BY DEF Copy
<1>5. /\ job' \in [Workers -> JobRecord] /\ job'[w].at \in {"idle", "tidy"}
      /\ job'[w].at = "idle" => job'[w] = Idle
      /\ job'[w].at = "tidy" => job'[w].v = job[w].v
  BY <1>1, <1>4, GoesTo, GoesHome
<1>6. NextJobOK(w) BY <1>2, <1>3, <1>5 DEF NextJobOK
<1>7. disk \in [Files -> FileRecord] BY <1>1 DEF UpdateTypes
<1>8. \A f \in Files : disk'[f] = IF disk[f].state = w THEN [disk[f] EXCEPT !.state = state] ELSE disk[f]
  BY <1>4 DEF Copied
<1>9. \A f \in Files : disk'[f] \in FileRecord BY <1>7, <1>8 DEF FileRecord
<1>10. disk' \in [Files -> FileRecord] BY <1>4, <1>9 DEF Copied
<1>11. \A f \in Files : disk'[f].state \notin Workers
  <2>1. \A u \in Workers : u = w BY DEF OneUpdate
  <2>2. state \notin Workers BY <1>4, UpdateAssumption
  <2>3. TAKE f \in Files
  <2>4. CASE disk[f].state = w
    <3>1. disk[f] \in [v : Nat, state : {"none", "whole", "torn"} \cup Workers]
      BY <1>7 DEF FileRecord
    <3>2. disk'[f].state = state BY <1>8, <2>4, <3>1
    <3>3. QED BY <2>2, <3>2
  <2>5. CASE disk[f].state # w BY <1>8, <2>1, <2>5
  <2>6. QED BY <2>4, <2>5
<1>12. CopiesStaged' BY <1>11 DEF CopiesStaged
<1>13. \A f \in {Exe(0), Exe(1), Parked(0)} : disk'[f] = disk[f]
  BY <1>8, FileNames DEF UpdateInv, CopiesStaged
<1>14. running' \in [file : Files \cup {Nowhere}, v : Nat] BY <1>1 DEF UpdateTypes
<1>15. QED BY <1>1, <1>2, <1>5, <1>6, <1>10, <1>12, <1>13, <1>14, OnlyStaged

(* Files moved or removed are not being copied.                             *)
LEMMA RenameCopiesNone ==
    ASSUME OneUpdate, UpdateInv, NEW w \in Workers, job[w].at # "copy",
           NEW from \in Files, NEW to \in Files, from # to, Rename(from, to)
    PROVE  CopiesStaged'
<1>1. \A f \in Files : disk[f].state \notin Workers BY NothingCopied
<1>2. NoFile.state \notin Workers BY UpdateAssumption DEF NoFile
<1>3. \A f \in Files : disk'[f] = NoFile \/ \E g \in Files : disk'[f] = disk[g]
  BY Relocated DEF UpdateInv
<1>4. QED BY <1>1, <1>2, <1>3 DEF CopiesStaged

LEMMA RemoveCopiesNone ==
    ASSUME OneUpdate, UpdateInv, NEW w \in Workers, job[w].at # "copy", NEW S, RemoveFiles(S)
    PROVE  CopiesStaged'
<1>1. \A f \in Files : disk[f].state \notin Workers BY NothingCopied
<1>2. NoFile.state \notin Workers BY UpdateAssumption DEF NoFile
<1>3. \A f \in Files : disk'[f] = NoFile \/ disk'[f] = disk[f] BY Removed DEF UpdateInv
<1>4. QED BY <1>1, <1>2, <1>3 DEF CopiesStaged

LEMMA TidyKeeps ==
    ASSUME OneUpdate, UpdateInv, NEW w \in Workers, Tidy(w)
    PROVE  UpdateInv'
<1>1. UpdateTypes /\ Is(w, {"pull", "apply"}, "tidy") /\ UpdateRest BY DEF UpdateInv, Tidy
<1>2. job[w].at = "tidy" /\ job[w].n = 0 /\ running # Stopped /\ ~exiting /\ job[w].v \in Releases
  BY <1>1, AtWork
<1>3. /\ job' \in [Workers -> JobRecord] /\ job'[w].at \in {"idle", "unbackup"}
      /\ job'[w].at = "idle" => job'[w] = Idle
      /\ job'[w].at = "unbackup" => job'[w].v = job[w].v
  BY <1>1, GoesTo, GoesHome DEF Tidy
<1> DEFINE S == StagedBut(0, job[w].v)
<1>4. S \subseteq StagedFiles BY DEF StagedBut, StagedFiles
<1>5. {Exe(0), Exe(1), Parked(0)} \cap S = {} BY <1>4, FileNames
<1>6. RemoveFiles(S) BY <1>2 DEF Tidy
<1> HIDE DEF S
<1>7. CopiesStaged' BY <1>2, <1>6, RemoveCopiesNone
<1>8. /\ disk' \in [Files -> FileRecord]
      /\ \A f \in {Exe(0), Exe(1), Parked(0)} : disk'[f] = disk[f]
      /\ running' \in [file : Files \cup {Nowhere}, v : Nat] /\ running'.v = running.v
      /\ running.file = Exe(0) => running'.file = Exe(0)
  BY <1>1, <1>5, <1>6, Removed, FileNames
<1>9. running' # Stopped /\ ~exiting'
  <2>1. running.file = Exe(0) BY <1>2, Standing DEF Own
  <2>2. QED BY <1>1, <1>2, <1>8, <2>1, FileNames DEF Stopped, UpdateRest
<1>10. NextJobOK(w) BY <1>2, <1>3, <1>9 DEF NextJobOK
<1>11. QED BY <1>1, <1>2, <1>3, <1>7, <1>8, <1>10, OnlyStaged

-----------------------------------------------------------------------------
(* Steps that rename the executable, its backup or the file put aside.      *)
LEMMA Renames ==
    ASSUME OneUpdate, UpdateInv, NEW w \in Workers, NEW at, UpdateRest,
           disk' \in [Files -> FileRecord], running' \in [file : Files \cup {Nowhere}, v : Nat],
           running'.file \in Files, CopiesStaged', ~exiting,
           \/ Ends(w) /\ Own(Exe(0))'
           \/ /\ To(w, at) /\ at \in {"away", "in", "note", "park", "restore", "forget"}
              /\ at \in {"away", "in", "note"} => job[w].v \in Releases
              /\ at \in {"away", "park"} => Own(Exe(0))',
           PlaceOK(w)', BackupWhole', SomeWhole',
           ~unnoted /\ job'[w].at \notin {"in", "note"} =>
              label.file = NoVersion \/ disk'[Exe(1)] \in {NoFile, Whole(label.file)}
    PROVE  UpdateInv'
<1>1. UNCHANGED <<published, label, exiting, unnoted>> BY DEF UpdateRest
<1>2. UpdateTypes BY DEF UpdateInv
<1>3. running' # Stopped /\ ~exiting' BY <1>1, FileNames DEF Stopped
<1>4. NextJobOK(w) /\ (job'[w].at \notin {"in", "note", "restore", "forget"} => Own(Exe(0))')
  <2>1. CASE Ends(w) /\ Own(Exe(0))' BY <1>2, <1>3, <2>1, GoesHome DEF NextJobOK
  <2>2. CASE /\ To(w, at) /\ at \in {"away", "in", "note", "park", "restore", "forget"}
             /\ at \in {"away", "in", "note"} => job[w].v \in Releases
             /\ at \in {"away", "park"} => Own(Exe(0))'
    <3>1. job' \in [Workers -> JobRecord] /\ job'[w].at = at /\ job'[w].v = job[w].v
      BY <1>2, <2>2, GoesTo
    <3>2. NextJobOK(w) BY <1>3, <2>2, <3>1 DEF NextJobOK
    <3>3. QED BY <2>2, <3>1, <3>2
  <2>3. QED BY <2>1, <2>2
<1>5. UpdateTypes' BY <1>1, <1>2, <1>4 DEF UpdateTypes, NextJobOK
<1>6. ~unnoted => label.mem \in {label.file, NoVersion} BY DEF UpdateInv, LabelOK
<1>7. ~unnoted' => /\ label'.mem \in {label'.file, NoVersion}
                   /\ job'[w].at \notin {"in", "note"} =>
                         label'.file = NoVersion \/ disk'[Exe(1)] \in {NoFile, Whole(label'.file)}
  BY <1>1, <1>6
<1>8. QED BY <1>4, <1>5, <1>7, Together

LEMMA Noting ==
    ASSUME OneUpdate, UpdateInv, NEW w \in Workers, job[w].at \notin {"in", "note"}, ~unnoted
    PROVE  label.file = NoVersion \/ disk[Exe(1)] \in {NoFile, Whole(label.file)}
<1>1. \A u \in Workers : job[u].at \notin {"in", "note"} BY DEF OneUpdate
<1>2. QED BY <1>1 DEF UpdateInv, LabelOK

LEMMA UnbackupKeeps ==
    ASSUME OneUpdate, UpdateInv, NEW w \in Workers, Unbackup(w)
    PROVE  UpdateInv'
<1>1. UpdateTypes /\ Is(w, {"apply"}, "unbackup") /\ UpdateRest /\ To(w, "away")
  BY DEF UpdateInv, Unbackup
<1>2. /\ job[w].at = "unbackup" /\ job[w].n + 1 = 1 /\ running # Stopped /\ ~exiting
      /\ job[w].v \in Releases
  BY <1>1, AtWork
<1>3. RemoveFiles({Exe(1)}) BY <1>2 DEF Unbackup
<1>4. CopiesStaged' BY <1>2, <1>3, RemoveCopiesNone
<1>5. Own(Exe(0)) BY <1>2, Standing
<1>6. /\ disk' \in [Files -> FileRecord] /\ running' \in [file : Files \cup {Nowhere}, v : Nat]
      /\ disk'[Exe(1)] = NoFile /\ disk'[Exe(0)] = disk[Exe(0)] /\ running'.v = running.v
      /\ running'.file = Exe(0)
  BY <1>1, <1>3, <1>5, Removed, FileNames DEF Own
<1>7. Own(Exe(0))' BY <1>5, <1>6 DEF Own
<1>8. BackupWhole' /\ SomeWhole' BY <1>6, <1>7 DEF BackupWhole, SomeWhole, Own, Whole
<1>9. job'[w].at = "away" BY <1>1, GoesTo
<1>10. PlaceOK(w)' BY <1>9 DEF PlaceOK
<1>11. QED BY <1>1, <1>2, <1>4, <1>6, <1>7, <1>8, <1>10, FileNames, Renames

LEMMA PutAwayKeeps ==
    ASSUME OneUpdate, UpdateInv, NEW w \in Workers, PutAway(w)
    PROVE  UpdateInv'
<1>1. UpdateTypes /\ Is(w, {"apply"}, "away") /\ UpdateRest BY DEF UpdateInv, PutAway
<1>2. /\ job[w].at = "away" /\ job[w].n = 0 /\ job[w].n + 1 = 1 /\ running # Stopped /\ ~exiting
      /\ job[w].v \in Releases
  BY <1>1, AtWork
<1>3. Own(Exe(0)) BY <1>2, Standing
<1>4. CASE Ends(w) /\ UNCHANGED <<disk, running>>
  <2>1. NextJobOK(w) /\ job'[w].at = "idle" BY <1>1, <1>2, <1>4, GoesHome DEF NextJobOK, UpdateRest
  <2>2. QED BY <1>1, <1>2, <1>4, <2>1, FilesStay
<1>5. CASE Rename(Exe(0), Exe(1)) /\ To(w, "in")
  <2>1. CopiesStaged' BY <1>2, <1>5, FileNames, RenameCopiesNone
  <2>2. /\ disk' \in [Files -> FileRecord] /\ running' \in [file : Files \cup {Nowhere}, v : Nat]
        /\ disk'[Exe(1)] = disk[Exe(0)] /\ disk'[Exe(0)] = NoFile /\ running'.v = running.v
        /\ running'.file = Exe(1)
    BY <1>1, <1>3, <1>5, Relocated, FileNames DEF Own
  <2>3. Own(Exe(1))' BY <1>3, <2>2 DEF Own
  <2>4. BackupWhole' /\ SomeWhole' BY <2>3 DEF BackupWhole, SomeWhole, Own, Whole
  <2>5. job'[w].at = "in" BY <1>1, <1>5, GoesTo
  <2>6. PlaceOK(w)' BY <2>2, <2>3, <2>5 DEF PlaceOK, Own
  <2>7. QED BY <1>1, <1>2, <1>5, <2>1, <2>2, <2>4, <2>5, <2>6, FileNames, Renames
<1>6. QED BY <1>2, <1>4, <1>5 DEF PutAway

LEMMA PutInKeeps ==
    ASSUME OneUpdate, UpdateInv, NEW w \in Workers, PutIn(w)
    PROVE  UpdateInv'
<1>1. UpdateTypes /\ Is(w, {"apply"}, "in") /\ UpdateRest BY DEF UpdateInv, PutIn
<1>2. /\ job[w].at = "in" /\ job[w].n = 0 /\ job[w].n + 1 = 1 /\ running # Stopped /\ ~exiting
      /\ job[w].v \in Releases
  BY <1>1, AtWork
<1>3. /\ running.file = Exe(1) /\ disk[Exe(1)] = Whole(running.v) /\ disk[Exe(0)] = NoFile
  BY <1>2 DEF UpdateInv, PlaceOK
<1>4. CASE PutBack(0) /\ Ends(w)
  <2>1. Rename(Exe(1), Exe(0)) BY <1>3, <1>4 DEF PutBack, Exists, Whole, NoFile
  <2>2. CopiesStaged' BY <1>2, <2>1, FileNames, RenameCopiesNone
  <2>3. /\ disk' \in [Files -> FileRecord] /\ running' \in [file : Files \cup {Nowhere}, v : Nat]
        /\ disk'[Exe(0)] = disk[Exe(1)] /\ disk'[Exe(1)] = NoFile /\ running'.v = running.v
        /\ running'.file = Exe(0)
    BY <1>1, <1>3, <2>1, Relocated, FileNames
  <2>4. Own(Exe(0))' BY <1>3, <2>3 DEF Own
  <2>5. BackupWhole' /\ SomeWhole' BY <2>3, <2>4 DEF BackupWhole, SomeWhole, Own, Whole
  <2>6. job'[w].at = "idle" BY <1>1, <1>4, GoesHome
  <2>7. PlaceOK(w)' BY <2>6 DEF PlaceOK
  <2>8. QED BY <1>1, <1>2, <1>4, <2>2, <2>3, <2>4, <2>5, <2>7, FileNames, Renames
<1>5. CASE Rename(Staged(0, job[w].v), Exe(0)) /\ To(w, "note")
  <2> DEFINE s == Staged(0, job[w].v)
  <2>1. s \in Files /\ s \notin {Exe(0), Exe(1), Parked(0)}
    BY <1>2, FileNames DEF StagedFiles
  <2>2. Rename(s, Exe(0)) BY <1>5
  <2> HIDE DEF s
  <2>3. CopiesStaged' BY <1>2, <2>1, <2>2, FileNames, RenameCopiesNone
  <2>4. /\ disk' \in [Files -> FileRecord] /\ running' \in [file : Files \cup {Nowhere}, v : Nat]
        /\ disk'[Exe(1)] = disk[Exe(1)] /\ running'.v = running.v /\ running'.file = Exe(1)
    BY <1>1, <1>3, <2>1, <2>2, Relocated, FileNames
  <2>5. BackupWhole' /\ SomeWhole' BY <1>3, <2>4 DEF BackupWhole, SomeWhole, Whole
  <2>6. job'[w].at = "note" BY <1>1, <1>5, GoesTo
  <2>7. PlaceOK(w)' BY <1>3, <2>4, <2>6 DEF PlaceOK
  <2>8. QED BY <1>1, <1>2, <1>5, <2>3, <2>4, <2>5, <2>6, <2>7, FileNames, Renames
<1>6. QED BY <1>2, <1>4, <1>5 DEF PutIn

LEMMA UnparkKeeps ==
    ASSUME OneUpdate, UpdateInv, NEW w \in Workers, Unpark(w)
    PROVE  UpdateInv'
<1>1. UpdateTypes /\ Is(w, {"rollback"}, "unpark") /\ UpdateRest BY DEF UpdateInv, Unpark
<1>2. job[w].at = "unpark" /\ job[w].n = 0 /\ running # Stopped /\ ~exiting
  BY <1>1, AtWork
<1>3. Own(Exe(0)) BY <1>2, Standing
<1>4. CASE Ends(w) /\ UNCHANGED <<disk, running>>
  <2>1. NextJobOK(w) /\ job'[w].at = "idle" BY <1>1, <1>2, <1>4, GoesHome DEF NextJobOK, UpdateRest
  <2>2. QED BY <1>1, <1>2, <1>4, <2>1, FilesStay
<1>5. CASE RemoveFiles({Parked(0)}) /\ To(w, "park")
  <2>1. CopiesStaged' BY <1>2, <1>5, RemoveCopiesNone
  <2>2. /\ disk' \in [Files -> FileRecord] /\ running' \in [file : Files \cup {Nowhere}, v : Nat]
        /\ disk'[Exe(1)] = disk[Exe(1)] /\ disk'[Exe(0)] = disk[Exe(0)] /\ running'.v = running.v
        /\ running'.file = Exe(0)
    BY <1>1, <1>3, <1>5, Removed, FileNames DEF Own
  <2>3. Own(Exe(0))' BY <1>3, <2>2 DEF Own
  <2>4. SomeWhole' BY <2>3 DEF SomeWhole, Own, Whole
  <2>5. BackupWhole' BY <2>2 DEF UpdateInv, BackupWhole
  <2>6. job'[w].at = "park" BY <1>1, <1>5, GoesTo
  <2>7. PlaceOK(w)' BY <2>6 DEF PlaceOK
  <2>8. ~unnoted => label.file = NoVersion \/ disk'[Exe(1)] \in {NoFile, Whole(label.file)}
    BY <1>2, <2>2, Noting
  <2>9. QED BY <1>1, <1>2, <1>5, <2>1, <2>2, <2>3, <2>4, <2>5, <2>7, <2>8, FileNames, Renames
<1>6. QED BY <1>2, <1>4, <1>5 DEF Unpark

LEMMA ParkKeeps ==
    ASSUME OneUpdate, UpdateInv, NEW w \in Workers, Park(w)
    PROVE  UpdateInv'
<1>1. UpdateTypes /\ Is(w, {"rollback"}, "park") /\ UpdateRest BY DEF UpdateInv, Park
<1>2. job[w].at = "park" /\ job[w].n = 0 /\ running # Stopped /\ ~exiting
  BY <1>1, AtWork
<1>3. Own(Exe(0)) BY <1>2, Standing
<1>4. CASE Ends(w) /\ UNCHANGED <<disk, running>>
  <2>1. NextJobOK(w) /\ job'[w].at = "idle" BY <1>1, <1>2, <1>4, GoesHome DEF NextJobOK, UpdateRest
  <2>2. QED BY <1>1, <1>2, <1>4, <2>1, FilesStay
<1>5. CASE Rename(Exe(0), Parked(0)) /\ To(w, "restore")
  <2>1. CopiesStaged' BY <1>2, <1>5, FileNames, RenameCopiesNone
  <2>2. /\ disk' \in [Files -> FileRecord] /\ running' \in [file : Files \cup {Nowhere}, v : Nat]
        /\ disk'[Parked(0)] = disk[Exe(0)] /\ disk'[Exe(0)] = NoFile
        /\ disk'[Exe(1)] = disk[Exe(1)] /\ running'.v = running.v /\ running'.file = Parked(0)
    BY <1>1, <1>3, <1>5, Relocated, FileNames DEF Own
  <2>3. Own(Parked(0))' BY <1>3, <2>2 DEF Own
  <2>4. SomeWhole' BY <2>3 DEF SomeWhole, Own, Whole
  <2>5. BackupWhole' BY <2>2 DEF UpdateInv, BackupWhole
  <2>6. job'[w].at = "restore" BY <1>1, <1>5, GoesTo
  <2>7. PlaceOK(w)' BY <2>2, <2>3, <2>6 DEF PlaceOK
  <2>8. ~unnoted => label.file = NoVersion \/ disk'[Exe(1)] \in {NoFile, Whole(label.file)}
    BY <1>2, <2>2, Noting
  <2>9. QED BY <1>1, <1>2, <1>5, <2>1, <2>2, <2>4, <2>5, <2>7, <2>8, FileNames, Renames
<1>6. QED BY <1>2, <1>4, <1>5 DEF Park

LEMMA RestoreKeeps ==
    ASSUME OneUpdate, UpdateInv, NEW w \in Workers, Restore(w)
    PROVE  UpdateInv'
<1>1. UpdateTypes /\ Is(w, {"rollback"}, "restore") /\ UpdateRest BY DEF UpdateInv, Restore
<1>2. /\ job[w].at = "restore" /\ job[w].n = 0 /\ job[w].n + 1 = 1 /\ running # Stopped /\ ~exiting
  BY <1>1, AtWork
<1>3. Own(Parked(0)) /\ disk[Exe(0)] = NoFile /\ BackupWhole
  BY <1>2 DEF UpdateInv, PlaceOK
<1>4. CASE Rename(Parked(0), Exe(0)) /\ Ends(w)
  <2>1. CopiesStaged' BY <1>2, <1>4, FileNames, RenameCopiesNone
  <2>2. /\ disk' \in [Files -> FileRecord] /\ running' \in [file : Files \cup {Nowhere}, v : Nat]
        /\ disk'[Exe(0)] = disk[Parked(0)] /\ disk'[Exe(1)] = disk[Exe(1)]
        /\ running'.v = running.v /\ running'.file = Exe(0)
    BY <1>1, <1>3, <1>4, Relocated, FileNames DEF Own
  <2>3. Own(Exe(0))' BY <1>3, <2>2 DEF Own
  <2>4. SomeWhole' BY <2>3 DEF SomeWhole, Own, Whole
  <2>5. BackupWhole' BY <1>3, <2>2 DEF BackupWhole
  <2>6. job'[w].at = "idle" BY <1>1, <1>4, GoesHome
  <2>7. PlaceOK(w)' BY <2>6 DEF PlaceOK
  <2>8. ~unnoted => label.file = NoVersion \/ disk'[Exe(1)] \in {NoFile, Whole(label.file)}
    BY <1>2, <2>2, Noting
  <2>9. QED BY <1>1, <1>2, <1>4, <2>1, <2>2, <2>3, <2>4, <2>5, <2>7, <2>8, FileNames, Renames
<1>5. CASE Exists(Exe(1)) /\ Rename(Exe(1), Exe(0)) /\ To(w, "forget")
  <2>1. CopiesStaged' BY <1>2, <1>5, FileNames, RenameCopiesNone
  <2>2. /\ disk' \in [Files -> FileRecord] /\ running' \in [file : Files \cup {Nowhere}, v : Nat]
        /\ disk'[Exe(0)] = disk[Exe(1)] /\ disk'[Exe(1)] = NoFile /\ running'.file = Parked(0)
    BY <1>1, <1>3, <1>5, Relocated, FileNames DEF Own
  <2>3. disk'[Exe(0)].state = "whole" BY <1>3, <1>5, <2>2 DEF BackupWhole, Exists
  <2>4. BackupWhole' /\ SomeWhole' BY <2>2, <2>3 DEF BackupWhole, SomeWhole
  <2>5. job'[w].at = "forget" BY <1>1, <1>5, GoesTo
  <2>6. PlaceOK(w)' BY <2>2, <2>3, <2>5 DEF PlaceOK
  <2>7. QED BY <1>1, <1>2, <1>5, <2>1, <2>2, <2>4, <2>6, FileNames, Renames
<1>6. QED BY <1>2, <1>4, <1>5 DEF Restore

(* Steps that note the version that can be returned to.                     *)
LEMMA NotedKeeps ==
    ASSUME OneUpdate, UpdateInv, NEW w \in Workers, NEW version \in Nat \cup {NoVersion},
           Noted(w, version), published' = published, CopiesStaged',
           disk' \in [Files -> FileRecord], running' \in [file : Files \cup {Nowhere}, v : Nat],
           BackupWhole', SomeWhole',
           version = NoVersion \/ disk'[Exe(1)] \in {NoFile, Whole(version)}
    PROVE  UpdateInv'
<1>1. UpdateTypes BY DEF UpdateInv
<1>2. job' \in [Workers -> JobRecord] /\ job'[w] = Idle /\ job'[w].at = "idle"
  BY <1>1, GoesHome DEF Noted
<1>3. exiting' BY DEF Noted
<1>4. /\ label' \in [mem : Nat \cup {NoVersion}, file : Nat \cup {NoVersion}]
      /\ ~unnoted' => label' = [mem |-> version, file |-> version]
  <2>1. label \in [mem : Nat \cup {NoVersion}, file : Nat \cup {NoVersion}] BY <1>1 DEF UpdateTypes
  <2>2. CASE label' = [mem |-> version, file |-> version] BY <2>2
  <2>3. CASE label' = [label EXCEPT !.mem = version] /\ unnoted' = TRUE BY <2>1, <2>3
  <2>4. QED BY <2>2, <2>3 DEF Noted
<1>5. UpdateTypes' BY <1>1, <1>2, <1>4 DEF UpdateTypes
<1>6. NextJobOK(w) /\ PlaceOK(w)' BY <1>2 DEF NextJobOK, PlaceOK
<1>7. ~unnoted' => /\ label'.mem \in {label'.file, NoVersion}
                   /\ label'.file = NoVersion \/ disk'[Exe(1)] \in {NoFile, Whole(label'.file)}
  BY <1>4
<1>8. QED BY <1>3, <1>5, <1>6, <1>7, Together

LEMMA NoteKeeps ==
    ASSUME OneUpdate, UpdateInv, NEW w \in Workers, Note(w)
    PROVE  UpdateInv'
<1>1. UpdateTypes /\ Is(w, {"apply"}, "note") /\ Noted(w, running.v)
      /\ UNCHANGED <<disk, running, published>>
  BY DEF UpdateInv, Note
<1>2. job[w].at = "note" BY <1>1, AtWork
<1>3. disk[Exe(1)] = Whole(running.v) BY <1>2 DEF UpdateInv, PlaceOK
<1>4. running.v \in Nat BY <1>1 DEF UpdateTypes
<1>5. CopiesStaged'
  <2>1. \A f \in Files : disk'[f].state \notin Workers BY <1>1, <1>2, NothingCopied
  <2>2. QED BY <2>1 DEF CopiesStaged
<1>6. BackupWhole' /\ SomeWhole' BY <1>1 DEF UpdateInv, BackupWhole, SomeWhole
<1>7. /\ disk' \in [Files -> FileRecord] /\ running' \in [file : Files \cup {Nowhere}, v : Nat]
      /\ disk'[Exe(1)] = Whole(running.v)
  BY <1>1, <1>3 DEF UpdateTypes
<1>8. QED BY <1>1, <1>4, <1>5, <1>6, <1>7, NotedKeeps

LEMMA ForgetKeeps ==
    ASSUME OneUpdate, UpdateInv, NEW w \in Workers, Forget(w)
    PROVE  UpdateInv'
<1>1. UpdateTypes /\ Is(w, {"rollback"}, "forget") /\ Noted(w, NoVersion) /\ published' = published
  BY DEF UpdateInv, Forget
<1>2. job[w].at = "forget" /\ job[w].n = 0 BY <1>1, AtWork
<1>3. disk[Exe(0)].state = "whole" /\ disk[Exe(1)] = NoFile BY <1>2 DEF UpdateInv, PlaceOK
<1> DEFINE S == StagedBut(0, 0) \cup {Parked(0)}
<1>4. RemoveFiles(S) BY <1>2 DEF Forget
<1>5. Exe(0) \notin S /\ Exe(1) \notin S
  <2>1. StagedBut(0, 0) \subseteq StagedFiles BY DEF StagedBut, StagedFiles
  <2>2. QED BY <2>1, FileNames
<1> HIDE DEF S
<1>6. CopiesStaged' BY <1>2, <1>4, RemoveCopiesNone
<1>7. /\ disk' \in [Files -> FileRecord] /\ running' \in [file : Files \cup {Nowhere}, v : Nat]
      /\ disk'[Exe(0)] = disk[Exe(0)] /\ disk'[Exe(1)] = disk[Exe(1)]
  BY <1>1, <1>4, <1>5, Removed, FileNames
<1>8. BackupWhole' /\ SomeWhole' BY <1>3, <1>7 DEF BackupWhole, SomeWhole
<1>9. QED BY <1>1, <1>6, <1>7, <1>8, NotedKeeps

-----------------------------------------------------------------------------
(* Steps of no worker.                                                      *)
LEMMA PublishKeeps ==
    ASSUME UpdateInv, Publish
    PROVE  UpdateInv'
<1>1. published' \in Releases /\ UNCHANGED <<disk, running, label, job, exiting, unnoted>>
  BY DEF Publish
<1>2. UpdateTypes' /\ JobsOK' /\ CopiesStaged'
  BY <1>1 DEF UpdateInv, UpdateTypes, JobsOK, CopiesStaged
<1>3. \A w \in Workers : PlaceOK(w)' BY <1>1 DEF UpdateInv, PlaceOK, Own
<1>4. InPlace' /\ BackupWhole' /\ SomeWhole' /\ LabelOK'
  BY <1>1 DEF UpdateInv, InPlace, Own, BackupWhole, SomeWhole, LabelOK
<1>5. QED BY <1>2, <1>3, <1>4 DEF UpdateInv

LEMMA StandsStill ==
    ASSUME UpdateInv, UNCHANGED updateVars
    PROVE  UpdateInv'
<1>1. UNCHANGED <<disk, running, published, label, job, exiting, unnoted>> BY DEF updateVars
<1>2. UpdateTypes' /\ JobsOK' /\ CopiesStaged'
  BY <1>1 DEF UpdateInv, UpdateTypes, JobsOK, CopiesStaged
<1>3. \A w \in Workers : PlaceOK(w)' BY <1>1 DEF UpdateInv, PlaceOK, Own
<1>4. InPlace' /\ BackupWhole' /\ SomeWhole' /\ LabelOK'
  BY <1>1 DEF UpdateInv, InPlace, Own, BackupWhole, SomeWhole, LabelOK
<1>5. QED BY <1>2, <1>3, <1>4 DEF UpdateInv

LEMMA StopKeeps ==
    ASSUME UpdateInv, StopProcess
    PROVE  UpdateInv'
<1>1. UpdateTypes /\ CopiesStaged /\ BackupWhole /\ SomeWhole /\ LabelOK BY DEF UpdateInv
<1>2. /\ running' = Stopped /\ published' = published
      /\ \A f \in Files : disk'[f] = IF disk[f].state \in Workers
                                     THEN [disk[f] EXCEPT !.state = "torn"] ELSE disk[f]
      /\ DOMAIN disk' = Files /\ disk' = [f \in Files |-> disk'[f]]
      /\ unnoted' = (unnoted \/ \E w \in Workers : job[w].at \in {"in", "note", "restore", "forget"})
      /\ job' = [w \in Workers |-> Idle]
      /\ label' = [label EXCEPT !.mem = NoVersion]
  BY DEF StopProcess
<1>3. disk \in [Files -> FileRecord] BY <1>1 DEF UpdateTypes
<1>4. \A f \in Files : disk'[f] \in FileRecord BY <1>2, <1>3 DEF FileRecord
<1>5. disk' \in [Files -> FileRecord] BY <1>2, <1>4
<1>6. Idle \in JobRecord /\ Idle.at = "idle" BY DEF Idle, JobRecord
<1>7. \A w \in Workers : job'[w] = Idle /\ job'[w].at = "idle" BY <1>2, <1>6
<1>8. Stopped \in [file : Files \cup {Nowhere}, v : Nat] BY DEF Stopped
<1>9. label \in [mem : Nat \cup {NoVersion}, file : Nat \cup {NoVersion}] BY <1>1 DEF UpdateTypes
<1>10. /\ label' \in [mem : Nat \cup {NoVersion}, file : Nat \cup {NoVersion}]
       /\ label'.mem = NoVersion /\ label'.file = label.file
  BY <1>2, <1>9
<1>11. UpdateTypes' BY <1>1, <1>2, <1>5, <1>6, <1>8, <1>10 DEF UpdateTypes
<1>12. JobsOK' /\ \A w \in Workers : PlaceOK(w)' BY <1>7 DEF JobsOK, PlaceOK
<1>13. \A f \in Files : disk'[f].state \notin Workers
  <2> TAKE f \in Files
  <2>1. "torn" \notin Workers BY UpdateAssumption
  <2>2. CASE disk[f].state \in Workers
    <3>1. disk[f] \in [v : Nat, state : {"none", "whole", "torn"} \cup Workers]
      BY <1>3 DEF FileRecord
    <3>2. disk'[f].state = "torn" BY <1>2, <2>2, <3>1
    <3>3. QED BY <2>1, <3>2
  <2>3. CASE disk[f].state \notin Workers BY <1>2, <2>3
  <2>4. QED BY <2>2, <2>3
<1>14. CopiesStaged' BY <1>13 DEF CopiesStaged
<1>15. \A f \in {Exe(0), Exe(1), Parked(0)} : disk'[f] = disk[f]
  BY <1>1, <1>2, FileNames DEF CopiesStaged
<1>16. InPlace' BY <1>2 DEF InPlace
<1>17. BackupWhole' /\ SomeWhole' BY <1>1, <1>15 DEF BackupWhole, SomeWhole
<1>18. LabelOK' BY <1>1, <1>2, <1>10, <1>15 DEF LabelOK
<1>19. QED BY <1>11, <1>12, <1>14, <1>16, <1>17, <1>18 DEF UpdateInv

LEMMA StartKeeps ==
    ASSUME UpdateInv, StartProcess
    PROVE  UpdateInv'
<1>1. UpdateTypes /\ JobsOK /\ CopiesStaged /\ BackupWhole /\ SomeWhole /\ LabelOK BY DEF UpdateInv
<1>2. /\ running = Stopped /\ disk[Exe(0)].state = "whole"
      /\ running' = [file |-> Exe(0), v |-> disk[Exe(0)].v]
      /\ label' = [label EXCEPT !.mem = label.file]
      /\ UNCHANGED <<disk, published, job, exiting, unnoted>>
  BY DEF StartProcess
<1>3. \A w \in Workers : job[w].at = "idle" /\ job[w] = Idle BY <1>1, <1>2 DEF JobsOK
<1>4. disk[Exe(0)] \in FileRecord BY <1>1, FileNames DEF UpdateTypes
<1>5. disk[Exe(0)].v \in Nat /\ disk[Exe(0)] = Whole(disk[Exe(0)].v)
  BY <1>2, <1>4 DEF FileRecord, Whole
<1>6. running' \in [file : Files \cup {Nowhere}, v : Nat] BY <1>2, <1>5, FileNames
<1>7. label \in [mem : Nat \cup {NoVersion}, file : Nat \cup {NoVersion}] BY <1>1 DEF UpdateTypes
<1>8. /\ label' \in [mem : Nat \cup {NoVersion}, file : Nat \cup {NoVersion}]
      /\ label'.mem = label.file /\ label'.file = label.file
  BY <1>2, <1>7
<1>9. UpdateTypes' BY <1>1, <1>2, <1>6, <1>8 DEF UpdateTypes
<1>10. JobsOK' /\ \A w \in Workers : PlaceOK(w)' BY <1>2, <1>3 DEF JobsOK, PlaceOK
<1>11. CopiesStaged' /\ BackupWhole' /\ SomeWhole'
  BY <1>1, <1>2 DEF CopiesStaged, BackupWhole, SomeWhole
<1>12. InPlace' BY <1>2, <1>5 DEF InPlace, Own
<1>13. LabelOK' BY <1>1, <1>2, <1>3, <1>8 DEF LabelOK
<1>14. QED BY <1>9, <1>10, <1>11, <1>12, <1>13 DEF UpdateInv

LEMMA UpdateStep == OneUpdate /\ UpdateInv /\ [UpdateNext]_updateVars => UpdateInv'
<1> SUFFICES ASSUME OneUpdate, UpdateInv, [UpdateNext]_updateVars PROVE UpdateInv' OBVIOUS
<1>1. CASE UNCHANGED updateVars BY <1>1, StandsStill
<1>2. CASE Publish BY <1>2, PublishKeeps
<1>3. CASE StopProcess BY <1>3, StopKeeps
<1>4. CASE StartProcess BY <1>4, StartKeeps
<1>5. ASSUME NEW w \in Workers, NEW op \in {"pull", "apply", "rollback"}, BeginUpdate(w, op)
      PROVE  UpdateInv'
  BY <1>5, BeginKeeps
<1>6. ASSUME NEW w \in Workers, BeginAuto(w) PROVE UpdateInv'
  BY <1>6, BeginKeeps DEF BeginAuto
<1>7. ASSUME NEW w \in Workers, Resolve(w) \/ Fetch(w) \/ Copy(w) \/ Tidy(w) PROVE UpdateInv'
  BY <1>7, ResolveKeeps, FetchKeeps, CopyKeeps, TidyKeeps
<1>8. ASSUME NEW w \in Workers, Unbackup(w) \/ PutAway(w) \/ PutIn(w) \/ Note(w) PROVE UpdateInv'
  BY <1>8, UnbackupKeeps, PutAwayKeeps, PutInKeeps, NoteKeeps
<1>9. ASSUME NEW w \in Workers, Unpark(w) \/ Park(w) \/ Restore(w) \/ Forget(w) PROVE UpdateInv'
  BY <1>9, UnparkKeeps, ParkKeeps, RestoreKeeps, ForgetKeeps
<1>10. QED BY <1>1, <1>2, <1>3, <1>4, <1>5, <1>6, <1>7, <1>8, <1>9 DEF UpdateNext

LEMMA UpdateInvRecovers ==
    ASSUME UpdateInv
    PROVE  UpdatesRecoverable
<1>1. 0 \in 0 .. MaxDepth /\ 1 \in 0 .. MaxDepth BY UpdateAssumption
<1>2. AlwaysAnExecutable BY <1>1 DEF AlwaysAnExecutable, UpdateInv, SomeWhole
<1>3. ASSUME label.mem # NoVersion, ~unnoted, \A w \in Workers : job[w] = Idle
      PROVE  disk[Exe(1)] \in {NoFile, Whole(label.mem)}
  <2>1. \A w \in Workers : job[w].at \notin {"in", "note"} BY <1>3 DEF Idle
  <2>2. QED BY <1>3, <2>1 DEF UpdateInv, LabelOK
<1>4. QED BY <1>2, <1>3 DEF UpdatesRecoverable, RollbackAsAnnounced

(* While updates do not overlap, a whole executable is always there to      *)
(* return to, wherever a rename or a write fails or the process is killed,  *)
(* and a rollback returns to the version it announces                       *)
(* (install_binary, restore_backup and their callers).                      *)
THEOREM UpdatesStayRecoverable ==
    ASSUME OneUpdate
    PROVE  UpdateSpec => []UpdatesRecoverable
<1>1. UpdateInit => UpdateInv BY UpdateStarts
<1>2. UpdateInv /\ [UpdateNext]_updateVars => UpdateInv' BY UpdateStep
<1>3. UpdateInv => UpdatesRecoverable BY UpdateInvRecovers
<1>4. QED BY <1>1, <1>2, <1>3, PTL DEF UpdateSpec

-----------------------------------------------------------------------------
(* Proxies.                                                                 *)

Urls == Addresses \cup {"global", "direct"}
EntryRecord ==
    [at : Addresses, on : BOOLEAN, auto : BOOLEAN,
     health : {"unknown", "healthy", "unhealthy"}, fails : Nat,
     detected : BOOLEAN, manual : BOOLEAN, seen : Addresses \cup {"none"},
     behind : BOOLEAN]
SettingRecord == [link : Nat, url : Urls, temp : BOOLEAN, assigned : BOOLEAN]
BindingRecord == [link : Nat, url : Urls]

(* An entry an administrator took out is not one that probes took out: a    *)
(* good probe would put the latter back.                                    *)
EntryOK(e) ==
    /\ e.manual => ~e.on /\ ~e.auto
    /\ e.health # "unknown" => e.seen = e.at

PoolOK(p, n) ==
    /\ n \in Nat \ {0}
    /\ DOMAIN p \subseteq 1..(n - 1)
    /\ p \in [DOMAIN p -> EntryRecord]
    /\ \A i \in DOMAIN p : EntryOK(p[i])
    /\ \A i, j \in DOMAIN p : p[i].at = p[j].at => i = j

Custom(b) == \E c \in Egresses, a \in Addresses : b = Only(c, [link |-> 0, url |-> a])
AdminOK(a) ==
    /\ a.pc = "write" => a.bindings \in [DOMAIN a.bindings -> BindingRecord]
    /\ a.pc = "write" /\ a.then = "adopt" => Custom(a.bindings)
    /\ a.pc = "adopt" => Custom(a.bindings)
    /\ a.pc = "sync" => a.id \in Nat /\ a.at \in Addresses
CheckerOK(k) ==
    /\ k.pc = "apply" =>
          /\ DOMAIN k.targets \subseteq Egresses
          /\ k.targets \in [DOMAIN k.targets -> Addresses \cup {"restore", "direct"}]
    /\ k.pc = "align" => k.fixes \in [DOMAIN k.fixes -> BindingRecord]

(* Where no rotation runs: a copy that differs from the entry it is linked  *)
(* to is about to be written, or the write that was to bring it failed.     *)
ProxyPending(a, c, i) ==
    \/ a.pc = "sync" /\ a.id = i
    \/ a.pc = "write" /\ a.sync = i /\ c \in DOMAIN a.bindings
Linked(p, link, url) == link # 0 => link \in DOMAIN p /\ url = p[link].at
CopiesOK(p, e, a) ==
    \A c \in Egresses :
        e[c].link # 0 =>
           /\ e[c].link \in DOMAIN p
           /\ e[c].url = p[e[c].link].at \/ p[e[c].link].behind \/ ProxyPending(a, c, e[c].link)
UnderWay(p, e, a) ==
    /\ a.pc = "sync" => a.id \in DOMAIN p /\ p[a.id].at = a.at
    /\ a.pc = "write" =>
          \A c \in DOMAIN a.bindings : Linked(p, a.bindings[c].link, a.bindings[c].url)
    /\ a.pc = "delete" => \A c \in Egresses : e[c].link # a.id
LinksOK(p, e, a) == CopiesOK(p, e, a) /\ UnderWay(p, e, a)

(* What the checker read is what there is, unless a generation moved.       *)
Judged(k, m, g, e) ==
    /\ k.pc \in {"judge", "apply"} /\ "global" \notin m => g = k.global
    /\ k.pc = "apply" => \A c \in DOMAIN k.targets :
          /\ c \notin m => e[c] = k.read[c]
          /\ k.read[c].url = "direct" => k.read[c].assigned

ProxyTypesOK ==
    /\ egress \in [Egresses -> SettingRecord]
    /\ AdminOK(admin) /\ CheckerOK(checker)
Quiet == ~rotating.rotate => checker.pc \in {"idle", "probe"}

ProxyInv ==
    /\ PoolOK(proxies, nextProxy) /\ ProxyTypesOK /\ Quiet
    /\ ~rotating.rotate => LinksOK(proxies, egress, admin)
    /\ Judged(checker, moved, globalProxy, egress)

-----------------------------------------------------------------------------
(* A set and the sequence made of it: in both each element is there once.   *)
LEMMA SequenceOfSet ==
    ASSUME NEW S, IsFiniteSet(S)
    PROVE  LET s == SetToSeq(S)
           IN  /\ Cardinality(S) \in Nat
               /\ s \in [1..Cardinality(S) -> S] /\ Len(s) = Cardinality(S)
               /\ \A i, j \in 1..Len(s) : s[i] = s[j] => i = j
               /\ \A x \in S : \E i \in 1..Len(s) : s[i] = x
  <1> DEFINE s == SetToSeq(S)  n == Cardinality(S)
  <1>1. n \in Nat /\ ExistsBijection(1..n, S)
    BY FS_CardinalityType
  <1>2. PICK f \in Bijection(1..n, S) : TRUE
    BY <1>1 DEF ExistsBijection
  <1>3. f \in [1..n -> S] /\ IsInjective(f)
    BY <1>2 DEF Bijection, Injection
  <1>4. s \in [1..n -> S] /\ IsInjective(s)
    BY <1>3 DEF SetToSeq
  <1>5. s \in Injection(1..n, S)
    BY <1>4 DEF Injection
  <1> HIDE DEF s
  <1>6. IsFiniteSet(1..n) /\ Cardinality(1..n) = n
    BY <1>1, FS_Interval
  <1>7. s \in Surjection(1..n, S)
    BY <1>5, <1>6, FS_Injection
  <1>8. Len(s) = n
    BY <1>1, <1>4
  <1>9. \A x \in S : \E i \in 1..n : s[i] = x
    BY <1>7 DEF Surjection
  <1> QED
    BY <1>1, <1>4, <1>8, <1>9 DEF s, IsInjective

LEMMA FiniteImage ==
    ASSUME NEW S, IsFiniteSet(S), NEW f, DOMAIN f = S
    PROVE  IsFiniteSet({f[x] : x \in S})
  <1> DEFINE T == {f[x] : x \in S}
             g == [x \in S |-> f[x]]
  <1>1. g \in Surjection(S, T)
    BY DEF Surjection
  <1> QED
    BY <1>1, FS_Surjection

LEMMA FreshEntry ==
    ASSUME NEW a \in Addresses, NEW found \in BOOLEAN
    PROVE  LET e == FreshProxy(a, found)
           IN  e \in EntryRecord /\ e.at = a /\ EntryOK(e)
  BY DEF FreshProxy, EntryRecord, EntryOK

(* New entries come behind the old ones, one for each new address. *)
LEMMA GrownPool ==
    ASSUME NEW n, PoolOK(proxies, n), NEW as, IsFiniteSet(as),
           as \subseteq Addresses, as \cap Listed = {}, NEW found \in BOOLEAN
    PROVE  LET p == Grown(n, as, found)
           IN  /\ PoolOK(p, NextId(n, p)) /\ NextId(n, p) = n + Cardinality(as)
               /\ \A i \in DOMAIN proxies : i \in DOMAIN p /\ p[i] = proxies[i]
  <1> DEFINE new == SetToSeq(as)  p == Grown(n, as, found)
             k == Cardinality(as)
  <1>1. /\ k \in Nat /\ new \in [1..k -> as] /\ Len(new) = k
        /\ \A i, j \in 1..k : new[i] = new[j] => i = j
    BY SequenceOfSet
  <1>2. n \in Nat \ {0} /\ DOMAIN proxies \subseteq 1..(n - 1)
    BY DEF PoolOK
  <1>3. /\ DOMAIN p = DOMAIN proxies \cup n..(n + k - 1)
        /\ \A i \in DOMAIN p :
              p[i] = IF i \in DOMAIN proxies THEN proxies[i]
                     ELSE FreshProxy(new[i - n + 1], found)
        /\ p = [i \in DOMAIN p |-> p[i]]
    BY <1>1 DEF Grown
  <1> HIDE DEF new, k, p
  <1>4. \A i \in DOMAIN proxies : i \in DOMAIN p /\ p[i] = proxies[i]
    BY <1>3
  <1>5. ASSUME NEW i \in DOMAIN p, i \notin DOMAIN proxies
        PROVE  /\ i - n + 1 \in 1..k /\ i \in Nat
               /\ p[i] \in EntryRecord /\ EntryOK(p[i])
               /\ p[i].at = new[i - n + 1] /\ p[i].at \notin Listed
    <2>1. i \in n..(n + k - 1)
      BY <1>3, <1>5
    <2>2. i - n + 1 \in 1..k /\ i \in Nat
      BY <2>1, <1>1, <1>2
    <2>3. new[i - n + 1] \in as
      BY <2>2, <1>1
    <2>4. PICK a \in Addresses : a = new[i - n + 1] /\ a \notin Listed
      BY <2>3
    <2>5. p[i] = FreshProxy(a, found)
      BY <1>3, <1>5, <2>4
    <2> QED
      BY <2>2, <2>4, <2>5, FreshEntry
  <1>6. NextId(n, p) = n + k
    <2>1. IsFiniteSet(1..(n - 1))
      BY <1>2, FS_Interval
    <2>2. IsFiniteSet(DOMAIN proxies)
      BY <2>1, <1>2, FS_Subset
    <2>3. Cardinality(DOMAIN proxies) \in Nat
      BY <2>2, FS_CardinalityType
    <2> DEFINE m == n + k - 1
    <2>4. n \in Int /\ m \in Int /\ (n > m <=> k = 0) /\ m - n + 1 = k
      BY <1>1, <1>2
    <2> HIDE DEF m
    <2>5. IsFiniteSet(n..m) /\ Cardinality(n..m) = k
      BY <2>4, FS_Interval
    <2>6. DOMAIN proxies \cap n..m = {}
      BY <1>2, <2>4
    <2>7. Cardinality(DOMAIN proxies \cap n..m) = 0
      BY <2>6, FS_EmptySet
    <2>8. Cardinality(DOMAIN proxies \cup n..m)
             = Cardinality(DOMAIN proxies) + Cardinality(n..m) - 0
      BY <2>2, <2>5, <2>7, FS_Union
    <2>9. DOMAIN p = DOMAIN proxies \cup n..m
      BY <1>3 DEF m
    <2> QED
      BY <2>3, <2>5, <2>8, <2>9, <1>1, <1>2 DEF NextId
  <1>7. \A i \in DOMAIN p : p[i] \in EntryRecord /\ EntryOK(p[i])
    BY <1>4, <1>5 DEF PoolOK
  <1>8. ASSUME NEW i \in DOMAIN p, NEW j \in DOMAIN p, p[i].at = p[j].at
        PROVE  i = j
    <2>1. CASE i \in DOMAIN proxies /\ j \in DOMAIN proxies
      BY <1>4, <1>8, <2>1 DEF PoolOK
    <2>2. CASE i \notin DOMAIN proxies /\ j \notin DOMAIN proxies
      <3>1. i - n + 1 = j - n + 1 /\ i \in Nat /\ j \in Nat
        BY <1>1, <1>5, <1>8, <2>2
      <3> QED
        BY <3>1, <1>2
    <2>3. CASE i \in DOMAIN proxies /\ j \notin DOMAIN proxies
      BY <1>4, <1>5, <1>8, <2>3 DEF Listed
    <2>4. CASE i \notin DOMAIN proxies /\ j \in DOMAIN proxies
      BY <1>4, <1>5, <1>8, <2>4 DEF Listed
    <2> QED
      BY <2>1, <2>2, <2>3, <2>4
  <1>9. p \in [DOMAIN p -> EntryRecord]
    BY <1>3, <1>7
  <1>10. DOMAIN p \subseteq 1..(n + k - 1) /\ n + k \in Nat \ {0}
    BY <1>1, <1>2, <1>3
  <1>11. PoolOK(p, n + k)
    <2> DEFINE m == n + k
    <2>1. m \in Nat \ {0} /\ DOMAIN p \subseteq 1..(m - 1)
      BY <1>10, <1>1, <1>2
    <2> HIDE DEF m
    <2>2. PoolOK(p, m)
      BY <1>7, <1>8, <1>9, <2>1 DEF PoolOK
    <2> QED
      BY <2>2 DEF m
  <1> QED
    BY <1>4, <1>6, <1>11 DEF p, k

LEMMA ProbedOK ==
    ASSUME NEW e \in EntryRecord, EntryOK(e), NEW ok \in BOOLEAN
    PROVE  LET q == Probed(e, e.at, ok)
           IN  q \in EntryRecord /\ EntryOK(q) /\ q.at = e.at /\ q.behind = e.behind
  <1> DEFINE fails == IF e.fails < ProbeFailures THEN e.fails + 1 ELSE e.fails
             trips == fails >= ProbeFailures /\ e.on
             q == Probed(e, e.at, ok)
             back == e.on \/ e.auto
             stays == e.on /\ ~trips
             out == e.auto \/ trips
  <1>1. fails \in Nat /\ back \in BOOLEAN /\ stays \in BOOLEAN /\ out \in BOOLEAN
    BY DEF EntryRecord
  <1>2. e.manual => ~back /\ ~stays /\ ~out
    BY DEF EntryOK
  <1>3. PICK on \in BOOLEAN, auto \in BOOLEAN, health \in {"healthy", "unhealthy"}, n \in Nat :
           /\ e.manual => ~on /\ ~auto
           /\ q = [e EXCEPT !.health = health, !.fails = n, !.on = on, !.auto = auto,
                            !.seen = e.at]
    <2>1. CASE ok
      <3>1. q = [e EXCEPT !.health = "healthy", !.fails = 0, !.on = back, !.auto = FALSE,
                          !.seen = e.at]
        BY <2>1 DEF Probed
      <3> HIDE DEF q, back
      <3> QED
        BY <1>1, <1>2, <3>1
    <2>2. CASE ~ok
      <3>1. q = [e EXCEPT !.health = "unhealthy", !.fails = fails, !.on = stays, !.auto = out,
                          !.seen = e.at]
        BY <2>2 DEF Probed
      <3> HIDE DEF q, fails, stays, out
      <3> QED
        BY <1>1, <1>2, <3>1
    <2> QED
      BY <2>1, <2>2
  <1> HIDE DEF q
  <1>4. q \in EntryRecord
    BY <1>3 DEF EntryRecord
  <1>5. q.manual = e.manual /\ q.on = on /\ q.auto = auto
    BY <1>3 DEF EntryRecord
  <1>6. q.seen = e.at /\ q.at = e.at /\ q.behind = e.behind
    BY <1>3 DEF EntryRecord
  <1>7. EntryOK(q)
    BY <1>3, <1>5, <1>6 DEF EntryOK
  <1> QED
    BY <1>4, <1>6, <1>7 DEF q

\* Entries that change in place and keep their addresses.
LEMMA SameAddresses ==
    ASSUME NEW p, NEW q, NEW n, PoolOK(p, n), q = [i \in DOMAIN p |-> q[i]],
           \A i \in DOMAIN p : q[i] \in EntryRecord /\ EntryOK(q[i]) /\ q[i].at = p[i].at
    PROVE  PoolOK(q, n)
  BY DEF PoolOK

LEMMA UpdatedPool ==
    ASSUME NEW n, PoolOK(proxies, n), NEW targets, NEW good
    PROVE  LET q == Updated(targets, good)
           IN  /\ PoolOK(q, n) /\ DOMAIN q = DOMAIN proxies
               /\ \A i \in DOMAIN proxies :
                     q[i].at = proxies[i].at /\ q[i].behind = proxies[i].behind
  <1> DEFINE q == Updated(targets, good)
  <1>1. ASSUME NEW i \in DOMAIN proxies
        PROVE  /\ q[i] \in EntryRecord /\ EntryOK(q[i])
               /\ q[i].at = proxies[i].at /\ q[i].behind = proxies[i].behind
    <2>1. proxies[i] \in EntryRecord /\ EntryOK(proxies[i])
      BY DEF PoolOK
    <2>2. CASE i \in DOMAIN targets /\ targets[i] = proxies[i].at
      <3>1. q[i] = Probed(proxies[i], proxies[i].at, i \in good)
        BY <2>2 DEF Updated
      <3> HIDE DEF q
      <3>2. (i \in good) \in BOOLEAN
        OBVIOUS
      <3> QED
        BY <2>1, <3>1, <3>2, ProbedOK
    <2>3. CASE ~(i \in DOMAIN targets /\ targets[i] = proxies[i].at)
      BY <2>1, <2>3 DEF Updated
    <2> QED
      BY <2>2, <2>3
  <1>2. q = [i \in DOMAIN proxies |-> q[i]]
    BY DEF Updated
  <1> HIDE DEF q
  <1>3. PoolOK(q, n)
    BY <1>1, <1>2, SameAddresses
  <1> QED
    BY <1>1, <1>2, <1>3 DEF q

LEMMA StaysPool ==
    ASSUME NEW n, PoolOK(proxies, n)
    PROVE  NextId(n, proxies) = n
  <1>1. n \in Nat \ {0} /\ DOMAIN proxies \subseteq 1..(n - 1)
    BY DEF PoolOK
  <1>2. IsFiniteSet(DOMAIN proxies)
    BY <1>1, FS_Interval, FS_Subset
  <1>3. Cardinality(DOMAIN proxies) \in Nat
    BY <1>2, FS_CardinalityType
  <1> QED
    BY <1>1, <1>3 DEF NextId

\* An alignment finds room for every new address or adds none.
LEMMA JoinedPool ==
    ASSUME NEW n, PoolOK(proxies, n), NEW settings
    PROVE  LET p == Joined(n, settings)
           IN  /\ PoolOK(p, NextId(n, p))
               /\ \A i \in DOMAIN proxies : i \in DOMAIN p /\ p[i] = proxies[i]
  <1> DEFINE as == Joining(settings)
  <1>1. IsFiniteSet(Stray(settings))
    BY ProxyAssumption, FS_Subset DEF Stray
  <1>2. IsFiniteSet({settings[c].url : c \in Stray(settings)})
    <2> DEFINE f == [c \in Stray(settings) |-> settings[c].url]
    <2>1. {settings[c].url : c \in Stray(settings)} = {f[c] : c \in Stray(settings)}
      OBVIOUS
    <2>2. DOMAIN f = Stray(settings)
      OBVIOUS
    <2> HIDE DEF f
    <2> QED
      BY <1>1, <2>1, <2>2, FiniteImage
  <1>3. IsFiniteSet(as) /\ as \subseteq Addresses /\ as \cap Listed = {}
    BY <1>2, FS_Subset DEF Joining, Stray
  <1> QED
    BY <1>3, GrownPool, StaysPool DEF Joined

-----------------------------------------------------------------------------
(* What each step makes of the pool. *)

\* Entries stay where they are, and a copy that is behind stays known as such.
Extends(p, q) ==
    \A i \in DOMAIN p :
        i \in DOMAIN q /\ q[i].at = p[i].at /\ (p[i].behind => q[i].behind)

ProxyKept == PoolOK(proxies, nextProxy)' /\ Extends(proxies, proxies')

LEMMA GrowsKeeps ==
    ASSUME PoolOK(proxies, nextProxy), NEW as, IsFiniteSet(as), as \subseteq Addresses,
           as \cap Listed = {}, NEW found \in BOOLEAN,
           \/ proxies' = Grown(nextProxy, as, found)
           \/ proxies' = proxies,
           nextProxy' = NextId(nextProxy, proxies')
    PROVE  ProxyKept
  <1>1. CASE proxies' = proxies
    BY <1>1, StaysPool DEF ProxyKept, Extends
  <1>2. CASE proxies' = Grown(nextProxy, as, found)
    <2> DEFINE p == Grown(nextProxy, as, found)
    <2>1. /\ PoolOK(p, NextId(nextProxy, p))
          /\ \A i \in DOMAIN proxies : i \in DOMAIN p /\ p[i] = proxies[i]
      BY GrownPool
    <2>2. proxies' = p
      BY <1>2
    <2> HIDE DEF p
    <2> QED
      BY <2>1, <2>2 DEF ProxyKept, Extends
  <1> QED
    BY <1>1, <1>2

LEMMA AddKeeps ==
    ASSUME PoolOK(proxies, nextProxy), NEW a \in Addresses, AddProxy(a)
    PROVE  ProxyKept
  <1>1. IsFiniteSet({a}) /\ Cardinality({a}) = 1 /\ {a} \cap Listed = {}
    BY FS_Singleton DEF AddProxy
  <1>2. NextId(nextProxy, Grown(nextProxy, {a}, FALSE)) = nextProxy + 1
    BY <1>1, GrownPool
  <1>3. proxies' = Grown(nextProxy, {a}, FALSE) /\ nextProxy' = NextId(nextProxy, proxies')
    BY <1>2 DEF AddProxy
  <1> QED
    BY <1>1, <1>3, GrowsKeeps

LEMMA DetectKeeps == ASSUME PoolOK(proxies, nextProxy), Detect PROVE ProxyKept
  <1> DEFINE inUse == {InUse(egress[c], globalProxy) : c \in Egresses}
             lent == {d \in Egresses : egress[d].temp}
             own == {Configured(egress[c], globalProxy) : c \in lent}
             used == ({globalProxy} \cup inUse \cup own) \cap Addresses
             new == used \ Listed
  <1>1. IsFiniteSet(inUse)
    <2> DEFINE f == [c \in Egresses |-> InUse(egress[c], globalProxy)]
    <2>1. inUse = {f[c] : c \in Egresses} /\ DOMAIN f = Egresses
      OBVIOUS
    <2> HIDE DEF f, inUse
    <2> QED
      BY <2>1, ProxyAssumption, FiniteImage
  <1>2. IsFiniteSet(own)
    <2> DEFINE f == [c \in lent |-> Configured(egress[c], globalProxy)]
    <2>1. own = {f[c] : c \in lent} /\ DOMAIN f = lent
      OBVIOUS
    <2>2. IsFiniteSet(lent)
      BY ProxyAssumption, FS_Subset
    <2> HIDE DEF f, own, lent
    <2> QED
      BY <2>1, <2>2, FiniteImage
  <1>3. \/ proxies' = Grown(nextProxy, new, TRUE)
        \/ proxies' = proxies
    BY DEF Detect
  <1>4. nextProxy' = NextId(nextProxy, proxies')
    BY DEF Detect
  <1> HIDE DEF inUse, own
  <1>5. IsFiniteSet({globalProxy} \cup inUse \cup own)
    <2>1. IsFiniteSet({globalProxy})
      BY FS_Singleton
    <2>2. IsFiniteSet({globalProxy} \cup inUse)
      BY <1>1, <2>1, FS_Union
    <2> QED
      BY <1>2, <2>2, FS_Union
  <1>6. new \subseteq {globalProxy} \cup inUse \cup own /\ new \subseteq Addresses
    OBVIOUS
  <1>7. IsFiniteSet(new) /\ new \cap Listed = {}
    BY <1>5, <1>6, FS_Subset
  <1> HIDE DEF new
  <1> QED
    BY <1>3, <1>4, <1>6, <1>7, GrowsKeeps

LEMMA AdoptionKeeps == ASSUME PoolOK(proxies, nextProxy), AdminOK(admin), Adoption PROVE ProxyKept
  <1>1. PICK c \in Egresses, a \in Addresses : admin.bindings = Only(c, [link |-> 0, url |-> a])
    BY DEF AdminOK, Adoption, Custom
  <1>2. (CHOOSE x \in DOMAIN admin.bindings : TRUE) = c /\ admin.bindings[c].url = a
    BY <1>1 DEF Only
  <1> DEFINE new == {a} \ Listed
  <1>3. \/ proxies' = Grown(nextProxy, new, FALSE)
        \/ proxies' = proxies
    BY <1>2 DEF Adoption
  <1>4. nextProxy' = NextId(nextProxy, proxies')
    BY DEF Adoption
  <1>5. IsFiniteSet(new) /\ new \subseteq Addresses /\ new \cap Listed = {}
    <2>1. IsFiniteSet({a})
      BY FS_Singleton
    <2> QED
      BY <2>1, FS_Subset
  <1> HIDE DEF new
  <1> QED
    BY <1>3, <1>4, <1>5, GrowsKeeps

LEMMA MigrateKeeps == ASSUME PoolOK(proxies, nextProxy), Migrate PROVE ProxyKept
  <1> DEFINE p == Joined(nextProxy, egress)
  <1>1. proxies' = p /\ nextProxy' = NextId(nextProxy, p)
    BY DEF Migrate
  <1>2. /\ PoolOK(p, NextId(nextProxy, p))
        /\ \A i \in DOMAIN proxies : i \in DOMAIN p /\ p[i] = proxies[i]
    BY JoinedPool
  <1> HIDE DEF p
  <1> QED
    BY <1>1, <1>2 DEF ProxyKept, Extends

LEMMA ProbesKeep == ASSUME PoolOK(proxies, nextProxy), Probes \/ ProbeAnswers PROVE ProxyKept
  <1>1. PICK targets, good : proxies' = Updated(targets, good) /\ nextProxy' = nextProxy
    BY DEF Probes, ProbeAnswers
  <1> DEFINE q == Updated(targets, good)
  <1>2. /\ PoolOK(q, nextProxy) /\ DOMAIN q = DOMAIN proxies
        /\ \A i \in DOMAIN proxies : q[i].at = proxies[i].at /\ q[i].behind = proxies[i].behind
    BY UpdatedPool
  <1>3. proxies' = q
    BY <1>1
  <1> HIDE DEF q
  <1> QED
    BY <1>1, <1>2, <1>3 DEF ProxyKept, Extends

LEMMA EnabledKeeps ==
    ASSUME PoolOK(proxies, nextProxy), NEW i \in DOMAIN proxies, NEW on \in BOOLEAN,
           SetEnabled(i, on)
    PROVE  ProxyKept
  <1> DEFINE e == proxies[i]
             q == proxies'
  <1>1. e \in EntryRecord /\ EntryOK(e) /\ proxies = [j \in DOMAIN proxies |-> proxies[j]]
    BY DEF PoolOK
  <1>2. PICK auto \in BOOLEAN, manual \in BOOLEAN, fails \in Nat :
           /\ manual => ~on /\ ~auto
           /\ proxies' = [proxies EXCEPT ![i].on = on, ![i].auto = auto,
                                         ![i].fails = fails, ![i].manual = manual]
    <2> DEFINE auto == e.auto /\ ~on
               manual == ~on /\ (e.manual \/ ~e.auto)
               fails == IF on THEN 0 ELSE e.fails
    <2>1. auto \in BOOLEAN /\ manual \in BOOLEAN /\ fails \in Nat /\ (manual => ~on /\ ~auto)
      BY <1>1 DEF EntryRecord, EntryOK
    <2>2. proxies' = [proxies EXCEPT ![i].on = on, ![i].auto = auto,
                                     ![i].fails = fails, ![i].manual = manual]
      BY <1>1 DEF SetEnabled, EntryRecord
    <2> HIDE DEF auto, manual, fails
    <2> QED
      BY <2>1, <2>2
  <1> DEFINE f == [e EXCEPT !.on = on, !.auto = auto, !.fails = fails, !.manual = manual]
  <1>3. q = [proxies EXCEPT ![i] = f]
    BY <1>1, <1>2 DEF EntryRecord
  <1>4. f \in EntryRecord
    BY <1>1 DEF EntryRecord
  <1>5. f.on = on /\ f.auto = auto /\ f.manual = manual
    BY <1>1 DEF EntryRecord
  <1>6. f.at = e.at /\ f.behind = e.behind /\ f.seen = e.seen /\ f.health = e.health
    BY <1>1 DEF EntryRecord
  <1> HIDE DEF f
  <1>7. EntryOK(f)
    BY <1>1, <1>2, <1>5, <1>6 DEF EntryOK
  <1>8. \A j \in DOMAIN proxies : /\ q[j] \in EntryRecord /\ EntryOK(q[j])
                                 /\ q[j].at = proxies[j].at /\ q[j].behind = proxies[j].behind
    BY <1>3, <1>4, <1>6, <1>7 DEF PoolOK
  <1>9. q = [j \in DOMAIN proxies |-> q[j]] /\ nextProxy' = nextProxy
    BY <1>3 DEF SetEnabled
  <1> HIDE DEF q
  <1>10. PoolOK(q, nextProxy)
    BY <1>8, <1>9, SameAddresses
  <1> QED
    BY <1>8, <1>9, <1>10 DEF ProxyKept, Extends, q

LEMMA WriteKeeps == ASSUME PoolOK(proxies, nextProxy), WriteChoice PROVE ProxyKept
  <1>1. CASE UNCHANGED proxies
    BY <1>1 DEF WriteChoice, ProxyKept, Extends
  <1>2. CASE proxies' = [i \in DOMAIN proxies |->
                            [proxies[i] EXCEPT !.behind = @ \/ i = admin.sync]]
    <2>1. ASSUME NEW i \in DOMAIN proxies
          PROVE  /\ proxies'[i] \in EntryRecord /\ EntryOK(proxies'[i])
                 /\ proxies'[i].at = proxies[i].at
                 /\ proxies[i].behind => proxies'[i].behind
      <3>1. proxies[i] \in EntryRecord /\ EntryOK(proxies[i])
        BY DEF PoolOK
      <3>2. PICK b \in BOOLEAN : /\ proxies'[i] = [proxies[i] EXCEPT !.behind = b]
                                 /\ proxies[i].behind => b
        <4> DEFINE b == proxies[i].behind \/ i = admin.sync
        <4>1. b \in BOOLEAN /\ (proxies[i].behind => b)
          OBVIOUS
        <4>2. proxies'[i] = [proxies[i] EXCEPT !.behind = b]
          BY <1>2
        <4> HIDE DEF b
        <4> QED
          BY <4>1, <4>2
      <3> DEFINE e == proxies[i]
                 f == [e EXCEPT !.behind = b]
      <3>3. f \in EntryRecord
        BY <3>1 DEF EntryRecord
      <3>4. /\ f.on = e.on /\ f.auto = e.auto /\ f.manual = e.manual
            /\ f.at = e.at /\ f.health = e.health /\ f.seen = e.seen /\ f.behind = b
        BY <3>1 DEF EntryRecord
      <3> HIDE DEF f
      <3>5. EntryOK(f)
        BY <3>1, <3>4 DEF EntryOK
      <3> QED
        BY <3>2, <3>3, <3>4, <3>5 DEF f
    <2> DEFINE q == proxies'
    <2>2. q = [i \in DOMAIN proxies |-> q[i]] /\ nextProxy' = nextProxy
      BY <1>2 DEF WriteChoice
    <2>3. PoolOK(q, nextProxy)
      <3>1. \A i \in DOMAIN proxies : q[i] \in EntryRecord /\ EntryOK(q[i]) /\ q[i].at = proxies[i].at
        BY <2>1
      <3> HIDE DEF q
      <3> QED
        BY <2>2, <3>1, SameAddresses
    <2> QED
      BY <2>1, <2>2, <2>3 DEF ProxyKept, Extends
  <1> QED
    BY <1>1, <1>2 DEF WriteChoice

LEMMA EditedPool ==
    ASSUME PoolOK(proxies, nextProxy), NEW i \in DOMAIN proxies, NEW a \in Addresses,
           EditProxy(i, a)
    PROVE  /\ PoolOK(proxies, nextProxy)' /\ DOMAIN proxies' = DOMAIN proxies
           /\ proxies'[i].at = a
           /\ \A j \in DOMAIN proxies : j # i => proxies'[j] = proxies[j]
  <1> DEFINE e == proxies[i]
             q == proxies'
  <1>1. e \in EntryRecord /\ EntryOK(e)
    BY DEF PoolOK
  <1>2. PICK on \in BOOLEAN :
           /\ e.manual => ~on
           /\ proxies' = [proxies EXCEPT ![i].at = a, ![i].health = "unknown", ![i].fails = 0,
                                         ![i].on = on, ![i].auto = FALSE]
    <2> DEFINE on == e.on \/ e.auto
    <2>1. on \in BOOLEAN /\ (e.manual => ~on)
      BY <1>1 DEF EntryOK
    <2>2. proxies' = [proxies EXCEPT ![i].at = a, ![i].health = "unknown", ![i].fails = 0,
                                     ![i].on = on, ![i].auto = FALSE]
      BY <1>1 DEF EditProxy, EntryRecord
    <2> HIDE DEF on
    <2> QED
      BY <2>1, <2>2
  <1> DEFINE f == [e EXCEPT !.at = a, !.health = "unknown", !.fails = 0, !.on = on, !.auto = FALSE]
  <1>3. q = [proxies EXCEPT ![i] = f]
    BY <1>1, <1>2 DEF EntryRecord
  <1>4. f \in EntryRecord
    BY <1>1 DEF EntryRecord
  <1>5. f.on = on /\ f.auto = FALSE /\ f.manual = e.manual /\ f.at = a /\ f.health = "unknown"
    BY <1>1 DEF EntryRecord
  <1> HIDE DEF f
  <1>6. EntryOK(f)
    BY <1>2, <1>5 DEF EntryOK
  <1>7. /\ DOMAIN q = DOMAIN proxies /\ q[i] = f
        /\ \A j \in DOMAIN proxies : j # i => q[j] = proxies[j]
    BY <1>3 DEF PoolOK
  <1>8. a \notin Listed /\ nextProxy' = nextProxy
    BY DEF EditProxy
  <1>9. q = [j \in DOMAIN q |-> q[j]]
    BY <1>3
  <1> HIDE DEF q
  <1>10. \A j \in DOMAIN q : q[j] \in EntryRecord /\ EntryOK(q[j])
    BY <1>4, <1>6, <1>7 DEF PoolOK
  <1>11. ASSUME NEW j \in DOMAIN q, NEW k \in DOMAIN q, q[j].at = q[k].at PROVE j = k
    BY <1>5, <1>7, <1>8, <1>11 DEF PoolOK, Listed
  <1>12. PoolOK(q, nextProxy)
    BY <1>7, <1>9, <1>10, <1>11 DEF PoolOK
  <1> QED
    BY <1>5, <1>7, <1>8, <1>12 DEF q

LEMMA DeletedPool ==
    ASSUME PoolOK(proxies, nextProxy), DeleteProxy
    PROVE  /\ PoolOK(proxies, nextProxy)' /\ DOMAIN proxies' = DOMAIN proxies \ {admin.id}
           /\ \A i \in DOMAIN proxies' : proxies'[i] = proxies[i]
  <1> DEFINE q == proxies'
  <1>1. /\ DOMAIN q = DOMAIN proxies \ {admin.id} /\ q = [i \in DOMAIN q |-> q[i]]
        /\ \A i \in DOMAIN q : q[i] = proxies[i]
    BY DEF DeleteProxy
  <1>2. nextProxy' = nextProxy
    BY DEF DeleteProxy
  <1> HIDE DEF q
  <1>3. PoolOK(q, nextProxy)
    BY <1>1 DEF PoolOK
  <1> QED
    BY <1>1, <1>2, <1>3 DEF q

(* A start: first is behind every id, as nextProxy was. *)
LEMMA RestartedPool ==
    ASSUME PoolOK(proxies, nextProxy), ProxyRestart
    PROVE  /\ PoolOK(proxies, nextProxy)'
           /\ \E p :
                /\ DOMAIN p = DOMAIN proxies'
                /\ \A i \in DOMAIN proxies : i \in DOMAIN p /\ p[i].at = proxies[i].at
                /\ \A i \in DOMAIN p : p[i].at = proxies'[i].at
                /\ LET fixes == Fixes(egress, p)
                   IN  egress' = [c \in Egresses |->
                                    IF c \in DOMAIN fixes
                                    THEN Rebound(egress[c], fixes[c], FALSE) ELSE egress[c]]
  <1>1. PICK first \in 1..nextProxy :
          LET p == Joined(first, egress)
              fixes == Fixes(egress, p)
          IN  /\ \A i \in DOMAIN proxies : i < first
              /\ proxies' = [i \in DOMAIN p |-> [p[i] EXCEPT !.behind = FALSE]]
              /\ nextProxy' = NextId(first, p)
              /\ egress' = [c \in Egresses |-> IF c \in DOMAIN fixes
                                               THEN Rebound(egress[c], fixes[c], FALSE)
                                               ELSE egress[c]]
    BY DEF ProxyRestart
  <1> DEFINE p == Joined(first, egress)
             q == proxies'
             n == NextId(first, p)
  <1>2. PoolOK(proxies, first)
    BY <1>1 DEF PoolOK
  <1>3. PoolOK(p, n) /\ \A i \in DOMAIN proxies : i \in DOMAIN p /\ p[i] = proxies[i]
    BY <1>2, JoinedPool
  <1>4. q = [i \in DOMAIN p |-> [p[i] EXCEPT !.behind = FALSE]] /\ nextProxy' = n
    BY <1>1
  <1> HIDE DEF p, n
  <1>5. DOMAIN q = DOMAIN p /\ q = [i \in DOMAIN p |-> q[i]]
    BY <1>4
  <1>6. ASSUME NEW i \in DOMAIN p
        PROVE  q[i] \in EntryRecord /\ EntryOK(q[i]) /\ q[i].at = p[i].at
    <2> DEFINE e == p[i]
               f == q[i]
    <2>1. e \in EntryRecord /\ EntryOK(e)
      BY <1>3 DEF PoolOK
    <2>2. f = [e EXCEPT !.behind = FALSE]
      BY <1>4
    <2> HIDE DEF e, f
    <2>3. f \in EntryRecord
      BY <2>1, <2>2 DEF EntryRecord
    <2>4. /\ f.on = e.on /\ f.auto = e.auto /\ f.manual = e.manual
          /\ f.at = e.at /\ f.health = e.health /\ f.seen = e.seen
      BY <2>1, <2>2 DEF EntryRecord
    <2>5. EntryOK(f)
      BY <2>1, <2>4 DEF EntryOK
    <2> QED
      BY <2>3, <2>4, <2>5 DEF e, f
  <1> HIDE DEF q
  <1>7. PoolOK(q, n)
    BY <1>3, <1>5, <1>6, SameAddresses
  <1>8. LET fixes == Fixes(egress, p)
        IN  egress' = [c \in Egresses |-> IF c \in DOMAIN fixes
                                         THEN Rebound(egress[c], fixes[c], FALSE) ELSE egress[c]]
    BY <1>1 DEF p
  <1>9. \A i \in DOMAIN p : p[i].at = q[i].at
    BY <1>6
  <1> QED
    BY <1>3, <1>4, <1>5, <1>7, <1>8, <1>9 DEF q

\* The steps that leave the pool alone.
Spares == UNCHANGED <<proxies, nextProxy>>

LEMMA SpareSteps ==
    ASSUME
    \/ SyncLinked \/ RoundRobin \/ ReadGlobal \/ Judge \/ Rotate \/ Align
    \/ \E i \in DOMAIN proxies : AskDelete(i) \/ AskProbe(i)
    \/ \E c \in Egresses : Choose(c)
    \/ \E g \in Addresses \cup {"none"} : SetGlobal(g)
    PROVE Spares
  BY DEF Spares, SyncLinked, RoundRobin, ReadGlobal, Judge, Rotate, Align, AskDelete, AskProbe,
         Choose, SetGlobal

LEMMA PoolStep ==
    ASSUME PoolOK(proxies, nextProxy), AdminOK(admin), ProxyNext
    PROVE  PoolOK(proxies, nextProxy)'
  <1>1. CASE AdminNext
    <2>1. ASSUME NEW a \in Addresses, AddProxy(a) PROVE PoolOK(proxies, nextProxy)'
      BY <2>1, AddKeeps DEF ProxyKept
    <2>2. ASSUME NEW i \in DOMAIN proxies, NEW a \in Addresses, EditProxy(i, a)
          PROVE  PoolOK(proxies, nextProxy)'
      BY <2>2, EditedPool
    <2>3. ASSUME NEW i \in DOMAIN proxies, NEW on \in BOOLEAN, SetEnabled(i, on)
          PROVE  PoolOK(proxies, nextProxy)'
      BY <2>3, EnabledKeeps DEF ProxyKept
    <2>4. ASSUME DeleteProxy \/ WriteChoice \/ Adoption \/ ProbeAnswers
          PROVE  PoolOK(proxies, nextProxy)'
      BY <2>4, DeletedPool, WriteKeeps, AdoptionKeeps, ProbesKeep DEF ProxyKept
    <2>5. ASSUME Spares PROVE PoolOK(proxies, nextProxy)'
      BY <2>5 DEF Spares
    <2> QED
      BY <1>1, <2>1, <2>2, <2>3, <2>4, <2>5, SpareSteps DEF AdminNext
  <1>2. CASE CheckerNext
    <2>1. ASSUME Detect \/ Probes \/ Migrate PROVE PoolOK(proxies, nextProxy)'
      BY <2>1, DetectKeeps, ProbesKeep, MigrateKeeps DEF ProxyKept
    <2>2. ASSUME Spares PROVE PoolOK(proxies, nextProxy)'
      BY <2>2 DEF Spares
    <2> QED
      BY <1>2, <2>1, <2>2, SpareSteps DEF CheckerNext
  <1>3. CASE ProxyRestart
    BY <1>3, RestartedPool
  <1> QED
    BY <1>1, <1>2, <1>3 DEF ProxyNext

-----------------------------------------------------------------------------
(* What each step makes of the settings and of the operations under way. *)

LEMMA ReboundOK ==
    ASSUME NEW s \in SettingRecord, NEW b \in BindingRecord, NEW manual \in BOOLEAN
    PROVE  LET r == Rebound(s, b, manual)
           IN  r \in SettingRecord /\ r.link = b.link /\ r.url = b.url
  <1> DEFINE r == Rebound(s, b, manual)
             same == s.url = b.url /\ s.link = b.link /\ ~(manual /\ (s.assigned \/ s.temp))
  <1>1. CASE same
    BY <1>1 DEF Rebound
  <1>2. CASE ~same
    <2>1. PICK temp \in BOOLEAN, assigned \in BOOLEAN :
             r = [s EXCEPT !.link = b.link, !.url = b.url, !.temp = temp, !.assigned = assigned]
      <3> DEFINE temp == s.temp /\ ~manual
                 assigned == s.assigned /\ ~manual
      <3>1. r = [s EXCEPT !.link = b.link, !.url = b.url, !.temp = temp, !.assigned = assigned]
        BY <1>2 DEF Rebound
      <3>2. temp \in BOOLEAN /\ assigned \in BOOLEAN
        OBVIOUS
      <3> HIDE DEF temp, assigned, r
      <3> QED
        BY <3>1, <3>2
    <2> HIDE DEF r
    <2>2. b.link \in Nat /\ b.url \in Urls
      BY DEF BindingRecord
    <2>3. r \in SettingRecord
      BY <2>1, <2>2 DEF SettingRecord
    <2>4. r.link = b.link /\ r.url = b.url
      BY <2>1 DEF SettingRecord
    <2> QED
      BY <2>3, <2>4 DEF r
  <1> QED
    BY <1>1, <1>2

\* Credentials before and after they take bindings.
Taken(bindings) ==
    /\ egress' \in [Egresses -> SettingRecord]
    /\ \A c \in Egresses :
          IF c \in DOMAIN bindings
          THEN egress'[c].link = bindings[c].link /\ egress'[c].url = bindings[c].url
          ELSE egress'[c] = egress[c]

LEMMA TakesBindings ==
    ASSUME egress \in [Egresses -> SettingRecord], NEW manual \in BOOLEAN, NEW bindings,
           bindings \in [DOMAIN bindings -> BindingRecord],
           egress' = [c \in Egresses |-> IF c \in DOMAIN bindings
                                        THEN Rebound(egress[c], bindings[c], manual)
                                        ELSE egress[c]]
    PROVE  Taken(bindings)
  <1>1. ASSUME NEW c \in Egresses
        PROVE  /\ egress'[c] \in SettingRecord
               /\ IF c \in DOMAIN bindings
                  THEN egress'[c].link = bindings[c].link /\ egress'[c].url = bindings[c].url
                  ELSE egress'[c] = egress[c]
    <2>1. CASE c \in DOMAIN bindings
      <3>1. bindings[c] \in BindingRecord /\ egress[c] \in SettingRecord
        BY <2>1
      <3>2. egress'[c] = Rebound(egress[c], bindings[c], manual)
        BY <2>1
      <3> QED
        BY <2>1, <3>1, <3>2, ReboundOK
    <2>2. CASE c \notin DOMAIN bindings
      BY <2>2
    <2> QED
      BY <2>1, <2>2
  <1> QED
    BY <1>1 DEF Taken

LEMMA BindTakes ==
    ASSUME egress \in [Egresses -> SettingRecord], NEW manual \in BOOLEAN, NEW bindings,
           bindings \in [DOMAIN bindings -> BindingRecord], Bind(bindings, manual)
    PROVE  /\ Taken(bindings)
           /\ moved' = moved \cup {c \in Egresses : egress'[c] # egress[c]}
  <1>1. egress' = [c \in Egresses |-> IF c \in DOMAIN bindings
                                     THEN Rebound(egress[c], bindings[c], manual)
                                     ELSE egress[c]]
    BY DEF Bind
  <1>2. moved' = moved \cup {c \in Egresses : egress'[c] # egress[c]}
    BY DEF Bind
  <1> QED
    BY <1>1, <1>2, TakesBindings

(* An alignment links every address that is in the pool to its entry. *)
LEMMA FixesLink ==
    ASSUME NEW settings \in [Egresses -> SettingRecord], NEW p, DOMAIN p \subseteq Nat \ {0},
           \A i \in DOMAIN p : p[i].at \in Addresses,
           \A i \in DOMAIN proxies : i \in DOMAIN p /\ p[i].at = proxies[i].at
    PROVE  LET fixes == Fixes(settings, p)
           IN  /\ fixes \in [DOMAIN fixes -> BindingRecord]
               /\ \A c \in DOMAIN fixes : Linked(p, fixes[c].link, fixes[c].url)
               /\ \A c \in Egresses : /\ c \notin DOMAIN fixes
                                      /\ settings[c].link \in {0} \cup DOMAIN proxies
                    => Linked(p, settings[c].link, settings[c].url)
  <1> DEFINE fix(c) ==
               LET s == settings[c]
               IN  CASE s.url \notin Addresses -> [link |-> 0, url |-> s.url]
                     [] s.url \in Addresses /\ s.link \in DOMAIN proxies ->
                            [link |-> s.link, url |-> proxies[s.link].at]
                     [] OTHER -> [link |-> IdOf(p, s.url), url |-> s.url]
             known == {c \in Egresses :
                         c \in Stray(settings) => \E i \in DOMAIN p : p[i].at = settings[c].url}
             wrong == {c \in known : fix(c) # [link |-> settings[c].link, url |-> settings[c].url]}
             fixes == Fixes(settings, p)
  <1>1. fixes = [c \in wrong |-> fix(c)]
    BY DEF Fixes
  <1>2. ASSUME NEW c \in known
        PROVE  fix(c) \in BindingRecord /\ Linked(p, fix(c).link, fix(c).url)
    <2>1. settings[c] \in SettingRecord
      OBVIOUS
    <2>2. CASE settings[c].url \notin Addresses
      BY <2>1, <2>2 DEF SettingRecord, BindingRecord, Linked
    <2>3. CASE settings[c].url \in Addresses /\ settings[c].link \in DOMAIN proxies
      BY <2>1, <2>3 DEF SettingRecord, BindingRecord, Linked, Urls
    <2>4. CASE settings[c].url \in Addresses /\ settings[c].link \notin DOMAIN proxies
      <3>1. \E i \in DOMAIN p : p[i].at = settings[c].url
        BY <2>4 DEF Stray
      <3> DEFINE i == IdOf(p, settings[c].url)
      <3>2. i \in DOMAIN p /\ p[i].at = settings[c].url
        BY <3>1 DEF IdOf
      <3>3. fix(c) = [link |-> i, url |-> settings[c].url]
        BY <2>4
      <3> HIDE DEF i
      <3> QED
        BY <2>4, <3>2, <3>3 DEF BindingRecord, Linked, Urls
    <2> QED
      BY <2>2, <2>3, <2>4
  <1>3. ASSUME NEW c \in Egresses, c \notin wrong, settings[c].link \in DOMAIN proxies
        PROVE  Linked(p, settings[c].link, settings[c].url)
    <2>1. c \in known
      BY <1>3 DEF Stray
    <2>2. fix(c) = [link |-> settings[c].link, url |-> settings[c].url]
      BY <1>3, <2>1
    <2> HIDE DEF fix
    <2> QED
      BY <1>2, <2>1, <2>2
  <1>4. \A c \in Egresses : settings[c].link = 0 => Linked(p, settings[c].link, settings[c].url)
    BY DEF Linked
  <1> HIDE DEF fix, fixes
  <1>5. wrong \subseteq known /\ DOMAIN fixes = wrong /\ \A c \in wrong : fixes[c] = fix(c)
    BY <1>1
  <1> HIDE DEF wrong, known
  <1>6. fixes \in [DOMAIN fixes -> BindingRecord]
    BY <1>1, <1>2, <1>5
  <1> QED
    BY <1>2, <1>3, <1>4, <1>5, <1>6 DEF fixes

\* Whose turn it is, in a round of assignments.
LEMMA InTurn ==
    ASSUME PoolOK(proxies, nextProxy), RoundRobin
    PROVE  \E to \in [Egresses -> DOMAIN proxies] :
              admin' = [pc |-> "write", then |-> "none", sync |-> 0,
                        bindings |-> [c \in Egresses |-> Binding(to[c])]]
  <1> DEFINE S == {i \in DOMAIN proxies : proxies[i].on /\ proxies[i].health # "unhealthy"}
             able == SetToSeq(S)
             cs == SetToSeq(Egresses)
             nth(c) == CHOOSE k \in 1..Len(cs) : cs[k] = c
             to == [c \in Egresses |-> able[((nth(c) - 1) % Len(able)) + 1]]
  <1>1. IsFiniteSet(S)
    <2>1. nextProxy - 1 \in Int /\ S \subseteq 1..(nextProxy - 1)
      BY DEF PoolOK
    <2>2. IsFiniteSet(1..(nextProxy - 1))
      BY <2>1, FS_Interval
    <2> HIDE DEF S
    <2> QED
      BY <2>1, <2>2, FS_Subset
  <1>2. Len(able) \in Nat /\ able \in [1..Len(able) -> S]
    <2> HIDE DEF S
    <2> QED
      BY <1>1, SequenceOfSet
  <1>3. Len(cs) \in Nat /\ \A c \in Egresses : \E k \in 1..Len(cs) : cs[k] = c
    BY ProxyAssumption, SequenceOfSet
  <1>4. able # <<>> /\ admin' = [pc |-> "write", then |-> "none", sync |-> 0,
           bindings |-> [c \in Egresses |-> Binding(able[((nth(c) - 1) % Len(able)) + 1])]]
    BY DEF RoundRobin
  <1> HIDE DEF able, cs, S
  <1>5. Len(able) > 0
    BY <1>2, <1>4
  <1>6. ASSUME NEW c \in Egresses PROVE to[c] \in DOMAIN proxies
    <2>1. nth(c) \in 1..Len(cs)
      BY <1>3
    <2> HIDE DEF nth
    <2>2. ((nth(c) - 1) % Len(able)) + 1 \in 1..Len(able)
      BY <1>2, <1>3, <1>5, <2>1
    <2> QED
      BY <1>2, <2>2 DEF S
  <1> HIDE DEF nth
  <1>7. to \in [Egresses -> DOMAIN proxies]
    BY <1>6
  <1>8. admin' = [pc |-> "write", then |-> "none", sync |-> 0,
                  bindings |-> [c \in Egresses |-> Binding(to[c])]]
    BY <1>4
  <1> HIDE DEF to
  <1> QED
    BY <1>7, <1>8

LEMMA BindingOK ==
    ASSUME PoolOK(proxies, nextProxy), NEW i \in DOMAIN proxies
    PROVE  Binding(i) \in BindingRecord /\ Linked(proxies, Binding(i).link, Binding(i).url)
  BY DEF PoolOK, Binding, BindingRecord, Linked, EntryRecord, Urls

LEMMA OnlyOK ==
    ASSUME NEW c, NEW b \in BindingRecord
    PROVE  /\ DOMAIN Only(c, b) = {c} /\ Only(c, b)[c] = b
           /\ Only(c, b) \in [DOMAIN Only(c, b) -> BindingRecord]
  BY DEF Only

LEMMA OtherPlace ==
    ASSUME NEW a, a.pc \notin {"write", "adopt", "sync"}
    PROVE  AdminOK(a)
  BY DEF AdminOK

(* The administrator's next step, whatever it is, is one that fits. *)
LEMMA AdminStep ==
    ASSUME PoolOK(proxies, nextProxy), PoolOK(proxies, nextProxy)', AdminOK(admin), ProxyNext
    PROVE  AdminOK(admin)'
  <1>1. ASSUME NEW i \in DOMAIN proxies, NEW a \in Addresses, EditProxy(i, a)
        PROVE  AdminOK(admin)'
    <2>1. admin' = [pc |-> "sync", id |-> i, at |-> a] /\ i \in Nat
      BY <1>1 DEF EditProxy, PoolOK
    <2> QED
      BY <2>1 DEF AdminOK
  <1>2. CASE SyncLinked
    <2>1. admin.id \in Nat /\ admin.at \in Addresses
      BY <1>2 DEF SyncLinked, AdminOK
    <2> DEFINE b == [link |-> admin.id, url |-> admin.at]
    <2>2. b \in BindingRecord
      BY <2>1 DEF BindingRecord, Urls
    <2>3. PICK linked : admin' = [pc |-> "write", then |-> "none", sync |-> admin.id,
                                  bindings |-> [c \in linked |-> b]]
      BY <1>2 DEF SyncLinked
    <2> HIDE DEF b
    <2> QED
      BY <2>2, <2>3 DEF AdminOK
  <1>3. ASSUME NEW c \in Egresses, Choose(c) PROVE AdminOK(admin)'
    <2>1. ASSUME NEW b \in BindingRecord,
                 admin' = [pc |-> "write", then |-> "none", sync |-> 0, bindings |-> Only(c, b)]
          PROVE  AdminOK(admin)'
      BY <2>1, OnlyOK DEF AdminOK
    <2>2. ASSUME NEW a \in Addresses,
                 admin' = [pc |-> "write", then |-> "adopt", sync |-> 0,
                           bindings |-> Only(c, [link |-> 0, url |-> a])]
          PROVE  AdminOK(admin)'
      <3>1. [link |-> 0, url |-> a] \in BindingRecord
        BY DEF BindingRecord, Urls
      <3>2. Custom(Only(c, [link |-> 0, url |-> a]))
        BY DEF Custom
      <3> QED
        BY <2>2, <3>1, <3>2, OnlyOK DEF AdminOK
    <2>3. \A url \in {"global", "direct"} : [link |-> 0, url |-> url] \in BindingRecord
      BY DEF BindingRecord, Urls
    <2> QED
      BY <1>3, <2>1, <2>2, <2>3, BindingOK DEF Choose
  <1>4. CASE RoundRobin
    <2>1. PICK to \in [Egresses -> DOMAIN proxies] :
             admin' = [pc |-> "write", then |-> "none", sync |-> 0,
                       bindings |-> [c \in Egresses |-> Binding(to[c])]]
      BY <1>4, InTurn
    <2>2. \A c \in Egresses : Binding(to[c]) \in BindingRecord
      BY BindingOK
    <2>3. [c \in Egresses |-> Binding(to[c])] \in [Egresses -> BindingRecord]
      BY <2>2
    <2> QED
      BY <2>1, <2>3 DEF AdminOK
  <1>5. CASE WriteChoice
    <2>1. CASE admin' = [pc |-> "adopt", bindings |-> admin.bindings] /\ admin.then = "adopt"
      BY <1>5, <2>1 DEF WriteChoice, AdminOK
    <2>2. CASE admin' = AdminIdle
      BY <2>2, OtherPlace DEF AdminIdle
    <2> QED
      BY <1>5, <2>1, <2>2 DEF WriteChoice
  <1>6. CASE Adoption
    <2>1. PICK c, a : /\ a \in Addresses
                      /\ \/ admin' = AdminIdle
                         \/ /\ \E i \in DOMAIN proxies' : proxies'[i].at = a
                            /\ admin' = [pc |-> "write", then |-> "none", sync |-> 0,
                                  bindings |-> Only(c, [link |-> IdOf(proxies', a), url |-> a])]
      <3>1. PICK c \in Egresses, a \in Addresses :
               admin.bindings = Only(c, [link |-> 0, url |-> a])
        BY <1>6 DEF AdminOK, Adoption, Custom
      <3> DEFINE c0 == CHOOSE x \in DOMAIN admin.bindings : TRUE
                 a0 == admin.bindings[c0].url
                 new == {a0} \ Listed
                 p == IF Room(nextProxy, new) THEN Grown(nextProxy, new, FALSE) ELSE proxies
      <3>2. c0 = c /\ a0 = a
        BY <3>1 DEF Only
      <3>3. /\ proxies' = p
            /\ admin' = IF \E i \in DOMAIN p : p[i].at = a0
                        THEN [pc |-> "write", then |-> "none", sync |-> 0,
                              bindings |-> Only(c0, [link |-> IdOf(p, a0), url |-> a0])]
                        ELSE AdminIdle
        BY <1>6 DEF Adoption
      <3> HIDE DEF c0, a0, p
      <3>4. admin' = IF \E i \in DOMAIN proxies' : proxies'[i].at = a
                     THEN [pc |-> "write", then |-> "none", sync |-> 0,
                           bindings |-> Only(c, [link |-> IdOf(proxies', a), url |-> a])]
                     ELSE AdminIdle
        BY <3>2, <3>3
      <3> QED
        BY <3>4
    <2>2. CASE admin' = AdminIdle
      BY <2>2, OtherPlace DEF AdminIdle
    <2>3. CASE admin' # AdminIdle
      <3> DEFINE b == [link |-> IdOf(proxies', a), url |-> a]
      <3>1. IdOf(proxies', a) \in DOMAIN proxies'
        BY <2>1, <2>3 DEF IdOf
      <3>2. b \in BindingRecord
        BY <2>1, <3>1 DEF BindingRecord, Urls, PoolOK
      <3>3. admin' = [pc |-> "write", then |-> "none", sync |-> 0, bindings |-> Only(c, b)]
        BY <2>1, <2>3
      <3> HIDE DEF b
      <3> QED
        BY <3>2, <3>3, OnlyOK DEF AdminOK
    <2> QED
      BY <2>2, <2>3
  <1>7. ASSUME NEW i \in DOMAIN proxies, AskDelete(i) \/ AskProbe(i) PROVE AdminOK(admin)'
    <2>1. admin'.pc \in {"delete", "probe"}
      BY <1>7 DEF AskDelete, AskProbe
    <2> QED
      BY <2>1, OtherPlace
  <1>8. CASE DeleteProxy \/ ProbeAnswers \/ ProxyRestart
    <2>1. admin'.pc = "idle"
      <3>1. CASE DeleteProxy \/ ProbeAnswers
        BY <3>1 DEF DeleteProxy, ProbeAnswers, AdminIdle
      <3>2. CASE ProxyRestart
        <4>1. admin' = AdminIdle
          BY <3>2 DEF ProxyRestart
        <4> QED
          BY <4>1 DEF AdminIdle
      <3> QED
        BY <1>8, <3>1, <3>2
    <2> QED
      BY <2>1, OtherPlace
  <1>9. ASSUME UNCHANGED admin PROVE AdminOK(admin)'
    BY <1>9 DEF AdminOK
  <1>10. CASE CheckerNext
    BY <1>9, <1>10 DEF CheckerNext, Detect, Probes, ReadGlobal, Judge, Rotate, Migrate, Align
  <1>11. ASSUME \/ \E a \in Addresses : AddProxy(a)
                \/ \E i \in DOMAIN proxies, on \in BOOLEAN : SetEnabled(i, on)
                \/ \E g \in Addresses \cup {"none"} : SetGlobal(g)
         PROVE  AdminOK(admin)'
    BY <1>9, <1>11 DEF AddProxy, SetEnabled, SetGlobal
  <1>12. CASE AdminNext
    BY <1>1, <1>2, <1>3, <1>4, <1>5, <1>6, <1>7, <1>8, <1>11, <1>12 DEF AdminNext
  <1> QED
    BY <1>8, <1>10, <1>12 DEF ProxyNext

LEMMA PoolAddresses ==
    ASSUME NEW p, NEW n, PoolOK(p, n)
    PROVE  DOMAIN p \subseteq Nat \ {0} /\ \A i \in DOMAIN p : p[i].at \in Addresses
  BY DEF PoolOK, EntryRecord

LEMMA MigrateFixes ==
    ASSUME PoolOK(proxies, nextProxy), egress \in [Egresses -> SettingRecord], Migrate
    PROVE  checker'.pc = "align" /\ checker'.fixes \in [DOMAIN checker'.fixes -> BindingRecord]
  <1> DEFINE p == Joined(nextProxy, egress)
             fixes == Fixes(egress, p)
  <1>1. /\ PoolOK(p, NextId(nextProxy, p))
        /\ \A i \in DOMAIN proxies : i \in DOMAIN p /\ p[i] = proxies[i]
    BY JoinedPool
  <1>2. checker' = [pc |-> "align", fixes |-> fixes]
    BY DEF Migrate
  <1> HIDE DEF p
  <1>3. fixes \in [DOMAIN fixes -> BindingRecord]
    BY <1>1, PoolAddresses, FixesLink
  <1> HIDE DEF fixes
  <1> QED
    BY <1>2, <1>3

\* The places the checker goes through.
LEMMA CheckerPlaces ==
    /\ Detect => checker.pc = "idle" /\ checker'.pc = "probe"
    /\ Probes => /\ checker.pc = "probe" /\ checker'.pc \in {"rotate", "idle"}
                 /\ ~rotating.rotate => checker'.pc = "idle"
    /\ ReadGlobal => checker.pc = "rotate" /\ checker'.pc = "judge"
    /\ Rotate => checker.pc = "apply" /\ checker'.pc \in {"migrate", "idle"}
    /\ Align => checker.pc = "align" /\ checker'.pc = "idle"
    /\ ProxyRestart => checker'.pc = "idle"
  <1>1. Detect => checker.pc = "idle" /\ checker'.pc = "probe"
    BY DEF Detect, CheckerIdle
  <1>2. Probes => /\ checker.pc = "probe" /\ checker'.pc \in {"rotate", "idle"}
                  /\ ~rotating.rotate => checker'.pc = "idle"
    BY DEF Probes, CheckerIdle
  <1>3. ReadGlobal => checker.pc = "rotate" /\ checker'.pc = "judge"
    BY DEF ReadGlobal
  <1>4. Rotate => checker.pc = "apply" /\ checker'.pc \in {"migrate", "idle"}
    BY DEF Rotate, CheckerIdle
  <1>5. Align => checker.pc = "align" /\ checker'.pc = "idle"
    BY DEF Align, CheckerIdle
  <1>6. ProxyRestart => checker'.pc = "idle"
    <2>1. ProxyRestart => checker' = CheckerIdle
      BY DEF ProxyRestart
    <2> QED
      BY <2>1 DEF CheckerIdle
  <1> QED
    BY <1>1, <1>2, <1>3, <1>4, <1>5, <1>6

LEMMA AdminSparesChecker == AdminNext => UNCHANGED <<checker, rotating>>
  BY DEF AdminNext, AddProxy, EditProxy, AskDelete, AskProbe, SetEnabled, Choose, SetGlobal,
         SyncLinked, DeleteProxy, RoundRobin, WriteChoice, Adoption, ProbeAnswers

LEMMA CheckerStep ==
    ASSUME PoolOK(proxies, nextProxy), egress \in [Egresses -> SettingRecord],
           CheckerOK(checker), ProxyNext
    PROVE  CheckerOK(checker)'
  <1>1. CASE Detect \/ Probes \/ ReadGlobal \/ Rotate \/ Align
    <2>1. checker'.pc \in {"probe", "rotate", "idle", "judge", "migrate"}
      BY <1>1, CheckerPlaces
    <2> QED
      BY <2>1 DEF CheckerOK
  <1>2. CASE Judge
    <2>1. CASE checker' = CheckerIdle
      BY <2>1 DEF CheckerIdle, CheckerOK
    <2>2. CASE checker' # CheckerIdle
      <3>1. PICK turns \in SUBSET Egresses : \E targets \in [turns -> Addresses \cup {"restore", "direct"}] :
               checker' = [pc |-> "apply", global |-> checker.global, read |-> egress,
                           targets |-> targets]
        BY <1>2, <2>2 DEF Judge
      <3> QED
        BY <3>1 DEF CheckerOK
    <2> QED
      BY <2>1, <2>2
  <1>3. CASE Migrate
    BY <1>3, MigrateFixes DEF CheckerOK
  <1>4. CASE ProxyRestart
    BY <1>4, CheckerPlaces DEF CheckerOK
  <1>5. CASE AdminNext
    BY <1>5, AdminSparesChecker DEF CheckerOK
  <1> QED
    BY <1>1, <1>2, <1>3, <1>4, <1>5 DEF ProxyNext, CheckerNext

LEMMA RotatedOK ==
    ASSUME NEW s \in SettingRecord, NEW t \in Addresses \cup {"restore", "direct"}
    PROVE  Rotated(s, t) \in SettingRecord
  BY DEF Rotated, SettingRecord, Urls

LEMMA RotateTakes ==
    ASSUME egress \in [Egresses -> SettingRecord], CheckerOK(checker), Rotate
    PROVE  egress' \in [Egresses -> SettingRecord]
  <1>1. CASE UNCHANGED egress
    BY <1>1
  <1>2. CASE egress' = [c \in Egresses |-> IF c \in DOMAIN checker.targets
                               THEN Rotated(egress[c], checker.targets[c]) ELSE egress[c]]
    <2>1. ASSUME NEW c \in Egresses PROVE egress'[c] \in SettingRecord
      <3>1. c \in DOMAIN checker.targets
               => checker.targets[c] \in Addresses \cup {"restore", "direct"}
        BY DEF Rotate, CheckerOK
      <3> QED
        BY <1>2, <3>1, RotatedOK
    <2> QED
      BY <1>2, <2>1
  <1> QED
    BY <1>1, <1>2 DEF Rotate

LEMMA StartAligns ==
    ASSUME PoolOK(proxies, nextProxy), egress \in [Egresses -> SettingRecord], ProxyRestart
    PROVE  /\ egress' \in [Egresses -> SettingRecord]
           /\ (\A c \in Egresses : egress[c].link \in {0} \cup DOMAIN proxies) =>
                 \A c \in Egresses : Linked(proxies', egress'[c].link, egress'[c].url)
  <1>1. PICK p :
           /\ DOMAIN p = DOMAIN proxies'
           /\ \A i \in DOMAIN proxies : i \in DOMAIN p /\ p[i].at = proxies[i].at
           /\ \A i \in DOMAIN p : p[i].at = proxies'[i].at
           /\ LET fixes == Fixes(egress, p)
              IN  egress' = [c \in Egresses |->
                               IF c \in DOMAIN fixes
                               THEN Rebound(egress[c], fixes[c], FALSE) ELSE egress[c]]
    BY RestartedPool
  <1> DEFINE fixes == Fixes(egress, p)
             q == proxies'
  <1>2. DOMAIN q \subseteq Nat \ {0} /\ \A i \in DOMAIN q : q[i].at \in Addresses
    <2>1. PoolOK(proxies', nextProxy')
      BY RestartedPool
    <2> QED
      BY <2>1, PoolAddresses
  <1>3. /\ fixes \in [DOMAIN fixes -> BindingRecord]
        /\ \A c \in DOMAIN fixes : Linked(p, fixes[c].link, fixes[c].url)
        /\ \A c \in Egresses : c \notin DOMAIN fixes /\ egress[c].link \in {0} \cup DOMAIN proxies
              => Linked(p, egress[c].link, egress[c].url)
    <2>1. DOMAIN p \subseteq Nat \ {0} /\ \A i \in DOMAIN p : p[i].at \in Addresses
      BY <1>1, <1>2
    <2> QED
      BY <1>1, <2>1, FixesLink
  <1>4. egress' = [c \in Egresses |-> IF c \in DOMAIN fixes
                                     THEN Rebound(egress[c], fixes[c], FALSE) ELSE egress[c]]
    BY <1>1
  <1> HIDE DEF fixes
  <1>5. Taken(fixes)
    BY <1>3, <1>4, TakesBindings
  <1>6. \A link, url : Linked(p, link, url) => Linked(q, link, url)
    BY <1>1 DEF Linked
  <1>7. ASSUME \A c \in Egresses : egress[c].link \in {0} \cup DOMAIN proxies, NEW c \in Egresses
        PROVE  Linked(q, egress'[c].link, egress'[c].url)
    BY <1>3, <1>5, <1>6, <1>7 DEF Taken
  <1> QED
    BY <1>5, <1>7 DEF Taken

LEMMA EgressStep ==
    ASSUME PoolOK(proxies, nextProxy), ProxyTypesOK, ProxyNext
    PROVE  egress' \in [Egresses -> SettingRecord]
  <1>1. ASSUME UNCHANGED egress PROVE egress' \in [Egresses -> SettingRecord]
    BY <1>1 DEF ProxyTypesOK
  <1>2. CASE WriteChoice
    <2>1. ASSUME Bind(admin.bindings, TRUE) PROVE egress' \in [Egresses -> SettingRecord]
      <3>1. admin.bindings \in [DOMAIN admin.bindings -> BindingRecord]
        BY <1>2 DEF WriteChoice, ProxyTypesOK, AdminOK
      <3> QED
        BY <2>1, <3>1, BindTakes DEF Taken, ProxyTypesOK
    <2> QED
      BY <1>1, <1>2, <2>1 DEF WriteChoice
  <1>3. CASE Align
    <2>1. checker.fixes \in [DOMAIN checker.fixes -> BindingRecord] /\ Bind(checker.fixes, FALSE)
      BY <1>3 DEF Align, ProxyTypesOK, CheckerOK
    <2> QED
      BY <2>1, BindTakes DEF Taken, ProxyTypesOK
  <1>4. CASE Rotate
    BY <1>4, RotateTakes DEF ProxyTypesOK
  <1>5. CASE ProxyRestart
    BY <1>5, StartAligns DEF ProxyTypesOK
  <1>6. CASE Detect \/ Probes \/ ReadGlobal \/ Judge \/ Migrate
    BY <1>1, <1>6 DEF Detect, Probes, ReadGlobal, Judge, Migrate
  <1>7. CASE AdminNext
    BY <1>1, <1>2, <1>7
       DEF AdminNext, AddProxy, EditProxy, AskDelete, AskProbe, SetEnabled, Choose, SetGlobal,
           SyncLinked, DeleteProxy, RoundRobin, Adoption, ProbeAnswers
  <1> QED
    BY <1>3, <1>4, <1>5, <1>6, <1>7 DEF ProxyNext, CheckerNext

LEMMA TypesStep ==
    ASSUME PoolOK(proxies, nextProxy), ProxyTypesOK, ProxyNext
    PROVE  ProxyTypesOK'
  <1>1. PoolOK(proxies, nextProxy)'
    BY PoolStep DEF ProxyTypesOK
  <1> QED
    BY <1>1, AdminStep, CheckerStep, EgressStep DEF ProxyTypesOK

-----------------------------------------------------------------------------
(* Links and copies, where no rotation runs. *)

LEMMA CopiesKept ==
    ASSUME NEW p, NEW q, NEW e, NEW a, NEW b, CopiesOK(p, e, a), Extends(p, q),
           a.pc \notin {"sync", "write"} \/ a = b
    PROVE  CopiesOK(q, e, b)
  BY DEF CopiesOK, Extends, ProxyPending

LEMMA UnderWayKept ==
    ASSUME NEW p, NEW q, NEW e, NEW a, UnderWay(p, e, a), Extends(p, q)
    PROVE  UnderWay(q, e, a)
  BY DEF UnderWay, Extends, Linked

LEMMA NothingUnderWay ==
    ASSUME NEW p, NEW e, NEW a, a.pc \notin {"sync", "write", "delete"}
    PROVE  UnderWay(p, e, a)
  BY DEF UnderWay

LEMMA SameExtends == \A p : Extends(p, p)
  BY DEF Extends

Links == LinksOK(proxies, egress, admin)

\* Steps that leave the settings and the operation under way alone.
LEMMA GrowingLinks ==
    ASSUME Links, Extends(proxies, proxies'), UNCHANGED <<egress, admin>>
    PROVE  Links'
  BY CopiesKept, UnderWayKept DEF Links, LinksOK

\* An operation begins, or ends without having written anything.
LEMMA BeginningLinks ==
    ASSUME Links, Extends(proxies, proxies'), UNCHANGED egress,
           admin.pc \notin {"sync", "write"}, UnderWay(proxies', egress', admin')
    PROVE  Links'
  BY CopiesKept DEF Links, LinksOK

LEMMA OneBinding ==
    ASSUME NEW p, NEW e, NEW c, NEW b, Linked(p, b.link, b.url),
           NEW a, a = [pc |-> "write", then |-> a.then, sync |-> 0, bindings |-> Only(c, b)]
    PROVE  UnderWay(p, e, a)
  BY DEF UnderWay, Only

LEMMA EditLinks ==
    ASSUME PoolOK(proxies, nextProxy), Links, NEW i \in DOMAIN proxies, NEW a \in Addresses,
           EditProxy(i, a)
    PROVE  Links'
  <1>1. /\ DOMAIN proxies' = DOMAIN proxies /\ proxies'[i].at = a
        /\ \A j \in DOMAIN proxies : j # i => proxies'[j] = proxies[j]
    BY EditedPool
  <1>2. /\ admin = AdminIdle /\ UNCHANGED egress
        /\ admin' = [pc |-> "sync", id |-> i, at |-> a]
    BY DEF EditProxy, Asks
  <1>3. admin.pc = "idle" /\ admin'.pc = "sync" /\ admin'.id = i /\ admin'.at = a
    BY <1>2 DEF AdminIdle
  <1>4. CopiesOK(proxies', egress', admin')
    BY <1>1, <1>2, <1>3 DEF Links, LinksOK, CopiesOK, ProxyPending
  <1>5. UnderWay(proxies', egress', admin')
    BY <1>1, <1>3 DEF UnderWay
  <1> QED
    BY <1>4, <1>5 DEF Links, LinksOK

LEMMA SyncLinks ==
    ASSUME Links, SyncLinked
    PROVE  Links'
  <1> DEFINE linked == {c \in Egresses : egress[c].link = admin.id}
             bindings == [c \in linked |-> [link |-> admin.id, url |-> admin.at]]
  <1>1. /\ admin.pc = "sync" /\ UNCHANGED <<proxies, egress>>
        /\ admin' = [pc |-> "write", then |-> "none", sync |-> admin.id, bindings |-> bindings]
    BY DEF SyncLinked
  <1>2. /\ DOMAIN bindings = linked
        /\ \A c \in linked : bindings[c].link = admin.id /\ bindings[c].url = admin.at
    OBVIOUS
  <1> HIDE DEF bindings
  <1>3. admin'.pc = "write" /\ admin'.sync = admin.id /\ admin'.bindings = bindings
    BY <1>1
  <1>4. CopiesOK(proxies', egress', admin')
    BY <1>1, <1>2, <1>3 DEF Links, LinksOK, CopiesOK, ProxyPending
  <1>5. UnderWay(proxies', egress', admin')
    BY <1>1, <1>2, <1>3 DEF Links, LinksOK, UnderWay, Linked
  <1> QED
    BY <1>4, <1>5 DEF Links, LinksOK

LEMMA WriteLinks ==
    ASSUME PoolOK(proxies, nextProxy), ProxyTypesOK, Links, WriteChoice
    PROVE  Links'
  <1>1. admin.pc = "write" /\ admin'.pc \in {"adopt", "idle"}
    <2>1. \/ admin' = AdminIdle
          \/ admin' = [pc |-> "adopt", bindings |-> admin.bindings]
      BY DEF WriteChoice
    <2>2. admin.pc = "write"
      BY DEF WriteChoice
    <2> QED
      BY <2>1, <2>2 DEF AdminIdle
  <1>2. UnderWay(proxies', egress', admin')
    BY <1>1, NothingUnderWay
  <1>3. Extends(proxies, proxies')
    BY WriteKeeps DEF ProxyKept
  <1>4. ASSUME Bind(admin.bindings, TRUE), UNCHANGED proxies
        PROVE  CopiesOK(proxies', egress', admin')
    <2>1. Taken(admin.bindings)
      BY <1>1, <1>4, BindTakes DEF ProxyTypesOK, AdminOK
    <2>2. ASSUME NEW c \in Egresses, c \in DOMAIN admin.bindings
          PROVE  Linked(proxies, egress'[c].link, egress'[c].url)
      BY <1>1, <2>1, <2>2 DEF Links, LinksOK, UnderWay, Taken
    <2>3. ASSUME NEW c \in Egresses, c \notin DOMAIN admin.bindings
          PROVE  egress'[c] = egress[c] /\ \A i : ~ProxyPending(admin, c, i)
      BY <1>1, <2>1, <2>3 DEF Taken, ProxyPending
    <2> QED
      BY <1>4, <2>2, <2>3 DEF CopiesOK, Links, LinksOK, Linked
  <1>5. ASSUME UNCHANGED egress,
               proxies' = [i \in DOMAIN proxies |->
                             [proxies[i] EXCEPT !.behind = @ \/ i = admin.sync]]
        PROVE  CopiesOK(proxies', egress', admin')
    <2>1. \A i \in DOMAIN proxies : i = admin.sync => proxies'[i].behind
      <3> TAKE i \in DOMAIN proxies
      <3>1. proxies[i] \in EntryRecord
        BY DEF PoolOK
      <3> QED
        BY <1>5, <3>1 DEF EntryRecord
    <2>2. \A c \in Egresses, i \in DOMAIN proxies : ProxyPending(admin, c, i) => proxies'[i].behind
      BY <1>1, <2>1 DEF ProxyPending
    <2>3. ASSUME NEW c \in Egresses, egress[c].link # 0
          PROVE  /\ egress[c].link \in DOMAIN proxies'
                 /\ egress[c].url = proxies'[egress[c].link].at \/ proxies'[egress[c].link].behind
      <3> DEFINE i == egress[c].link
      <3>1. /\ i \in DOMAIN proxies
            /\ egress[c].url = proxies[i].at \/ proxies[i].behind \/ ProxyPending(admin, c, i)
        BY <2>3 DEF CopiesOK, Links, LinksOK
      <3> HIDE DEF i
      <3>2. i \in DOMAIN proxies' /\ proxies'[i].at = proxies[i].at
              /\ (proxies[i].behind => proxies'[i].behind)
        BY <1>3, <3>1 DEF Extends
      <3>3. egress[c].url = proxies'[i].at \/ proxies'[i].behind
        BY <2>2, <3>1, <3>2
      <3> QED
        BY <3>2, <3>3 DEF i
    <2> QED
      BY <1>5, <2>3 DEF CopiesOK
  <1>6. CopiesOK(proxies', egress', admin')
    BY <1>4, <1>5 DEF WriteChoice
  <1> QED
    BY <1>2, <1>6 DEF Links, LinksOK

LEMMA DeleteLinks ==
    ASSUME PoolOK(proxies, nextProxy), Links, DeleteProxy
    PROVE  Links'
  <1>1. /\ DOMAIN proxies' = DOMAIN proxies \ {admin.id}
        /\ \A i \in DOMAIN proxies' : proxies'[i] = proxies[i]
    BY DeletedPool
  <1>2. admin.pc = "delete" /\ admin' = AdminIdle /\ UNCHANGED egress
    BY DEF DeleteProxy
  <1>3. \A c \in Egresses : egress[c].link # admin.id
    BY <1>2 DEF Links, LinksOK, UnderWay
  <1>4. CopiesOK(proxies', egress', admin')
    BY <1>1, <1>2, <1>3 DEF Links, LinksOK, CopiesOK, ProxyPending
  <1>5. UnderWay(proxies', egress', admin')
    BY <1>2, NothingUnderWay DEF AdminIdle
  <1> QED
    BY <1>4, <1>5 DEF Links, LinksOK

LEMMA ChooseLinks ==
    ASSUME PoolOK(proxies, nextProxy), Links, NEW c \in Egresses, Choose(c)
    PROVE  Links'
  <1>1. UNCHANGED <<proxies, egress>> /\ admin.pc = "idle" /\ Extends(proxies, proxies')
    BY SameExtends DEF Choose, Asks, AdminIdle
  <1>2. ASSUME NEW b, NEW then, Linked(proxies, b.link, b.url),
               admin' = [pc |-> "write", then |-> then, sync |-> 0, bindings |-> Only(c, b)]
        PROVE  UnderWay(proxies, egress, admin')
    <2>1. admin'.pc = "write" /\ admin'.bindings = Only(c, b)
      BY <1>2
    <2> QED
      BY <1>2, <2>1 DEF UnderWay, Only
  <1>3. \A url : Linked(proxies, [link |-> 0, url |-> url].link, [link |-> 0, url |-> url].url)
    BY DEF Linked
  <1>4. UnderWay(proxies, egress, admin')
    <2>1. ASSUME NEW i \in DOMAIN proxies,
                 admin' = [pc |-> "write", then |-> "none", sync |-> 0,
                           bindings |-> Only(c, Binding(i))]
          PROVE  UnderWay(proxies, egress, admin')
      BY <1>2, <2>1, BindingOK
    <2>2. ASSUME NEW url, NEW then,
                 admin' = [pc |-> "write", then |-> then, sync |-> 0,
                           bindings |-> Only(c, [link |-> 0, url |-> url])]
          PROVE  UnderWay(proxies, egress, admin')
      <3> DEFINE b == [link |-> 0, url |-> url]
      <3>1. Linked(proxies, b.link, b.url)
        BY <1>3
      <3> HIDE DEF b
      <3>2. admin' = [pc |-> "write", then |-> then, sync |-> 0, bindings |-> Only(c, b)]
        BY <2>2 DEF b
      <3> QED
        BY <1>2, <3>1, <3>2
    <2> QED
      BY <2>1, <2>2 DEF Choose
  <1> QED
    BY <1>1, <1>4, BeginningLinks

LEMMA RoundLinks ==
    ASSUME PoolOK(proxies, nextProxy), Links, RoundRobin
    PROVE  Links'
  <1>1. UNCHANGED <<proxies, egress>> /\ admin.pc = "idle" /\ Extends(proxies, proxies')
    BY SameExtends DEF RoundRobin, Asks, AdminIdle
  <1>2. PICK to \in [Egresses -> DOMAIN proxies] :
           admin' = [pc |-> "write", then |-> "none", sync |-> 0,
                     bindings |-> [c \in Egresses |-> Binding(to[c])]]
    BY InTurn
  <1>3. \A c \in Egresses : Linked(proxies, Binding(to[c]).link, Binding(to[c]).url)
    BY BindingOK
  <1>4. UnderWay(proxies, egress, admin')
    BY <1>2, <1>3 DEF UnderWay
  <1> QED
    BY <1>1, <1>4, BeginningLinks

LEMMA AdoptLinks ==
    ASSUME PoolOK(proxies, nextProxy), AdminOK(admin), Links, Adoption
    PROVE  Links'
  <1>1. UNCHANGED egress /\ admin.pc = "adopt" /\ Extends(proxies, proxies')
    BY AdoptionKeeps DEF Adoption, ProxyKept
  <1> DEFINE c == CHOOSE x \in DOMAIN admin.bindings : TRUE
             a == admin.bindings[c].url
             new == {a} \ Listed
             p == IF Room(nextProxy, new) THEN Grown(nextProxy, new, FALSE) ELSE proxies
  <1>2. /\ proxies' = p
        /\ admin' = IF \E i \in DOMAIN p : p[i].at = a
                    THEN [pc |-> "write", then |-> "none", sync |-> 0,
                          bindings |-> Only(c, [link |-> IdOf(p, a), url |-> a])]
                    ELSE AdminIdle
    BY DEF Adoption
  <1> HIDE DEF c, a, p
  <1>3. CASE \E i \in DOMAIN p : p[i].at = a
    <2> DEFINE j == IdOf(p, a)
               b == [link |-> j, url |-> a]
    <2>1. j \in DOMAIN p /\ p[j].at = a
      BY <1>3 DEF IdOf
    <2>2. admin' = [pc |-> "write", then |-> "none", sync |-> 0, bindings |-> Only(c, b)]
      BY <1>2, <1>3
    <2> HIDE DEF j
    <2>3. Linked(p, b.link, b.url)
      BY <2>1 DEF Linked
    <2> HIDE DEF b
    <2>4. admin'.pc = "write" /\ admin'.bindings = Only(c, b)
      BY <2>2
    <2>5. UnderWay(p, egress, admin')
      BY <2>3, <2>4 DEF UnderWay, Only
    <2> QED
      BY <1>1, <1>2, <2>5, BeginningLinks
  <1>4. CASE ~\E i \in DOMAIN p : p[i].at = a
    <2>1. admin'.pc = "idle"
      BY <1>2, <1>4 DEF AdminIdle
    <2> QED
      BY <1>1, <2>1, BeginningLinks, NothingUnderWay
  <1> QED
    BY <1>3, <1>4

LEMMA StartLinks ==
    ASSUME PoolOK(proxies, nextProxy), ProxyTypesOK, Links, ProxyRestart
    PROVE  Links'
  <1>1. \A c \in Egresses : egress[c].link \in {0} \cup DOMAIN proxies
    BY DEF Links, LinksOK, CopiesOK
  <1>2. \A c \in Egresses : Linked(proxies', egress'[c].link, egress'[c].url)
    BY <1>1, StartAligns DEF ProxyTypesOK
  <1>3. CopiesOK(proxies', egress', admin')
    BY <1>2 DEF CopiesOK, Linked
  <1>4. admin' = AdminIdle
    BY DEF ProxyRestart
  <1>5. UnderWay(proxies', egress', admin')
    BY <1>4, NothingUnderWay DEF AdminIdle
  <1> QED
    BY <1>3, <1>5 DEF Links, LinksOK

LEMMA LinksStep ==
    ASSUME PoolOK(proxies, nextProxy), ProxyTypesOK, Links, checker.pc \in {"idle", "probe"}, ProxyNext
    PROVE  Links'
  <1>1. CASE Detect \/ Probes
    <2>1. ProxyKept
      BY <1>1, DetectKeeps, ProbesKeep
    <2>2. UNCHANGED <<egress, admin>>
      BY <1>1 DEF Detect, Probes
    <2> QED
      BY <2>1, <2>2, GrowingLinks DEF ProxyKept
  <1>2. CASE ReadGlobal \/ Judge \/ Rotate \/ Migrate \/ Align
    BY <1>2 DEF ReadGlobal, Judge, Rotate, Migrate, Align
  <1>3. ASSUME NEW a \in Addresses, AddProxy(a) PROVE Links'
    <2>1. ProxyKept /\ UNCHANGED <<egress, admin>>
      BY <1>3, AddKeeps DEF AddProxy
    <2> QED
      BY <2>1, GrowingLinks DEF ProxyKept
  <1>4. ASSUME NEW i \in DOMAIN proxies, NEW on \in BOOLEAN, SetEnabled(i, on) PROVE Links'
    <2>1. ProxyKept /\ UNCHANGED <<egress, admin>>
      BY <1>4, EnabledKeeps DEF SetEnabled
    <2> QED
      BY <2>1, GrowingLinks DEF ProxyKept
  <1>5. ASSUME NEW i \in DOMAIN proxies, AskDelete(i) \/ AskProbe(i) PROVE Links'
    <2>1. UNCHANGED <<proxies, egress>> /\ admin.pc = "idle" /\ Extends(proxies, proxies')
      BY <1>5, SameExtends DEF AskDelete, AskProbe, Asks, AdminIdle
    <2>2. \/ admin'.pc = "probe"
          \/ admin'.pc = "delete" /\ admin'.id = i /\ \A c \in Egresses : egress[c].link # i
      BY <1>5 DEF AskDelete, AskProbe
    <2>3. UnderWay(proxies', egress', admin')
      BY <2>1, <2>2 DEF UnderWay
    <2> QED
      BY <2>1, <2>3, BeginningLinks
  <1>6. ASSUME NEW g \in Addresses \cup {"none"}, SetGlobal(g) PROVE Links'
    BY <1>6, SameExtends, GrowingLinks DEF SetGlobal
  <1>7. CASE ProbeAnswers
    <2>1. ProxyKept /\ UNCHANGED egress /\ admin.pc = "probe" /\ admin' = AdminIdle
      BY <1>7, ProbesKeep DEF ProbeAnswers
    <2>2. UnderWay(proxies', egress', admin')
      BY <2>1, NothingUnderWay DEF AdminIdle
    <2> QED
      BY <2>1, <2>2, BeginningLinks DEF ProxyKept
  <1>8. CASE AdminNext
    BY <1>3, <1>4, <1>5, <1>6, <1>7, <1>8, EditLinks, SyncLinks, WriteLinks, DeleteLinks,
       ChooseLinks, RoundLinks, AdoptLinks DEF AdminNext, ProxyTypesOK
  <1> QED
    BY <1>1, <1>2, <1>8, StartLinks DEF ProxyNext, CheckerNext

-----------------------------------------------------------------------------
(* What the checker judged. *)

\* Steps beside the rotation: what they change moves its generation.
LEMMA JudgedKept ==
    ASSUME Judged(checker, moved, globalProxy, egress), CheckerOK(checker), UNCHANGED checker,
           moved \subseteq moved', UNCHANGED globalProxy \/ "global" \in moved',
           \A c \in Egresses : egress'[c] # egress[c] => c \in moved'
    PROVE  Judged(checker, moved, globalProxy, egress)'
  BY DEF Judged, CheckerOK

\* A target for a direct egress: it was one the rotation had assigned.
LEMMA DirectTargets ==
    ASSUME PoolOK(proxies, nextProxy), NEW s \in SettingRecord, NEW g, NEW able,
           s.url = "direct", Targets(s, g, able) # {}
    PROVE  s.assigned
  <1>1. InUse(s, g) = "none" /\ Configured(s, g) = "direct"
    BY DEF InUse, Configured
  <1>2. ~Available("direct")
    BY PoolAddresses, ProxyAssumption DEF Available
  <1>3. s.temp \in BOOLEAN /\ s.assigned \in BOOLEAN
    BY DEF SettingRecord
  <1> QED
    BY <1>1, <1>2, <1>3 DEF Targets

LEMMA JudgeJudges ==
    ASSUME PoolOK(proxies, nextProxy), ProxyTypesOK, Judged(checker, moved, globalProxy, egress), Judge
    PROVE  Judged(checker, moved, globalProxy, egress)'
  <1>1. CASE checker' = CheckerIdle
    BY <1>1 DEF CheckerIdle, Judged
  <1>2. CASE checker' # CheckerIdle
    <2>1. PICK turns \in SUBSET Egresses : \E targets \in [turns -> Addresses \cup {"restore", "direct"}] :
             /\ \A c \in turns : Targets(egress[c], checker.global, checker.able) # {}
             /\ checker' = [pc |-> "apply", global |-> checker.global, read |-> egress,
                            targets |-> targets]
      BY <1>2 DEF Judge
    <2>2. \A c \in turns : egress[c].url = "direct" => egress[c].assigned
      BY <2>1, DirectTargets DEF ProxyTypesOK
    <2>3. checker.pc = "judge" /\ moved' = moved \ Egresses /\ UNCHANGED <<globalProxy, egress>>
      BY DEF Judge
    <2>4. "global" \notin moved' => globalProxy = checker.global
      BY <2>3, ProxyAssumption DEF Judged
    <2> QED
      BY <2>1, <2>2, <2>3, <2>4 DEF Judged
  <1> QED
    BY <1>1, <1>2

LEMMA JudgedStep ==
    ASSUME PoolOK(proxies, nextProxy), ProxyTypesOK, Judged(checker, moved, globalProxy, egress),
           ProxyNext
    PROVE  Judged(checker, moved, globalProxy, egress)'
  <1>1. CASE Detect \/ Probes \/ Rotate \/ Align \/ ProxyRestart
    <2>1. checker'.pc \in {"probe", "rotate", "idle", "migrate"}
      BY <1>1, CheckerPlaces
    <2> QED
      BY <2>1 DEF Judged
  <1>2. CASE Migrate
    <2>1. checker'.pc = "align"
      BY <1>2 DEF Migrate
    <2> QED
      BY <2>1 DEF Judged
  <1>3. CASE ReadGlobal
    BY <1>3 DEF ReadGlobal, Judged
  <1>4. CASE Judge
    BY <1>4, JudgeJudges
  <1>5. CASE WriteChoice
    <2>1. UNCHANGED <<checker, globalProxy>>
      BY <1>5 DEF WriteChoice
    <2>2. ASSUME Bind(admin.bindings, TRUE)
          PROVE  /\ moved \subseteq moved'
                 /\ \A c \in Egresses : egress'[c] # egress[c] => c \in moved'
      BY <2>2 DEF Bind
    <2>3. ASSUME UNCHANGED <<egress, moved>>
          PROVE  /\ moved \subseteq moved'
                 /\ \A c \in Egresses : egress'[c] # egress[c] => c \in moved'
      BY <2>3
    <2> QED
      BY <1>5, <2>1, <2>2, <2>3, JudgedKept DEF WriteChoice, ProxyTypesOK
  <1>6. ASSUME NEW g, SetGlobal(g) PROVE Judged(checker, moved, globalProxy, egress)'
    <2>1. UNCHANGED <<checker, egress>> /\ moved \subseteq moved' /\ "global" \in moved'
      BY <1>6 DEF SetGlobal
    <2> QED
      BY <2>1, JudgedKept DEF ProxyTypesOK
  <1>7. ASSUME UNCHANGED <<checker, egress, moved, globalProxy>>
        PROVE  Judged(checker, moved, globalProxy, egress)'
    BY <1>7 DEF Judged
  <1>8. CASE AdminNext
    <2>1. ASSUME \/ \E a \in Addresses : AddProxy(a)
                 \/ \E i \in DOMAIN proxies, a \in Addresses : EditProxy(i, a)
                 \/ \E i \in DOMAIN proxies : AskDelete(i) \/ AskProbe(i)
          PROVE  UNCHANGED <<checker, egress, moved, globalProxy>>
      BY <2>1 DEF AddProxy, EditProxy, AskDelete, AskProbe
    <2>2. ASSUME \/ \E i \in DOMAIN proxies, on \in BOOLEAN : SetEnabled(i, on)
                 \/ \E c \in Egresses : Choose(c)
          PROVE  UNCHANGED <<checker, egress, moved, globalProxy>>
      BY <2>2 DEF SetEnabled, Choose
    <2>3. ASSUME SyncLinked \/ DeleteProxy \/ RoundRobin \/ Adoption \/ ProbeAnswers
          PROVE  UNCHANGED <<checker, egress, moved, globalProxy>>
      BY <2>3 DEF SyncLinked, DeleteProxy, RoundRobin, Adoption, ProbeAnswers
    <2> QED
      BY <1>5, <1>6, <1>7, <1>8, <2>1, <2>2, <2>3 DEF AdminNext
  <1> QED
    BY <1>1, <1>2, <1>3, <1>4, <1>8 DEF ProxyNext, CheckerNext

-----------------------------------------------------------------------------

LEMMA QuietStep == Quiet /\ ProxyNext => Quiet'
  <1> SUFFICES ASSUME Quiet, ProxyNext PROVE Quiet'
    OBVIOUS
  <1>1. UNCHANGED rotating
    <2>1. CASE ProxyRestart
      BY <2>1 DEF ProxyRestart
    <2>2. CASE CheckerNext
      BY <2>2 DEF CheckerNext, Detect, Probes, ReadGlobal, Judge, Rotate, Migrate, Align
    <2> QED
      BY <2>1, <2>2, AdminSparesChecker DEF ProxyNext
  <1>2. Judge => checker.pc = "judge"
    BY DEF Judge
  <1>3. Migrate => checker.pc = "migrate"
    BY DEF Migrate
  <1> QED
    BY <1>1, <1>2, <1>3, CheckerPlaces, AdminSparesChecker DEF Quiet, ProxyNext, CheckerNext

LEMMA ProxyInvInit == ProxyInit => ProxyInv
  <1> SUFFICES ASSUME ProxyInit PROVE ProxyInv
    OBVIOUS
  <1> DEFINE a == CHOOSE x \in Addresses : TRUE
             e == FreshProxy(a, FALSE)
  <1>1. a \in Addresses
    BY ProxyAssumption
  <1>2. /\ proxies = Only(1, e)
        /\ egress \in [Egresses -> {Setting(1, a), Setting(0, "global"), Setting(0, "direct")}]
    BY DEF ProxyInit
  <1>3. /\ nextProxy = 2 /\ moved = {} /\ checker.pc = "idle" /\ admin.pc = "idle"
    BY DEF ProxyInit, CheckerIdle, AdminIdle
  <1> HIDE DEF a
  <1>4. e \in EntryRecord /\ e.at = a /\ EntryOK(e)
    BY <1>1, FreshEntry
  <1> HIDE DEF e
  <1>5. DOMAIN proxies = {1} /\ proxies[1] = e /\ proxies \in [{1} -> EntryRecord]
    BY <1>2, <1>4 DEF Only
  <1>6. PoolOK(proxies, nextProxy)
    BY <1>3, <1>4, <1>5 DEF PoolOK
  <1>7. \A c \in Egresses : /\ egress[c] \in SettingRecord
                            /\ Linked(proxies, egress[c].link, egress[c].url)
    <2>1. \A s \in {Setting(1, a), Setting(0, "global"), Setting(0, "direct")} :
             s \in SettingRecord /\ Linked(proxies, s.link, s.url)
      <3>1. \A link \in Nat, url \in Urls :
               /\ Setting(link, url) \in SettingRecord
               /\ Setting(link, url).link = link /\ Setting(link, url).url = url
        BY DEF Setting, SettingRecord
      <3>2. a \in Urls /\ "global" \in Urls /\ "direct" \in Urls /\ 0 \in Nat /\ 1 \in Nat
        BY <1>1 DEF Urls
      <3>3. Linked(proxies, 1, a) /\ Linked(proxies, 0, "global") /\ Linked(proxies, 0, "direct")
        BY <1>4, <1>5 DEF Linked
      <3> QED
        BY <3>1, <3>2, <3>3
    <2> QED
      BY <1>2, <2>1
  <1>8. ProxyTypesOK
    BY <1>2, <1>3, <1>7, OtherPlace DEF ProxyTypesOK, CheckerOK
  <1>9. LinksOK(proxies, egress, admin)
    BY <1>3, <1>7, NothingUnderWay DEF LinksOK, CopiesOK, Linked
  <1>10. Judged(checker, moved, globalProxy, egress)
    BY <1>3 DEF Judged
  <1> QED
    BY <1>3, <1>6, <1>8, <1>9, <1>10 DEF ProxyInv, Quiet

LEMMA ProxyInvNext == ProxyInv /\ [ProxyNext]_proxyVars => ProxyInv'
  <1> SUFFICES ASSUME ProxyInv, [ProxyNext]_proxyVars PROVE ProxyInv'
    OBVIOUS
  <1>1. CASE ProxyNext
    <2>1. PoolOK(proxies, nextProxy)' /\ ProxyTypesOK'
      BY <1>1, PoolStep, TypesStep DEF ProxyInv, ProxyTypesOK
    <2>2. Quiet' /\ Judged(checker, moved, globalProxy, egress)'
      BY <1>1, QuietStep, JudgedStep DEF ProxyInv
    <2>3. UNCHANGED rotating
      <3>1. CASE ProxyRestart
        BY <3>1 DEF ProxyRestart
      <3>2. CASE CheckerNext
        BY <3>2 DEF CheckerNext, Detect, Probes, ReadGlobal, Judge, Rotate, Migrate, Align
      <3> QED
        BY <1>1, <3>1, <3>2, AdminSparesChecker DEF ProxyNext
    <2>4. ~rotating.rotate => Links'
      BY <1>1, LinksStep DEF ProxyInv, Quiet, Links
    <2> QED
      BY <2>1, <2>2, <2>3, <2>4 DEF ProxyInv, Links
  <1>2. CASE UNCHANGED proxyVars
    BY <1>2 DEF proxyVars, ProxyInv, ProxyTypesOK, AdminOK, CheckerOK, Quiet, Judged
  <1> QED
    BY <1>1, <1>2

LEMMA ProxyInvKeeps == ProxyInv => ProxiesKept
  <1> SUFFICES ASSUME ProxyInv PROVE ProxiesKept
    OBVIOUS
  <1>1. \A i \in DOMAIN proxies :
          /\ proxies[i].manual => ~proxies[i].on
          /\ proxies[i].health # "unknown" => proxies[i].seen = proxies[i].at
          /\ \A j \in DOMAIN proxies : proxies[i].at = proxies[j].at => i = j
    BY DEF ProxyInv, PoolOK, EntryOK
  <1>2. ASSUME ~rotating.rotate, admin = AdminIdle, NEW c \in Egresses, egress[c].link # 0
        PROVE  /\ egress[c].link \in DOMAIN proxies
               /\ egress[c].url = proxies[egress[c].link].at \/ proxies[egress[c].link].behind
    <2>1. \A i : ~ProxyPending(admin, c, i)
      BY <1>2 DEF ProxyPending, AdminIdle
    <2> QED
      BY <1>2, <2>1 DEF ProxyInv, LinksOK, CopiesOK
  <1> QED
    BY <1>1, <1>2 DEF ProxiesKept

(* The conjunct of RotationJudges, for one credential. *)
Judges(c) ==
    checker.pc = "apply" /\ checker'.pc = "migrate" /\ egress'[c] # egress[c] =>
        /\ egress[c] = checker.read[c] /\ globalProxy = checker.global
        /\ egress[c].url = "direct" => egress[c].assigned

LEMMA RotationStep ==
    ASSUME ProxyInv, [ProxyNext]_proxyVars, NEW c \in Egresses
    PROVE  Judges(c)
  <1> SUFFICES ASSUME checker.pc = "apply", checker'.pc = "migrate", egress'[c] # egress[c]
               PROVE  /\ egress[c] = checker.read[c] /\ globalProxy = checker.global
                      /\ egress[c].url = "direct" => egress[c].assigned
    BY DEF Judges
  <1>1. ~UNCHANGED proxyVars /\ ~AdminNext /\ ~ProxyRestart
    BY AdminSparesChecker, CheckerPlaces DEF proxyVars
  <1>2. ~Judge /\ ~Migrate
    BY DEF Judge, Migrate
  <1>3. Rotate
    BY <1>1, <1>2, CheckerPlaces DEF ProxyNext, CheckerNext
  <1>4. /\ moved \cap (DOMAIN checker.targets \cup {"global"}) = {}
        /\ c \in DOMAIN checker.targets
    <2>1. checker' # CheckerIdle
      BY DEF CheckerIdle
    <2> QED
      BY <1>3, <2>1 DEF Rotate
  <1> QED
    BY <1>4 DEF ProxyInv, Judged

-----------------------------------------------------------------------------

(* ProxyPool's entries, the settings of the credentials and the operations  *)
(* under way keep their shape and fit together (proxy_pool.rs, probe.rs,    *)
(* proxy_link.rs).                                                          *)
THEOREM ProxyInvariant == ProxySpec => []ProxyInv
  BY ProxyInvInit, ProxyInvNext, PTL DEF ProxySpec

(* A proxy taken out by hand stays out, a verdict is about the address the  *)
(* entry has, no address is listed twice, and without rotations the copies  *)
(* follow the entries (apply_probe_result, update, migrate_credential_proxies). *)
THEOREM ProxiesStayKept == ProxySpec => []ProxiesKept
  BY ProxyInvariant, ProxyInvKeeps, PTL

(* A rotation replaces settings that are what it judged them by, and no     *)
(* direct egress an administrator chose (apply_proxy_rotation).             *)
THEOREM RotationReplacesWhatItJudged == ProxySpec => RotationJudges
  <1>1. ProxyInv /\ [ProxyNext]_proxyVars => \A c \in Egresses : Judges(c)
    BY RotationStep
  <1>2. ProxyInv /\ [ProxyNext]_proxyVars
          => [\A c \in Egresses :
                checker.pc = "apply" /\ checker'.pc = "migrate" /\ egress'[c] # egress[c] =>
                    /\ egress[c] = checker.read[c] /\ globalProxy = checker.global
                    /\ egress[c].url = "direct" => egress[c].assigned]_proxyVars
    BY <1>1 DEF Judges
  <1> QED
    BY <1>2, ProxyInvariant, PTL DEF ProxySpec, RotationJudges

-----------------------------------------------------------------------------
(* Client keys.                                                             *)

(* Ids and secrets are drawn in order: what is behind the counters is new.  *)
IdsBehind ==
    /\ \A id \in DOMAIN keys : id < nextKey
    /\ \A v \in Visits : visit[v].pc = "serving" => visit[v].key < nextKey

SecretsDrawn ==
    /\ apiKey <= drawn /\ rotation <= drawn
    /\ \A id \in DOMAIN keys : keys[id].secret <= drawn
    /\ \A s \in revoked : s <= drawn

(* The secret in config.json is valid and, if any key's, the system key's:  *)
(* a start that takes it over gives no void one back.                       *)
ApiKeyApart ==
    /\ apiKey \notin revoked
    /\ \A id \in DOMAIN keys \ {0} : keys[id].secret # apiKey

(* The secret a rotation replaces is already no key's.                      *)
RotationGone == \A id \in DOMAIN keys : keys[id].secret # rotation

KeyInv ==
    /\ KeyTypeOK /\ keys \in [DOMAIN keys -> Key]
    /\ IdsBehind /\ SecretsDrawn /\ ApiKeyApart /\ RotationGone
    /\ KeysKept

(* The requests a key owes for.                                             *)
Owing(w, id) == {v \in Visits : w[v].pc = "serving" /\ w[v].key = id}

LEMMA OwingBounded ==
    ASSUME KeysAssumption, NEW w, NEW id
    PROVE  /\ IsFiniteSet(Owing(w, id)) /\ IsFiniteSet(Visits)
           /\ Cardinality(Owing(w, id)) \in Nat /\ Cardinality(Visits) \in Nat
           /\ Cardinality(Owing(w, id)) <= Cardinality(Visits)
<1>1. Owing(w, id) \subseteq Visits BY DEF Owing
<1>2. IsFiniteSet(Visits) BY DEF KeysAssumption
<1>3. QED BY <1>1, <1>2, FS_Subset, FS_CardinalityType

LEMMA OwingLess ==
    ASSUME KeysAssumption, NEW w, NEW u, NEW id, NEW v \in Owing(w, id),
           Owing(u, id) = Owing(w, id) \ {v}
    PROVE  Cardinality(Owing(u, id)) = Cardinality(Owing(w, id)) - 1
<1>1. IsFiniteSet(Owing(w, id)) BY OwingBounded
<1>2. QED BY <1>1, FS_RemoveElement

LEMMA UnpaidIsOwing == \A id : Unpaid(id) = Owing(visit, id)
BY DEF Unpaid, Owing

(* Removing entries.                                                        *)
LEMMA WithoutEntries ==
    ASSUME NEW f, NEW ids
    PROVE  /\ DOMAIN Without(f, ids) = DOMAIN f \ ids
           /\ \A i \in DOMAIN f \ ids : Without(f, ids)[i] = f[i]
           /\ f \in [DOMAIN f -> Key] => Without(f, ids) \in [DOMAIN Without(f, ids) -> Key]
BY DEF Without

(* Changing one field of one entry.                                         *)
LEMMA EntryChanged ==
    ASSUME NEW f, f \in [DOMAIN f -> Key], NEW id \in DOMAIN f, NEW e \in Key
    PROVE  /\ DOMAIN [f EXCEPT ![id] = e] = DOMAIN f
           /\ [f EXCEPT ![id] = e] \in [DOMAIN f -> Key]
           /\ \A i \in DOMAIN f : [f EXCEPT ![id] = e][i] = IF i = id THEN e ELSE f[i]
OBVIOUS

(* sync_system_key: the system key takes the secret of config.json over and *)
(* no other entry keeps that one or the old one.                            *)
LEMMA SyncedSystem ==
    ASSUME NEW f, f \in [DOMAIN f -> Key], 0 \in DOMAIN f, NEW s \in Secrets
    PROVE  LET g == Synced(f, s)
           IN  /\ DOMAIN g \subseteq DOMAIN f /\ 0 \in DOMAIN g
               /\ g \in [DOMAIN g -> Key]
               /\ g[0].secret = s
               /\ \A i \in DOMAIN g : g[i].used = f[i].used
               /\ \A i \in DOMAIN g \ {0} : g[i] = f[i] /\ f[i].secret \notin {s, f[0].secret}
<1> DEFINE clash == {id \in DOMAIN f \ {0} : f[id].secret \in {f[0].secret} \cup {s}}
           entry == [f[0] EXCEPT !.secret = s, !.disabled = @ /\ f[0].secret = s]
           h == Without(f, clash)
           g == With(h, 0, entry)
<1>1. Synced(f, s) = g BY DEF Synced
<1>2. entry \in Key /\ entry.secret = s /\ entry.used = f[0].used
  <2>1. f[0] \in Key OBVIOUS
  <2>2. PICK b \in BOOLEAN : b = (f[0].disabled /\ f[0].secret = s) OBVIOUS
  <2>3. entry = [f[0] EXCEPT !.secret = s, !.disabled = b] BY <2>2
  <2>4. QED BY <2>1, <2>3 DEF Key
<1> HIDE DEF entry
<1>3. /\ DOMAIN h = DOMAIN f \ clash
      /\ \A i \in DOMAIN f \ clash : h[i] = f[i]
      /\ h \in [DOMAIN h -> Key]
  BY WithoutEntries
<1> HIDE DEF h
<1>4. /\ DOMAIN g = DOMAIN h \cup {0} /\ g[0] = entry
      /\ \A i \in DOMAIN h \ {0} : g[i] = h[i]
      /\ g \in [DOMAIN g -> Key]
  <2>1. /\ DOMAIN g = DOMAIN h \cup {0} /\ g[0] = entry
        /\ \A i \in DOMAIN h \ {0} : g[i] = h[i]
    BY DEF With
  <2>2. g \in [DOMAIN g -> Key] BY <1>2, <1>3 DEF With
  <2>3. QED BY <2>1, <2>2
<1>5. DOMAIN g = DOMAIN f \ clash /\ 0 \notin clash BY <1>3, <1>4
<1>6. \A i \in DOMAIN g \ {0} : g[i] = f[i] /\ f[i].secret \notin {s, f[0].secret}
  BY <1>3, <1>4, <1>5
<1> HIDE DEF g
<1>7. \A i \in DOMAIN g : g[i].used = f[i].used BY <1>2, <1>4, <1>6
<1>8. QED BY <1>1, <1>2, <1>4, <1>5, <1>6, <1>7

LEMMA KeyInitial ==
    ASSUME KeysAssumption, KeyInit
    PROVE  KeyInv
<1>1. keys = [i \in {0} |-> NewKey(1, Unlimited)]
  <2>1. DOMAIN <<>> = {} OBVIOUS
  <2>2. QED BY <2>1 DEF KeyInit, Synced, With, Without
<1>2. NewKey(1, Unlimited) \in Key /\ NewKey(1, Unlimited).secret = 1 /\ NewKey(1, Unlimited).used = 0
  BY DEF NewKey, Key, Secrets, KeysAssumption
<1>3. /\ DOMAIN keys = {0} /\ keys[0] \in Key /\ keys[0].secret = 1 /\ keys[0].used = 0
      /\ keys \in [DOMAIN keys -> Key]
  BY <1>1, <1>2
<1>4. /\ drawn = 1 /\ apiKey = 1 /\ nextKey = 1 /\ rotation = 0 /\ revoked = {}
      /\ \A v \in Visits : visit[v] = Absent
      /\ visit \in [Visits -> Visit] /\ ceiling = [id \in KeyIds |-> 0]
  BY DEF KeyInit, NoRotation, Absent, Visit, KeyIds, Secrets, KeysAssumption
<1>5. KeyTypeOK
  BY <1>3, <1>4 DEF KeyTypeOK, KeyIds, Secrets, NoRotation, KeysAssumption
<1>6. IdsBehind /\ SecretsDrawn /\ ApiKeyApart /\ RotationGone
  BY <1>3, <1>4 DEF IdsBehind, SecretsDrawn, ApiKeyApart, RotationGone, Absent
<1>7. OvershootBounded
  <2>1. \A id \in DOMAIN keys : keys[id].used = 0 /\ ceiling[id] = 0
    BY <1>3, <1>4 DEF KeyIds, KeysAssumption
  <2>2. QED BY <2>1, OwingBounded, UnpaidIsOwing DEF OvershootBounded
<1>8. PaysOwnKey /\ RevokedStaysRevoked
  BY <1>4 DEF PaysOwnKey, RevokedStaysRevoked, Absent
<1>9. QED BY <1>3, <1>5, <1>6, <1>7, <1>8 DEF KeyInv, KeysKept

(* A request is admitted: its key had calls left and its secret is valid.   *)
LEMMA VerifyKeeps ==
    ASSUME KeysAssumption, KeyInv, NEW v \in Visits, NEW s \in Secrets, Verify(v, s)
    PROVE  KeyInv'
<1>1. PICK id \in DOMAIN keys :
         /\ keys[id].max # Unlimited => keys[id].used < keys[id].max
         /\ Admit(v, id)
  BY DEF Verify
<1> DEFINE r == [pc |-> "serving", key |-> id, serial |-> keys[id].serial]
<1>2. /\ keys' = keys /\ nextKey' = nextKey /\ apiKey' = apiKey /\ rotation' = rotation
      /\ drawn' = drawn /\ revoked' = revoked
      /\ visit' = [visit EXCEPT ![v] = r] /\ visit[v].pc = "idle"
      /\ ceiling' = [ceiling EXCEPT ![id] = IF Allowance(keys[id]) > @ THEN Allowance(keys[id]) ELSE @]
  BY <1>1 DEF Admit
<1>3. KeyTypeOK /\ keys \in [DOMAIN keys -> Key] /\ id \in KeyIds /\ keys[id] \in Key
  BY DEF KeyInv, KeyTypeOK
<1>4. r \in Visit /\ r.pc = "serving" /\ r.key = id /\ r.serial = keys[id].serial
  BY <1>3 DEF Visit, Key
<1> HIDE DEF r
<1>5. visit' \in [Visits -> Visit] /\ \A u \in Visits : visit'[u] = IF u = v THEN r ELSE visit[u]
  BY <1>2, <1>3, <1>4 DEF KeyTypeOK
<1>6. Allowance(keys[id]) \in Nat /\ keys[id].used <= Allowance(keys[id])
  BY <1>1, <1>3 DEF Allowance, Key, KeysAssumption
<1>7. /\ ceiling' \in [KeyIds -> Nat]
      /\ ceiling'[id] >= Allowance(keys[id])
      /\ \A i \in KeyIds : i # id => ceiling'[i] = ceiling[i]
  BY <1>2, <1>3, <1>6 DEF KeyTypeOK
<1>8. KeyTypeOK' /\ (keys \in [DOMAIN keys -> Key])'
  BY <1>2, <1>3, <1>5, <1>7 DEF KeyTypeOK
<1>9. IdsBehind' /\ SecretsDrawn' /\ ApiKeyApart' /\ RotationGone'
  BY <1>1, <1>2, <1>4, <1>5 DEF KeyInv, IdsBehind, SecretsDrawn, ApiKeyApart, RotationGone
<1>10. OvershootBounded'
  <2> SUFFICES ASSUME NEW i \in DOMAIN keys
               PROVE  keys[i].used + Cardinality(Owing(visit', i)) <= ceiling'[i] + Cardinality(Visits)
    BY <1>2 DEF OvershootBounded, Unpaid, Owing
  <2>1. CASE i = id
    <3>1. keys[i].used \in Nat BY <1>3, <2>1 DEF Key
    <3>2. ceiling'[i] \in Nat BY <1>3, <1>7, <2>1
    <3>3. QED BY <3>1, <3>2, <1>6, <1>7, <2>1, OwingBounded
  <2>2. CASE i # id
    <3>1. Owing(visit', i) = Owing(visit, i) BY <1>2, <1>4, <1>5, <2>2 DEF Owing
    <3>2. ceiling'[i] = ceiling[i] BY <1>3, <1>7, <2>2 DEF KeyTypeOK
    <3>3. QED BY <3>1, <3>2, UnpaidIsOwing DEF KeyInv, KeysKept, OvershootBounded
  <2>3. QED BY <2>1, <2>2
<1>11. PaysOwnKey' /\ RevokedStaysRevoked'
  BY <1>2, <1>4, <1>5 DEF KeyInv, KeysKept, PaysOwnKey, RevokedStaysRevoked
<1>12. QED BY <1>8, <1>9, <1>10, <1>11 DEF KeyInv, KeysKept

(* A request is settled: what it is charged leaves what is owed.            *)
LEMMA SettleKeeps ==
    ASSUME KeysAssumption, KeyInv, NEW v \in Visits, Settle(v)
    PROVE  KeyInv'
<1> DEFINE d == visit[v].key
<1>1. PICK paid \in 0..1 :
         /\ d \in DOMAIN keys => keys[d].used + paid <= MaxUse
         /\ keys' = [i \in DOMAIN keys |-> IF i = d THEN [keys[i] EXCEPT !.used = @ + paid] ELSE keys[i]]
  BY DEF Settle
<1>2. /\ nextKey' = nextKey /\ apiKey' = apiKey /\ rotation' = rotation
      /\ drawn' = drawn /\ revoked' = revoked /\ ceiling' = ceiling
      /\ visit' = [visit EXCEPT ![v] = Absent] /\ visit[v].pc = "serving"
  BY DEF Settle
<1>3. KeyTypeOK /\ keys \in [DOMAIN keys -> Key]
  BY DEF KeyInv
<1>4. /\ visit' \in [Visits -> Visit]
      /\ \A u \in Visits : visit'[u] = IF u = v THEN Absent ELSE visit[u]
      /\ Absent.pc = "idle"
  BY <1>2, <1>3 DEF KeyTypeOK, Absent, Visit, KeyIds, KeysAssumption
<1>5. ASSUME NEW i \in DOMAIN keys
      PROVE  /\ keys'[i] \in Key /\ keys'[i].secret = keys[i].secret /\ keys'[i].serial = keys[i].serial
             /\ keys'[i].used = IF i = d THEN keys[i].used + paid ELSE keys[i].used
  <2>1. keys[i] \in Key BY <1>3
  <2>2. CASE i = d
    <3>1. keys'[i] = [keys[i] EXCEPT !.used = @ + paid] BY <1>1, <2>2
    <3>2. keys[i].used + paid \in 0..MaxUse BY <1>1, <2>1, <2>2 DEF Key, KeysAssumption
    <3>3. QED BY <2>1, <2>2, <3>1, <3>2 DEF Key
  <2>3. CASE i # d
    BY <1>1, <2>1, <2>3
  <2>4. QED BY <2>2, <2>3
<1>6. DOMAIN keys' = DOMAIN keys /\ keys' \in [DOMAIN keys -> Key] BY <1>1, <1>5
<1>7. KeyTypeOK' /\ (keys \in [DOMAIN keys -> Key])'
  BY <1>2, <1>3, <1>4, <1>5, <1>6 DEF KeyTypeOK
<1>8. IdsBehind' /\ SecretsDrawn' /\ ApiKeyApart' /\ RotationGone'
  BY <1>2, <1>4, <1>5, <1>6 DEF KeyInv, IdsBehind, SecretsDrawn, ApiKeyApart, RotationGone
<1>9. OvershootBounded'
  <2> SUFFICES ASSUME NEW i \in DOMAIN keys
               PROVE  keys'[i].used + Cardinality(Owing(visit', i)) <= ceiling[i] + Cardinality(Visits)
    BY <1>2, <1>6 DEF OvershootBounded, Unpaid, Owing
  <2>1. keys[i].used + Cardinality(Owing(visit, i)) <= ceiling[i] + Cardinality(Visits)
    BY UnpaidIsOwing DEF KeyInv, KeysKept, OvershootBounded
  <2>2. keys[i].used \in Nat /\ ceiling[i] \in Nat BY <1>3 DEF KeyTypeOK, Key
  <2>3. CASE i = d
    <3>1. v \in Owing(visit, i) /\ Owing(visit', i) = Owing(visit, i) \ {v}
      BY <1>2, <1>4, <2>3 DEF Owing
    <3>2. Cardinality(Owing(visit', i)) = Cardinality(Owing(visit, i)) - 1
      BY <3>1, OwingLess
    <3>3. keys'[i].used <= keys[i].used + 1 /\ keys'[i].used \in Nat BY <1>5, <2>2, <2>3
    <3>4. QED BY <2>1, <2>2, <3>2, <3>3, OwingBounded
  <2>4. CASE i # d
    <3>1. Owing(visit', i) = Owing(visit, i) BY <1>2, <1>4, <2>4 DEF Owing
    <3>2. QED BY <1>5, <2>1, <2>4, <3>1
  <2>5. QED BY <2>3, <2>4
<1>10. PaysOwnKey' /\ RevokedStaysRevoked'
  BY <1>2, <1>4, <1>5, <1>6 DEF KeyInv, KeysKept, PaysOwnKey, RevokedStaysRevoked
<1>11. QED BY <1>7, <1>8, <1>9, <1>10 DEF KeyInv, KeysKept

(* A key is created: no request holds its id, nobody its secret.            *)
LEMMA CreateKeeps ==
    ASSUME KeysAssumption, KeyInv, CreateKey
    PROVE  KeyInv'
<1>1. PICK max \in Limits \cup {Unlimited} : keys' = With(keys, nextKey, NewKey(drawn', max))
  BY DEF CreateKey
<1> DEFINE k == NewKey(drawn', max)
<1>2. /\ rotation = 0 /\ apiKey' = apiKey /\ visit' = visit /\ rotation' = rotation
      /\ revoked' = revoked /\ drawn' = drawn + 1 /\ drawn < MaxSecrets
      /\ nextKey \in KeyIds /\ nextKey' = nextKey + 1
      /\ ceiling' = [ceiling EXCEPT ![nextKey] = 0]
  BY DEF CreateKey, Edits, NoRotation
<1>3. KeyTypeOK /\ keys \in [DOMAIN keys -> Key] /\ drawn' \in Secrets
  BY <1>2 DEF KeyInv, KeyTypeOK, Secrets, KeysAssumption
<1>4. k \in Key /\ k.secret = drawn' /\ k.serial = drawn' /\ k.used = 0
  BY <1>3 DEF NewKey, Key, KeysAssumption
<1> HIDE DEF k
<1>5. /\ DOMAIN keys' = DOMAIN keys \cup {nextKey} /\ nextKey \notin DOMAIN keys
      /\ keys'[nextKey] = k /\ \A i \in DOMAIN keys : keys'[i] = keys[i]
      /\ keys' \in [DOMAIN keys' -> Key]
  <2>1. nextKey \notin DOMAIN keys BY <1>2 DEF KeyInv, IdsBehind, KeyIds
  <2>2. keys' = With(keys, nextKey, k) BY <1>1 DEF k
  <2>3. /\ DOMAIN keys' = DOMAIN keys \cup {nextKey}
        /\ keys'[nextKey] = k /\ \A i \in DOMAIN keys : keys'[i] = keys[i]
    BY <2>1, <2>2 DEF With
  <2>4. keys' \in [DOMAIN keys' -> Key] BY <1>3, <1>4, <2>2 DEF With
  <2>5. QED BY <2>1, <2>3, <2>4
<1>6. \A i \in DOMAIN keys : keys[i].secret # drawn' /\ keys[i].secret \in Secrets
  BY <1>2, <1>3 DEF KeyInv, SecretsDrawn, KeyTypeOK, Secrets, Key
<1>7. KeyTypeOK' /\ (keys \in [DOMAIN keys -> Key])'
  <2>1. \A i, j \in DOMAIN keys' : keys'[i].secret = keys'[j].secret => i = j
    BY <1>3, <1>4, <1>5, <1>6 DEF KeyTypeOK
  <2>2. nextKey' \in 1..MaxKeys + 1 BY <1>2, <1>3 DEF KeyTypeOK, KeyIds, KeysAssumption
  <2>3. ceiling' \in [KeyIds -> Nat] BY <1>2, <1>3 DEF KeyTypeOK
  <2>4. DOMAIN keys' \subseteq KeyIds /\ 0 \in DOMAIN keys' /\ \A i \in DOMAIN keys' : keys'[i] \in Key
    BY <1>2, <1>3, <1>5 DEF KeyTypeOK
  <2>5. QED BY <1>2, <1>3, <1>5, <2>1, <2>2, <2>3, <2>4 DEF KeyTypeOK
<1>8. IdsBehind'
  BY <1>2, <1>3, <1>5 DEF KeyInv, IdsBehind, KeyTypeOK, KeyIds, Visit
<1>9. SecretsDrawn'
  BY <1>2, <1>3, <1>4, <1>5 DEF KeyInv, SecretsDrawn, KeyTypeOK, Secrets, Key
<1>10. ApiKeyApart' /\ RotationGone'
  <2>1. apiKey # drawn' BY <1>2, <1>3 DEF KeyInv, SecretsDrawn, KeyTypeOK, Secrets
  <2>2. drawn' # 0 BY <1>3 DEF Secrets
  <2>3. QED BY <1>2, <1>4, <1>5, <2>1, <2>2 DEF KeyInv, ApiKeyApart, RotationGone
<1>11. OvershootBounded'
  <2> SUFFICES ASSUME NEW i \in DOMAIN keys'
               PROVE  keys'[i].used + Cardinality(Owing(visit, i)) <= ceiling'[i] + Cardinality(Visits)
    BY <1>2 DEF OvershootBounded, Unpaid, Owing
  <2>1. CASE i = nextKey
    <3>1. ceiling'[i] = 0 BY <1>2, <1>3, <2>1 DEF KeyTypeOK
    <3>2. QED BY <1>4, <1>5, <2>1, <3>1, OwingBounded
  <2>2. CASE i # nextKey
    <3>1. i \in DOMAIN keys /\ keys'[i] = keys[i] /\ ceiling'[i] = ceiling[i]
      BY <1>2, <1>3, <1>5, <2>2 DEF KeyTypeOK
    <3>2. QED BY <3>1, UnpaidIsOwing DEF KeyInv, KeysKept, OvershootBounded
  <2>3. QED BY <2>1, <2>2
<1>12. PaysOwnKey'
  <2>1. \A v \in Visits : visit[v].pc = "serving" => visit[v].key # nextKey
    BY <1>2, <1>3 DEF KeyInv, IdsBehind, KeyTypeOK, KeyIds, Visit
  <2>2. QED BY <1>2, <1>5, <2>1 DEF KeyInv, KeysKept, PaysOwnKey
<1>13. RevokedStaysRevoked'
  <2>1. drawn' \notin revoked
    BY <1>2, <1>3 DEF KeyInv, SecretsDrawn, KeyTypeOK, Secrets
  <2>2. QED BY <1>2, <1>4, <1>5, <2>1 DEF KeyInv, KeysKept, RevokedStaysRevoked
<1>14. QED BY <1>7, <1>8, <1>9, <1>10, <1>11, <1>12, <1>13 DEF KeyInv, KeysKept

(* A key other than the system key is deleted.                              *)
LEMMA DeleteKeeps ==
    ASSUME KeysAssumption, KeyInv, NEW id \in KeyIds, DeleteKey(id)
    PROVE  KeyInv'
<1>1. /\ id \in DOMAIN keys /\ id # 0
      /\ apiKey' = apiKey /\ visit' = visit /\ rotation' = rotation /\ drawn' = drawn
      /\ nextKey' = nextKey /\ ceiling' = ceiling
      /\ revoked' = revoked \cup {keys[id].secret}
      /\ keys' = Without(keys, {id})
  BY DEF DeleteKey, Edits
<1>2. KeyTypeOK /\ keys \in [DOMAIN keys -> Key] BY DEF KeyInv
<1>3. /\ DOMAIN keys' = DOMAIN keys \ {id}
      /\ \A i \in DOMAIN keys' : keys'[i] = keys[i]
      /\ keys' \in [DOMAIN keys' -> Key]
  <2>1. DOMAIN keys' = DOMAIN keys \ {id} /\ \A i \in DOMAIN keys' : keys'[i] = keys[i]
    BY <1>1 DEF Without
  <2>2. keys' \in [DOMAIN keys' -> Key] BY <1>1, <1>2 DEF Without
  <2>3. QED BY <2>1, <2>2
<1>4. KeyTypeOK' /\ (keys \in [DOMAIN keys -> Key])'
  <2>1. keys[id].secret \in Secrets BY <1>1, <1>2 DEF Key
  <2>2. QED BY <1>1, <1>2, <1>3, <2>1 DEF KeyTypeOK
<1>5. IdsBehind' /\ SecretsDrawn' /\ ApiKeyApart' /\ RotationGone'
  BY <1>1, <1>3 DEF KeyInv, IdsBehind, SecretsDrawn, ApiKeyApart, RotationGone
<1>6. OvershootBounded' /\ PaysOwnKey'
  BY <1>1, <1>3 DEF KeyInv, KeysKept, OvershootBounded, PaysOwnKey, Unpaid
<1>7. RevokedStaysRevoked'
  BY <1>1, <1>2, <1>3 DEF KeyInv, KeysKept, RevokedStaysRevoked, KeyTypeOK
<1>8. QED BY <1>4, <1>5, <1>6, <1>7 DEF KeyInv, KeysKept

(* A key keeps its secret and what it was charged.                          *)
LEMMA EditKeeps ==
    ASSUME KeysAssumption, KeyInv, NEW id \in KeyIds, EditKey(id) \/ ResetKey(id)
    PROVE  KeyInv'
<1>1. /\ id \in DOMAIN keys
      /\ apiKey' = apiKey /\ visit' = visit /\ rotation' = rotation /\ drawn' = drawn
      /\ nextKey' = nextKey /\ revoked' = revoked
  BY DEF EditKey, ResetKey, Edits
<1>2. KeyTypeOK /\ keys \in [DOMAIN keys -> Key] BY DEF KeyInv
<1>3. /\ DOMAIN keys' = DOMAIN keys /\ keys' \in [DOMAIN keys -> Key]
      /\ \A i \in DOMAIN keys : keys'[i].secret = keys[i].secret /\ keys'[i].serial = keys[i].serial
      /\ \A i \in DOMAIN keys : i # id => keys'[i] = keys[i]
      /\ ceiling' \in [KeyIds -> Nat] /\ \A i \in KeyIds : i # id => ceiling'[i] = ceiling[i]
      /\ \/ keys'[id].used = keys[id].used /\ ceiling'[id] = ceiling[id]
         \/ keys'[id].used = 0 /\ ceiling'[id] = 0
  <2>1. keys[id] \in Key BY <1>1, <1>2
  <2>2. CASE EditKey(id)
    <3>1. PICK e \in Key : /\ keys' = [keys EXCEPT ![id] = e] /\ e.used = keys[id].used
                           /\ e.secret = keys[id].secret /\ e.serial = keys[id].serial
      <4>1. CASE \E max \in Limits \cup {Unlimited} : keys' = [keys EXCEPT ![id].max = max]
        <5>1. PICK max \in Limits \cup {Unlimited} : keys' = [keys EXCEPT ![id].max = max] BY <4>1
        <5>2. keys' = [keys EXCEPT ![id] = [keys[id] EXCEPT !.max = max]] BY <5>1
        <5>3. [keys[id] EXCEPT !.max = max] \in Key BY <2>1 DEF Key
        <5>4. QED BY <2>1, <5>2, <5>3 DEF Key
      <4>2. CASE keys' = [keys EXCEPT ![id].disabled = ~@]
        <5>1. PICK b \in BOOLEAN : b = ~keys[id].disabled OBVIOUS
        <5>2. keys' = [keys EXCEPT ![id] = [keys[id] EXCEPT !.disabled = b]] BY <4>2, <5>1
        <5>3. [keys[id] EXCEPT !.disabled = b] \in Key BY <2>1 DEF Key
        <5>4. QED BY <2>1, <5>2, <5>3 DEF Key
      <4>3. QED BY <2>2, <4>1, <4>2 DEF EditKey
    <3>2. ceiling' = ceiling BY <2>2 DEF EditKey
    <3>3. QED BY <1>1, <1>2, <3>1, <3>2, EntryChanged DEF KeyTypeOK
  <2>3. CASE ResetKey(id)
    <3> DEFINE e == [keys[id] EXCEPT !.used = 0]
    <3>1. /\ keys' = [keys EXCEPT ![id] = e] /\ ceiling' = [ceiling EXCEPT ![id] = 0]
      BY <2>3 DEF ResetKey
    <3>2. e \in Key /\ e.used = 0 /\ e.secret = keys[id].secret /\ e.serial = keys[id].serial
      BY <2>1 DEF Key, KeysAssumption
    <3> HIDE DEF e
    <3>3. ceiling' \in [KeyIds -> Nat] /\ ceiling'[id] = 0 /\ \A i \in KeyIds : i # id => ceiling'[i] = ceiling[i]
      BY <1>2, <3>1 DEF KeyTypeOK
    <3>4. QED BY <1>1, <1>2, <3>1, <3>2, <3>3, EntryChanged
  <2>4. QED BY <2>2, <2>3
<1>4. KeyTypeOK' /\ (keys \in [DOMAIN keys -> Key])'
  BY <1>1, <1>2, <1>3 DEF KeyTypeOK
<1>5. IdsBehind' /\ SecretsDrawn' /\ ApiKeyApart' /\ RotationGone'
  BY <1>1, <1>3 DEF KeyInv, IdsBehind, SecretsDrawn, ApiKeyApart, RotationGone
<1>6. OvershootBounded'
  <2> SUFFICES ASSUME NEW i \in DOMAIN keys
               PROVE  keys'[i].used + Cardinality(Owing(visit, i)) <= ceiling'[i] + Cardinality(Visits)
    BY <1>1, <1>3 DEF OvershootBounded, Unpaid, Owing
  <2>1. keys[i].used + Cardinality(Owing(visit, i)) <= ceiling[i] + Cardinality(Visits)
    BY UnpaidIsOwing DEF KeyInv, KeysKept, OvershootBounded
  <2>2. QED BY <1>1, <1>2, <1>3, <2>1, OwingBounded DEF KeyTypeOK
<1>7. PaysOwnKey' /\ RevokedStaysRevoked'
  BY <1>1, <1>3 DEF KeyInv, KeysKept, PaysOwnKey, RevokedStaysRevoked
<1>8. QED BY <1>4, <1>5, <1>6, <1>7 DEF KeyInv, KeysKept

(* A new secret: the old one is void at once, or once config.json has been  *)
(* written when it is the system key's.                                     *)
LEMMA RotateKeeps ==
    ASSUME KeysAssumption, KeyInv, NEW id \in KeyIds, RotateKey(id)
    PROVE  KeyInv'
<1> DEFINE e == [keys[id] EXCEPT !.secret = drawn']
<1>1. /\ id \in DOMAIN keys /\ rotation = 0 /\ drawn < MaxSecrets /\ drawn' = drawn + 1
      /\ apiKey' = apiKey /\ visit' = visit /\ nextKey' = nextKey /\ ceiling' = ceiling
      /\ keys' = [keys EXCEPT ![id] = e]
      /\ rotation' = IF id = 0 THEN keys[0].secret ELSE 0
      /\ revoked' = IF id = 0 THEN revoked ELSE revoked \cup {keys[id].secret}
  BY DEF RotateKey, NoRotation
<1>2. KeyTypeOK /\ keys \in [DOMAIN keys -> Key] /\ drawn' \in Secrets /\ keys[id] \in Key
  BY <1>1 DEF KeyInv, KeyTypeOK, Secrets, KeysAssumption
<1>3. /\ e \in Key /\ e.secret = drawn' /\ e.used = keys[id].used /\ e.serial = keys[id].serial
  BY <1>2 DEF Key
<1> HIDE DEF e
<1>4. /\ DOMAIN keys' = DOMAIN keys /\ keys' \in [DOMAIN keys -> Key]
      /\ keys'[id] = e /\ \A i \in DOMAIN keys : i # id => keys'[i] = keys[i]
  BY <1>1, <1>2, <1>3, EntryChanged
<1>5. \A i \in DOMAIN keys : keys[i].secret < drawn' /\ keys[i].secret \in Secrets
  BY <1>1, <1>2 DEF KeyInv, SecretsDrawn, KeyTypeOK, Secrets, Key
<1>6. drawn \in Secrets /\ drawn < drawn' /\ drawn' \in Nat /\ drawn \in Nat
  BY <1>1, <1>2 DEF KeyTypeOK, Secrets
<1>7. KeyTypeOK' /\ (keys \in [DOMAIN keys -> Key])'
  <2>1. \A i, j \in DOMAIN keys : keys'[i].secret = keys'[j].secret => i = j
    <3> SUFFICES ASSUME NEW i \in DOMAIN keys, NEW j \in DOMAIN keys, keys'[i].secret = keys'[j].secret, i # j
                 PROVE  FALSE
      OBVIOUS
    <3>1. \A k \in DOMAIN keys : k # id => keys'[k].secret = keys[k].secret /\ keys[k].secret # drawn'
      BY <1>2, <1>4, <1>5 DEF Secrets
    <3>2. keys'[id].secret = drawn' BY <1>3, <1>4
    <3>3. QED BY <1>2, <3>1, <3>2 DEF KeyTypeOK
  <2>2. rotation' \in Secrets \cup {NoRotation} BY <1>1, <1>2, <1>5 DEF KeyTypeOK, NoRotation
  <2>3. revoked' \subseteq Secrets BY <1>1, <1>2, <1>5 DEF KeyTypeOK
  <2>4. QED BY <1>1, <1>2, <1>4, <2>1, <2>2, <2>3 DEF KeyTypeOK
<1>8. IdsBehind'
  BY <1>1, <1>4 DEF KeyInv, IdsBehind
<1>9. SecretsDrawn'
  <2>1. apiKey \in Nat /\ rotation' \in Nat /\ revoked' \subseteq Nat
    BY <1>1, <1>2, <1>5 DEF KeyTypeOK, Secrets
  <2>2. apiKey <= drawn' /\ rotation' <= drawn'
    BY <1>1, <1>2, <1>5, <1>6, <2>1 DEF KeyInv, SecretsDrawn, KeyTypeOK, Secrets
  <2>3. \A i \in DOMAIN keys : keys'[i].secret <= drawn'
    BY <1>2, <1>3, <1>4, <1>5, <1>6 DEF Secrets
  <2>4. \A s \in revoked' : s <= drawn'
    <3>1. \A s \in revoked : s \in Nat /\ s <= drawn BY <1>2 DEF KeyInv, SecretsDrawn, KeyTypeOK, Secrets
    <3>2. keys[id].secret <= drawn' BY <1>1, <1>5, <1>6 DEF Secrets
    <3>3. QED BY <1>1, <1>6, <3>1, <3>2
  <2>5. QED BY <1>1, <1>4, <2>2, <2>3, <2>4 DEF SecretsDrawn
<1>10. ApiKeyApart' /\ RotationGone'
  <2>1. apiKey # drawn' BY <1>2, <1>6 DEF KeyInv, SecretsDrawn, KeyTypeOK, Secrets
  <2>2. apiKey \notin revoked' BY <1>1 DEF KeyInv, ApiKeyApart
  <2>3. \A i \in DOMAIN keys \ {0} : keys'[i].secret # apiKey
    BY <1>1, <1>3, <1>4, <2>1 DEF KeyInv, ApiKeyApart
  <2>4. \A i \in DOMAIN keys : keys'[i].secret # rotation'
    <3>1. CASE id = 0
      <4>1. rotation' = keys[0].secret BY <1>1, <3>1
      <4>2. keys'[0].secret # keys[0].secret BY <1>1, <1>3, <1>4, <1>5, <3>1 DEF Secrets
      <4>3. QED BY <1>1, <1>2, <1>4, <3>1, <4>1, <4>2 DEF KeyTypeOK
    <3>2. CASE id # 0
      <4>1. rotation' = 0 BY <1>1, <3>2
      <4>2. QED BY <1>4, <4>1 DEF Key, Secrets
    <3>3. QED BY <3>1, <3>2
  <2>5. QED BY <1>1, <1>4, <2>2, <2>3, <2>4 DEF ApiKeyApart, RotationGone
<1>11. OvershootBounded' /\ PaysOwnKey'
  <2>1. \A i \in DOMAIN keys : keys'[i].used = keys[i].used /\ keys'[i].serial = keys[i].serial
    BY <1>1, <1>3, <1>4
  <2>2. QED BY <1>1, <1>4, <2>1 DEF KeyInv, KeysKept, OvershootBounded, PaysOwnKey, Unpaid
<1>12. RevokedStaysRevoked'
  <2> SUFFICES ASSUME NEW i \in DOMAIN keys PROVE keys'[i].secret \notin revoked'
    BY <1>4 DEF RevokedStaysRevoked
  <2>1. drawn' \notin revoked BY <1>2, <1>6 DEF KeyInv, SecretsDrawn, KeyTypeOK, Secrets
  <2>2. CASE i = id
    <3>1. drawn' # keys[id].secret BY <1>1, <1>5 DEF Secrets
    <3>2. QED BY <1>1, <1>3, <1>4, <2>1, <2>2, <3>1
  <2>3. CASE i # id
    <3>1. keys[i].secret # keys[id].secret BY <1>1, <1>2, <2>3 DEF KeyTypeOK
    <3>2. keys[i].secret \notin revoked BY DEF KeyInv, KeysKept, RevokedStaysRevoked
    <3>3. QED BY <1>1, <1>4, <2>3, <3>1, <3>2
  <2>4. QED BY <2>2, <2>3
<1>13. QED BY <1>7, <1>8, <1>9, <1>10, <1>11, <1>12 DEF KeyInv, KeysKept

(* config.json takes the system key's new secret, or does not.              *)
LEMMA PersistKeeps ==
    ASSUME KeysAssumption, KeyInv, PersistApiKey
    PROVE  KeyInv'
<1>1. /\ rotation # 0 /\ rotation' = 0
      /\ \/ apiKey' = keys[0].secret /\ revoked' = revoked \cup {rotation}
         \/ apiKey' = apiKey /\ revoked' = revoked
      /\ keys' = keys /\ visit' = visit /\ nextKey' = nextKey /\ ceiling' = ceiling /\ drawn' = drawn
  BY DEF PersistApiKey, NoRotation
<1>2. KeyTypeOK /\ keys \in [DOMAIN keys -> Key] /\ 0 \in DOMAIN keys /\ keys[0] \in Key
  BY DEF KeyInv, KeyTypeOK
<1>3. KeyTypeOK' /\ (keys \in [DOMAIN keys -> Key])'
  <2>1. apiKey' \in Secrets /\ revoked' \subseteq Secrets /\ rotation' \in Secrets \cup {NoRotation}
    BY <1>1, <1>2 DEF KeyTypeOK, NoRotation, Key
  <2>2. QED BY <1>1, <1>2, <2>1 DEF KeyTypeOK
<1>4. IdsBehind' BY <1>1 DEF KeyInv, IdsBehind
<1>5. SecretsDrawn'
  BY <1>1, <1>2 DEF KeyInv, SecretsDrawn, KeyTypeOK, Secrets
<1>6. ApiKeyApart' /\ RotationGone'
  <2>1. apiKey' \notin revoked'
    BY <1>1, <1>2 DEF KeyInv, ApiKeyApart, RotationGone, KeysKept, RevokedStaysRevoked
  <2>2. \A i \in DOMAIN keys \ {0} : keys[i].secret # apiKey'
    BY <1>1, <1>2 DEF KeyInv, ApiKeyApart, KeyTypeOK
  <2>3. \A i \in DOMAIN keys : keys[i].secret # 0 BY <1>2 DEF Key, Secrets
  <2>4. QED BY <1>1, <2>1, <2>2, <2>3 DEF ApiKeyApart, RotationGone
<1>7. KeysKept'
  BY <1>1 DEF KeyInv, RotationGone, KeysKept, OvershootBounded, PaysOwnKey, Unpaid, RevokedStaysRevoked
<1>8. QED BY <1>3, <1>4, <1>5, <1>6, <1>7 DEF KeyInv

(* A start, with the value in config.json kept or replaced.                 *)
LEMMA RestartKeysKeeps ==
    ASSUME KeysAssumption, KeyInv, RestartKeys
    PROVE  KeyInv'
<1>1. PICK s \in {apiKey} \cup {keys[id].secret : id \in DOMAIN keys} :
         /\ apiKey' = s /\ keys' = Synced(keys, s)
         /\ revoked' = IF s = apiKey THEN revoked ELSE revoked \cup ({apiKey, keys[0].secret} \ {s})
  BY DEF RestartKeys
<1>2. /\ nextKey' \in Following(keys) /\ visit' = [v \in Visits |-> Absent]
      /\ rotation' = 0 /\ drawn' = drawn /\ ceiling' = ceiling
  BY DEF RestartKeys, NoRotation
<1>3. KeyTypeOK /\ keys \in [DOMAIN keys -> Key] /\ 0 \in DOMAIN keys /\ keys[0] \in Key
  BY DEF KeyInv, KeyTypeOK
<1>4. s \in Secrets /\ s <= drawn /\ s \notin revoked
  <2>1. CASE s = apiKey
    BY <1>3, <2>1 DEF KeyInv, KeyTypeOK, SecretsDrawn, ApiKeyApart
  <2>2. CASE s # apiKey
    <3>1. PICK i \in DOMAIN keys : s = keys[i].secret BY <2>2
    <3>2. QED BY <1>3, <3>1 DEF KeyInv, Key, SecretsDrawn, KeysKept, RevokedStaysRevoked
  <2>3. QED BY <2>1, <2>2
<1>5. /\ DOMAIN keys' \subseteq DOMAIN keys /\ 0 \in DOMAIN keys'
      /\ keys' \in [DOMAIN keys' -> Key] /\ keys'[0].secret = s
      /\ \A i \in DOMAIN keys' : keys'[i].used = keys[i].used
      /\ \A i \in DOMAIN keys' \ {0} : keys'[i] = keys[i] /\ keys[i].secret \notin {s, keys[0].secret}
  <2>1. DEFINE g == Synced(keys, s)
  <2>2. /\ DOMAIN g \subseteq DOMAIN keys /\ 0 \in DOMAIN g
        /\ g \in [DOMAIN g -> Key] /\ g[0].secret = s
        /\ \A i \in DOMAIN g : g[i].used = keys[i].used
        /\ \A i \in DOMAIN g \ {0} : g[i] = keys[i] /\ keys[i].secret \notin {s, keys[0].secret}
    BY <1>3, <1>4, SyncedSystem
  <2> HIDE DEF g
  <2>3. keys' = g BY <1>1 DEF g
  <2>4. QED BY <2>2, <2>3
<1>6. /\ visit' \in [Visits -> Visit] /\ \A v \in Visits : visit'[v].pc = "idle"
  BY <1>2 DEF Absent, Visit, KeyIds, KeysAssumption
<1>7. nextKey' \in 1..MaxKeys + 1 /\ \A i \in DOMAIN keys : i < nextKey'
  BY <1>2, <1>3 DEF Following, KeyTypeOK, KeyIds, KeysAssumption
<1>8. KeyTypeOK' /\ (keys \in [DOMAIN keys -> Key])'
  <2>1. DOMAIN keys' \subseteq KeyIds /\ \A i \in DOMAIN keys' : keys'[i] \in Key
    BY <1>3, <1>5 DEF KeyTypeOK
  <2>2. \A i, j \in DOMAIN keys' : keys'[i].secret = keys'[j].secret => i = j
    <3> SUFFICES ASSUME NEW i \in DOMAIN keys', NEW j \in DOMAIN keys',
                        keys'[i].secret = keys'[j].secret, i # j
                 PROVE  FALSE
      OBVIOUS
    <3>1. CASE i = 0 \/ j = 0 BY <1>5, <3>1
    <3>2. CASE i # 0 /\ j # 0 BY <1>3, <1>5, <3>2 DEF KeyTypeOK
    <3>3. QED BY <3>1, <3>2
  <2>3. revoked' \subseteq Secrets
    BY <1>1, <1>3 DEF KeyTypeOK, Key
  <2>4. QED BY <1>1, <1>2, <1>3, <1>4, <1>5, <1>6, <1>7, <2>1, <2>2, <2>3 DEF KeyTypeOK, NoRotation
<1>9. IdsBehind' BY <1>5, <1>6, <1>7 DEF IdsBehind
<1>10. SecretsDrawn'
  <2>1. rotation' <= drawn' BY <1>2, <1>3 DEF KeyTypeOK, Secrets
  <2>2. \A i \in DOMAIN keys' : keys'[i].secret <= drawn
    BY <1>4, <1>5 DEF KeyInv, SecretsDrawn
  <2>3. \A t \in revoked' : t <= drawn
    BY <1>1, <1>3 DEF KeyInv, SecretsDrawn
  <2>4. QED BY <1>1, <1>2, <1>4, <2>1, <2>2, <2>3 DEF SecretsDrawn
<1>11. ApiKeyApart' /\ RotationGone'
  <2>1. apiKey' \notin revoked' BY <1>1, <1>4
  <2>2. \A i \in DOMAIN keys' \ {0} : keys'[i].secret # apiKey' BY <1>1, <1>5
  <2>3. \A i \in DOMAIN keys' : keys'[i].secret # rotation' BY <1>2, <1>5 DEF Key, Secrets
  <2>4. QED BY <2>1, <2>2, <2>3 DEF ApiKeyApart, RotationGone
<1>12. OvershootBounded'
  <2> SUFFICES ASSUME NEW i \in DOMAIN keys'
               PROVE  keys'[i].used + Cardinality(Owing(visit', i)) <= ceiling[i] + Cardinality(Visits)
    BY <1>2 DEF OvershootBounded, Unpaid, Owing
  <2>1. Owing(visit', i) = {} BY <1>6 DEF Owing
  <2>2. keys[i].used + Cardinality(Owing(visit, i)) <= ceiling[i] + Cardinality(Visits)
    BY <1>5, UnpaidIsOwing DEF KeyInv, KeysKept, OvershootBounded
  <2>3. keys[i].used \in Nat /\ ceiling[i] \in Nat BY <1>3, <1>5 DEF KeyTypeOK, Key
  <2>4. Cardinality(Owing(visit', i)) = 0 BY <2>1, FS_EmptySet
  <2>5. keys'[i].used = keys[i].used BY <1>5
  <2>6. QED BY <2>2, <2>3, <2>4, <2>5, OwingBounded
<1>13. PaysOwnKey' BY <1>6 DEF PaysOwnKey
<1>14. RevokedStaysRevoked'
  <2> SUFFICES ASSUME NEW i \in DOMAIN keys' PROVE keys'[i].secret \notin revoked'
    BY DEF RevokedStaysRevoked
  <2>1. CASE i = 0 BY <1>1, <1>4, <1>5, <2>1
  <2>2. CASE i # 0
    <3>1. keys'[i] = keys[i] /\ i \in DOMAIN keys /\ keys[i].secret # keys[0].secret BY <1>5, <2>2
    <3>2. keys[i].secret # apiKey /\ keys[i].secret \notin revoked
      BY <2>2, <3>1 DEF KeyInv, ApiKeyApart, KeysKept, RevokedStaysRevoked
    <3>3. QED BY <1>1, <3>1, <3>2
  <2>3. QED BY <2>1, <2>2
<1>15. QED BY <1>5, <1>8, <1>9, <1>10, <1>11, <1>12, <1>13, <1>14 DEF KeyInv, KeysKept

LEMMA KeyStep ==
    ASSUME KeysAssumption, KeyInv, [KeyNext]_keyVars
    PROVE  KeyInv'
<1>1. CASE UNCHANGED keyVars
  BY <1>1 DEF keyVars, KeyInv, KeyTypeOK, IdsBehind, SecretsDrawn, ApiKeyApart, RotationGone,
              KeysKept, OvershootBounded, PaysOwnKey, RevokedStaysRevoked, Unpaid
<1>2. CASE KeyNext
  <2>1. ASSUME NEW v \in Visits, NEW s \in Secrets, Verify(v, s) PROVE KeyInv'
    BY <2>1, VerifyKeeps
  <2>2. ASSUME NEW v \in Visits, Settle(v) PROVE KeyInv'
    BY <2>2, SettleKeeps
  <2>3. ASSUME NEW id \in KeyIds, DeleteKey(id) PROVE KeyInv'
    BY <2>3, DeleteKeeps
  <2>4. ASSUME NEW id \in KeyIds, EditKey(id) \/ ResetKey(id) PROVE KeyInv'
    BY <2>4, EditKeeps
  <2>5. ASSUME NEW id \in KeyIds, RotateKey(id) PROVE KeyInv'
    BY <2>5, RotateKeeps
  <2>6. CASE CreateKey BY <2>6, CreateKeeps
  <2>7. CASE PersistApiKey BY <2>7, PersistKeeps
  <2>8. CASE RestartKeys BY <2>8, RestartKeysKeeps
  <2>9. QED BY <1>2, <2>1, <2>2, <2>3, <2>4, <2>5, <2>6, <2>7, <2>8 DEF KeyNext
<1>3. QED BY <1>1, <1>2

(* The invariant that carries the two theorems below: secrets and ids are   *)
(* drawn in order, and the one in config.json stays apart from the others.  *)
THEOREM KeyInvariant == KeySpec => []KeyInv
<1>1. KeyInit => KeyInv BY KeyInitial, KeysAssumption
<1>2. KeyInv /\ [KeyNext]_keyVars => KeyInv' BY KeyStep, KeysAssumption
<1>3. QED BY <1>1, <1>2, PTL DEF KeySpec

(* The types of the keys, and: however keys are created, rotated, deleted   *)
(* and replaced in config.json, the system key is there and a secret opens  *)
(* one key.                                                                 *)
THEOREM OneKeyPerSecret == KeySpec => []KeyTypeOK
<1>1. KeyInv => KeyTypeOK BY DEF KeyInv
<1>2. QED BY <1>1, KeyInvariant, PTL

(* For any number of requests, keys and limits: a key overruns the largest  *)
(* limit it was used under by no more than there are requests, a request    *)
(* pays with the key it came with, and a secret that was told to be void    *)
(* opens nothing.                                                           *)
THEOREM KeysStayKept == KeySpec => []KeysKept
<1>1. KeyInv => KeysKept BY DEF KeyInv
<1>2. QED BY <1>1, KeyInvariant, PTL

-----------------------------------------------------------------------------
(* Account groups.                                                          *)

(* All names in use are in R; every key uses what it was given.             *)
Placed(R) ==
    /\ \A c \in Accounts : member[c] \subseteq R
    /\ \A k \in Holders : bind[k] \in R \cup {NoName}
Given == \A k \in Holders : Uses(k) = grants[k]

(* In a rename the registry is ahead of the credentials and these are ahead *)
(* of the keys: a key still bound to the old name was given the credentials *)
(* that carry the new one.                                                  *)
Promised ==
    \A k \in Holders : grants[k] =
        IF bind[k] = NoName THEN Accounts
        ELSE {c \in Accounts : (IF bind[k] = chore.old THEN chore.new ELSE bind[k]) \in member[c]}
RenameOK ==
    /\ chore.pc # "forget" /\ chore.old \in Names \ registry /\ chore.new \in registry
    /\ \A k \in Holders : /\ bind[k] \in registry \cup {chore.old, NoName}
                          /\ bind[k] # chore.new
    /\ chore.pc = "members" =>
          \A c \in Accounts : member[c] \subseteq registry \cup {chore.old} /\ chore.new \notin member[c]
    /\ chore.pc \in {"save", "keys"} =>
          (\A c \in Accounts : member[c] \subseteq registry) /\ Promised

(* In a deletion the registry comes last.                                   *)
DeleteOK ==
    /\ chore.old \in Names /\ Placed(registry)
    /\ chore.pc \in {"save", "keys", "forget"} => \A c \in Accounts : chore.old \notin member[c]
    /\ chore.pc \in {"save", "keys"} =>
          \A k \in Holders : bind[k] # chore.old => Uses(k) = grants[k]
    /\ chore.pc = "forget" => \A k \in Holders : bind[k] # chore.old

ChoreOK ==
    /\ chore.pc \in {"rest", "members", "keys", "forget"} => member = memberFile
    /\ chore.pc \in {"rest", "members", "forget"} => Given
    /\ chore.pc = "rest" => Placed(registry)
    /\ chore.pc # "rest" /\ chore.op = "rename" => RenameOK
    /\ chore.pc # "rest" /\ chore.op = "delete" => DeleteOK

(* After a write that failed nothing is promised until a start.             *)
GroupInv ==
    /\ GroupTypeOK
    /\ chore.pc = "undo" => unsaved /\ chore.op = "rename"
    /\ chore.pc # "rest" /\ chore.op = "rename" => {chore.old, chore.new} \subseteq Names
    /\ ~unsaved => ChoreOK

LEMMA UsedPlaced ==
    ASSUME NEW m, NEW b, NEW R
    PROVE  /\ (\A c \in Accounts : m[c] \subseteq R) /\ (\A k \in Holders : b[k] \in R \cup {NoName})
                => Used(m, b) \subseteq R
           /\ \A k \in Holders : b[k] # NoName => b[k] \in Used(m, b)
           /\ \A c \in Accounts : m[c] \subseteq Used(m, b)
BY DEF Used

LEMMA AtRestFacts ==
    /\ AtRest \in Chore /\ AtRest.pc = "rest"
BY DEF AtRest, Chore

LEMMA GroupInitial ==
    ASSUME GroupInit
    PROVE  GroupInv
<1>1. GroupTypeOK BY AtRestFacts DEF GroupInit, GroupTypeOK
<1>2. ChoreOK BY AtRestFacts DEF GroupInit, ChoreOK, Given, Placed, Uses
<1>3. QED BY <1>1, <1>2, AtRestFacts DEF GroupInv, GroupInit

(* A start makes the names in use known again, and what is in the file is   *)
(* what the keys have.                                                      *)
LEMMA RestartGroupsKeeps ==
    ASSUME GroupsAssumption, GroupInv, RestartGroups
    PROVE  GroupInv'
<1>1. /\ registry' = registry \cup Used(memberFile, bind)
      /\ member' = memberFile /\ chore' = AtRest /\ unsaved' = FALSE
      /\ memberFile' = memberFile /\ bind' = bind
      /\ grants' = IF chore.pc = "rest" /\ ~unsaved THEN grants
                   ELSE [k \in Holders |-> IF bind[k] = NoName THEN Accounts
                                           ELSE {c \in Accounts : bind[k] \in memberFile[c]}]
  BY DEF RestartGroups, Bootstrap
<1>2. GroupTypeOK BY DEF GroupInv
<1>3. Used(memberFile, bind) \subseteq Names BY <1>2 DEF GroupTypeOK, Used
<1>4. GroupTypeOK'
  <2>1. grants' \in [Holders -> SUBSET Accounts] BY <1>1, <1>2 DEF GroupTypeOK
  <2>2. QED BY <1>1, <1>2, <1>3, <2>1, AtRestFacts DEF GroupTypeOK
<1>5. Placed(registry)' BY <1>1, UsedPlaced DEF Placed
<1>6. Given'
  <2>1. CASE chore.pc = "rest" /\ ~unsaved
    BY <1>1, <2>1 DEF GroupInv, ChoreOK, Given, Uses
  <2>2. CASE ~(chore.pc = "rest" /\ ~unsaved)
    BY <1>1, <2>2 DEF Given, Uses
  <2>3. QED BY <2>1, <2>2
<1>7. QED BY <1>1, <1>4, <1>5, <1>6, AtRestFacts DEF GroupInv, ChoreOK

(* What is done in one step.                                                *)
LEMMA CreateGroupKeeps ==
    ASSUME GroupsAssumption, GroupInv, NEW n \in Names, CreateGroup(n)
    PROVE  GroupInv'
<1>1. /\ chore.pc = "rest" /\ registry' = registry \cup {n} /\ member' = member
      /\ memberFile' = memberFile /\ bind' = bind /\ chore' = chore /\ grants' = grants
      /\ unsaved' = unsaved
  BY AtRestFacts DEF CreateGroup
<1>2. GroupTypeOK' BY <1>1 DEF GroupInv, GroupTypeOK
<1>3. QED BY <1>1, <1>2 DEF GroupInv, ChoreOK, Given, Placed, Uses

LEMMA AssignGroupsKeeps ==
    ASSUME GroupsAssumption, GroupInv, NEW d \in Accounts, NEW names \in SUBSET Names,
           AssignGroups(d, names)
    PROVE  GroupInv'
<1>1. /\ chore.pc = "rest" /\ names \subseteq registry /\ registry' = registry
      /\ member' = [member EXCEPT ![d] = names]
      /\ \/ memberFile' = member' /\ unsaved' = unsaved
         \/ memberFile' = memberFile /\ unsaved' = TRUE
      /\ bind' = bind /\ chore' = chore
      /\ grants' = [k \in Holders |-> IF bind[k] = NoName THEN Accounts
                                      ELSE {c \in Accounts : bind[k] \in member'[c]}]
  BY AtRestFacts DEF AssignGroups
<1>2. GroupTypeOK BY DEF GroupInv
<1>3. member' \in [Accounts -> SUBSET Names] BY <1>1, <1>2 DEF GroupTypeOK
<1>4. GroupTypeOK'
  <2>1. memberFile' \in [Accounts -> SUBSET Names] BY <1>1, <1>2, <1>3 DEF GroupTypeOK
  <2>2. grants' \in [Holders -> SUBSET Accounts] BY <1>1, <1>2 DEF GroupTypeOK
  <2>3. unsaved' \in BOOLEAN BY <1>1, <1>2 DEF GroupTypeOK
  <2>4. QED BY <1>1, <1>2, <1>3, <2>1, <2>2, <2>3 DEF GroupTypeOK
<1>5. ASSUME ~unsaved' PROVE ChoreOK'
  <2>1. ~unsaved /\ memberFile' = member' BY <1>1, <1>5
  <2>2. Given' BY <1>1 DEF Given, Uses
  <2>3. Placed(registry)' BY <1>1, <1>2, <2>1 DEF GroupInv, ChoreOK, Placed, GroupTypeOK
  <2>4. QED BY <1>1, <2>1, <2>2, <2>3 DEF ChoreOK
<1>6. QED BY <1>1, <1>4, <1>5 DEF GroupInv

LEMMA BindKeyKeeps ==
    ASSUME GroupsAssumption, GroupInv, NEW h \in Holders, NEW n \in Names \cup {NoName}, BindKey(h, n)
    PROVE  GroupInv'
<1>1. /\ chore.pc = "rest" /\ n \in registry \cup {NoName} /\ registry' = registry
      /\ member' = member /\ memberFile' = memberFile /\ chore' = chore /\ unsaved' = unsaved
      /\ bind' = [bind EXCEPT ![h] = n]
      /\ grants' = [grants EXCEPT ![h] = IF n = NoName THEN Accounts
                                         ELSE {c \in Accounts : n \in member[c]}]
  BY AtRestFacts DEF BindKey
<1>2. GroupTypeOK BY DEF GroupInv
<1>3. GroupTypeOK' BY <1>1, <1>2 DEF GroupTypeOK
<1>4. ASSUME ~unsaved' PROVE ChoreOK'
  <2>1. \A k \in Holders : bind'[k] = IF k = h THEN n ELSE bind[k] BY <1>1, <1>2 DEF GroupTypeOK
  <2>2. \A k \in Holders : grants'[k] = IF k # h THEN grants[k]
                              ELSE IF n = NoName THEN Accounts ELSE {c \in Accounts : n \in member[c]}
    BY <1>1, <1>2 DEF GroupTypeOK
  <2>3. Given' BY <1>1, <1>4, <2>1, <2>2 DEF GroupInv, ChoreOK, Given, Uses
  <2>4. Placed(registry)' BY <1>1, <1>4, <2>1 DEF GroupInv, ChoreOK, Placed
  <2>5. QED BY <1>1, <1>4, <2>3, <2>4 DEF GroupInv, ChoreOK
<1>5. QED BY <1>1, <1>3, <1>4 DEF GroupInv

(* A rename or a deletion begins.                                           *)
LEMMA StartRenameKeeps ==
    ASSUME GroupsAssumption, GroupInv, NEW old \in Names, NEW new \in Names, StartRename(old, new)
    PROVE  GroupInv'
<1>1. /\ chore.pc = "rest" /\ old \in registry /\ new \notin registry
      /\ registry' = (registry \ {old}) \cup {new}
      /\ chore' = [pc |-> "members", op |-> "rename", old |-> old, new |-> new]
      /\ member' = member /\ memberFile' = memberFile /\ bind' = bind /\ grants' = grants
      /\ unsaved' = unsaved
  BY AtRestFacts DEF StartRename
<1>2. GroupTypeOK BY DEF GroupInv
<1>3. chore' \in Chore /\ chore'.pc = "members" /\ chore'.op = "rename" /\ chore'.old = old /\ chore'.new = new
  BY <1>1 DEF Chore
<1>4. GroupTypeOK' BY <1>1, <1>2, <1>3 DEF GroupTypeOK
<1>5. ASSUME ~unsaved' PROVE ChoreOK'
  <2>1. member = memberFile /\ Given /\ Placed(registry) BY <1>1, <1>5 DEF GroupInv, ChoreOK
  <2>2. Given' BY <1>1, <2>1 DEF Given, Uses
  <2>3. RenameOK' BY <1>1, <1>3, <2>1 DEF RenameOK, Placed, GroupsAssumption
  <2>4. QED BY <1>1, <1>3, <2>1, <2>2, <2>3 DEF ChoreOK
<1>6. QED BY <1>3, <1>4, <1>5 DEF GroupInv

LEMMA StartDeleteKeeps ==
    ASSUME GroupsAssumption, GroupInv, NEW n \in Names, StartDelete(n)
    PROVE  GroupInv'
<1>1. PICK force \in BOOLEAN :
         /\ ~force => n \notin Used(member, bind)
         /\ chore' = [pc |-> IF force THEN "members" ELSE "forget", op |-> "delete", old |-> n, new |-> NoName]
  BY DEF StartDelete
<1>2. /\ chore.pc = "rest" /\ n \in registry /\ registry' = registry
      /\ member' = member /\ memberFile' = memberFile /\ bind' = bind /\ grants' = grants
      /\ unsaved' = unsaved
  BY AtRestFacts DEF StartDelete
<1>3. GroupTypeOK BY DEF GroupInv
<1>4. /\ chore' \in Chore /\ chore'.op = "delete" /\ chore'.old = n
      /\ chore'.pc = IF force THEN "members" ELSE "forget"
  BY <1>1 DEF Chore
<1>5. GroupTypeOK' BY <1>2, <1>3, <1>4 DEF GroupTypeOK
<1>6. ASSUME ~unsaved' PROVE ChoreOK'
  <2>1. member = memberFile /\ Given /\ Placed(registry) BY <1>2, <1>6 DEF GroupInv, ChoreOK
  <2>2. Given' /\ Placed(registry)' BY <1>2, <2>1 DEF Given, Uses, Placed
  <2>3. ~force => /\ \A c \in Accounts : n \notin member[c]
                  /\ \A k \in Holders : bind[k] # n
    BY <1>1, UsedPlaced DEF GroupsAssumption
  <2>4. DeleteOK' BY <1>2, <1>4, <2>2, <2>3 DEF DeleteOK
  <2>5. QED BY <1>2, <1>4, <2>1, <2>2, <2>4 DEF ChoreOK
<1>7. QED BY <1>4, <1>5, <1>6 DEF GroupInv

(* The steps of a rename or a deletion.                                     *)
LEMMA ChangeMembersKeeps ==
    ASSUME GroupsAssumption, GroupInv, ChangeMembers
    PROVE  GroupInv'
<1>1. /\ chore.pc = "members" /\ member' = [c \in Accounts |-> Renamed(member[c])]
      /\ chore' = [chore EXCEPT !.pc = IF member' = member THEN "keys" ELSE "save"]
      /\ registry' = registry /\ memberFile' = memberFile /\ bind' = bind /\ grants' = grants
      /\ unsaved' = unsaved
  BY DEF ChangeMembers
<1>2. GroupTypeOK BY DEF GroupInv
<1>3. /\ chore' \in Chore /\ chore'.op = chore.op /\ chore'.old = chore.old /\ chore'.new = chore.new
      /\ chore'.pc \in {"keys", "save"} /\ (chore'.pc = "keys" => member' = member)
  BY <1>1, <1>2 DEF GroupTypeOK, Chore
<1>4. chore.op = "rename" => chore.new \in Names BY <1>1 DEF GroupInv
<1>5. ASSUME ~unsaved PROVE ChoreOK'
  <2>1. ChoreOK /\ member = memberFile /\ Given BY <1>1, <1>5 DEF GroupInv, ChoreOK
  <2>2. CASE chore.op = "rename"
    <3>1. RenameOK BY <1>1, <2>1, <2>2 DEF ChoreOK
    <3>2. \A c \in Accounts : member'[c] = IF chore.old \in member[c]
                                           THEN (member[c] \ {chore.old}) \cup {chore.new} ELSE member[c]
      BY <1>1, <2>2 DEF Renamed
    <3>3. \A c \in Accounts : member'[c] \subseteq registry
      BY <1>1, <3>1, <3>2 DEF RenameOK
    <3>4. ASSUME NEW k \in Holders
          PROVE  grants[k] = IF bind[k] = NoName THEN Accounts
                             ELSE {c \in Accounts : (IF bind[k] = chore.old THEN chore.new ELSE bind[k]) \in member'[c]}
      <4>1. grants[k] = Uses(k) BY <2>1 DEF Given
      <4>2. CASE bind[k] = NoName BY <4>1, <4>2 DEF Uses
      <4>3. CASE bind[k] # NoName /\ bind[k] = chore.old
        <5>1. \A c \in Accounts : chore.new \in member'[c] <=> chore.old \in member[c]
          BY <1>1, <3>1, <3>2 DEF RenameOK
        <5>2. QED BY <4>1, <4>3, <5>1 DEF Uses
      <4>4. CASE bind[k] # NoName /\ bind[k] # chore.old
        <5>1. bind[k] # chore.new BY <3>1 DEF RenameOK
        <5>2. \A c \in Accounts : bind[k] \in member'[c] <=> bind[k] \in member[c]
          BY <3>2, <4>4, <5>1
        <5>3. QED BY <4>1, <4>4, <5>2 DEF Uses
      <4>5. QED BY <4>2, <4>3, <4>4
    <3>5. RenameOK'
      <4>1. /\ chore.old \in Names \ registry /\ chore.new \in registry
            /\ \A k \in Holders : bind[k] \in registry \cup {chore.old, NoName} /\ bind[k] # chore.new
        BY <3>1 DEF RenameOK
      <4>2. Promised'
        <5>1. grants' = grants /\ bind' = bind /\ chore'.old = chore.old /\ chore'.new = chore.new
          BY <1>1, <1>3
        <5>2. QED BY <3>4, <5>1 DEF Promised
      <4>3. QED BY <1>1, <1>3, <3>3, <4>1, <4>2 DEF RenameOK
    <3>6. QED BY <1>1, <1>3, <2>1, <2>2, <3>5 DEF ChoreOK
  <2>3. CASE chore.op = "delete"
    <3>1. DeleteOK BY <1>1, <2>1, <2>3 DEF ChoreOK
    <3>2. \A c \in Accounts : member'[c] = IF chore.old \in member[c] THEN member[c] \ {chore.old} ELSE member[c]
      BY <1>1, <2>3 DEF Renamed
    <3>3. \A c \in Accounts : chore.old \notin member'[c] /\ member'[c] \subseteq member[c]
      BY <3>2
    <3>4. Placed(registry)' BY <1>1, <3>1, <3>3 DEF DeleteOK, Placed
    <3>5. \A k \in Holders : bind[k] # chore.old => Uses(k)' = grants[k]
      <4> SUFFICES ASSUME NEW k \in Holders, bind[k] # chore.old PROVE Uses(k)' = grants[k]
        OBVIOUS
      <4>1. \A c \in Accounts : bind[k] \in member'[c] <=> bind[k] \in member[c] BY <3>2
      <4>2. grants[k] = Uses(k) BY <2>1 DEF Given
      <4>3. QED BY <1>1, <4>1, <4>2 DEF Uses
    <3>6. DeleteOK' BY <1>1, <1>3, <3>1, <3>3, <3>4, <3>5 DEF DeleteOK
    <3>7. QED BY <1>1, <1>3, <2>1, <2>3, <3>6 DEF ChoreOK
  <2>4. QED BY <1>2, <2>2, <2>3 DEF GroupTypeOK, Chore
<1>6. member' \in [Accounts -> SUBSET Names]
  <2>1. CASE chore.op = "rename"
    <3>1. chore.old \in Names \cup {NoName} BY <1>2 DEF GroupTypeOK, Chore
    <3>2. QED BY <1>1, <1>2, <1>4, <2>1 DEF GroupTypeOK, Renamed
  <2>2. CASE chore.op # "rename" BY <1>1, <1>2, <2>2 DEF GroupTypeOK, Renamed
  <2>3. QED BY <2>1, <2>2
<1>7. GroupTypeOK' BY <1>1, <1>2, <1>3, <1>6 DEF GroupTypeOK
<1>8. QED BY <1>1, <1>3, <1>5, <1>7 DEF GroupInv

(* The credential file takes the names over, or does not: a rename is then  *)
(* taken back in the registry only.                                         *)
LEMMA SaveMembersKeeps ==
    ASSUME GroupsAssumption, GroupInv, SaveMembers
    PROVE  GroupInv'
<1>1. /\ chore.pc = "save" /\ registry' = registry /\ member' = member /\ bind' = bind
      /\ grants' = grants
      /\ \/ memberFile' = member /\ chore' = [chore EXCEPT !.pc = "keys"] /\ unsaved' = unsaved
         \/ /\ memberFile' = memberFile /\ unsaved' = TRUE
            /\ chore' = IF chore.op = "rename" THEN [chore EXCEPT !.pc = "undo"] ELSE AtRest
  BY DEF SaveMembers
<1>2. GroupTypeOK BY DEF GroupInv
<1>3. CASE memberFile' = member /\ chore' = [chore EXCEPT !.pc = "keys"] /\ unsaved' = unsaved
  <2>1. /\ chore' \in Chore /\ chore'.op = chore.op /\ chore'.old = chore.old /\ chore'.new = chore.new
        /\ chore'.pc = "keys"
    BY <1>2, <1>3 DEF GroupTypeOK, Chore
  <2>2. GroupTypeOK' BY <1>1, <1>2, <1>3, <2>1 DEF GroupTypeOK
  <2>3. ASSUME ~unsaved PROVE ChoreOK'
    <3>1. ChoreOK BY <2>3 DEF GroupInv
    <3>2. chore.op = "rename" => RenameOK'
      BY <1>1, <2>1, <3>1 DEF ChoreOK, RenameOK, Promised
    <3>3. chore.op = "delete" => DeleteOK'
      BY <1>1, <2>1, <3>1 DEF ChoreOK, DeleteOK, Placed, Uses
    <3>4. QED BY <1>1, <1>3, <2>1, <3>2, <3>3 DEF ChoreOK
  <2>4. QED BY <1>1, <1>3, <2>1, <2>2, <2>3 DEF GroupInv
<1>4. CASE /\ memberFile' = memberFile /\ unsaved' = TRUE
           /\ chore' = IF chore.op = "rename" THEN [chore EXCEPT !.pc = "undo"] ELSE AtRest
  <2>1. /\ chore' \in Chore /\ chore'.pc \in {"undo", "rest"}
        /\ chore'.pc = "undo" => chore'.op = "rename" /\ {chore'.old, chore'.new} \subseteq Names
    BY <1>1, <1>2, <1>4, AtRestFacts DEF GroupInv, GroupTypeOK, Chore
  <2>2. GroupTypeOK' BY <1>1, <1>2, <1>4, <2>1 DEF GroupTypeOK
  <2>3. QED BY <1>4, <2>1, <2>2 DEF GroupInv
<1>5. QED BY <1>1, <1>3, <1>4

LEMMA UndoRenameKeeps ==
    ASSUME GroupsAssumption, GroupInv, UndoRename
    PROVE  GroupInv'
<1>1. /\ chore.pc = "undo" /\ registry' = (registry \ {chore.new}) \cup {chore.old}
      /\ chore' = AtRest /\ unsaved' = unsaved /\ unsaved
  BY DEF UndoRename, GroupInv
<1>2. chore.old \in Names BY <1>1 DEF GroupInv
<1>3. GroupTypeOK' BY <1>1, <1>2, AtRestFacts DEF UndoRename, GroupInv, GroupTypeOK
<1>4. QED BY <1>1, <1>3, AtRestFacts DEF GroupInv

LEMMA ChangeKeysKeeps ==
    ASSUME GroupsAssumption, GroupInv, ChangeKeys
    PROVE  GroupInv'
<1>1. /\ chore.pc = "keys" /\ registry' = registry /\ member' = member
      /\ memberFile' = memberFile /\ unsaved' = unsaved
      /\ bind' = [k \in Holders |-> IF bind[k] # chore.old THEN bind[k]
                                    ELSE IF chore.op = "rename" THEN chore.new ELSE NoName]
      /\ grants' = IF chore.op = "rename" THEN grants
                   ELSE [k \in Holders |-> IF bind[k] = chore.old THEN Accounts ELSE grants[k]]
      /\ chore' = IF chore.op = "rename" THEN AtRest ELSE [chore EXCEPT !.pc = "forget"]
  BY DEF ChangeKeys
<1>2. GroupTypeOK BY DEF GroupInv
<1>3. CASE chore.op = "rename"
  <2>1. chore' \in Chore /\ chore'.pc = "rest" BY <1>1, <1>3, AtRestFacts
  <2>2. bind' \in [Holders -> Names \cup {NoName}] BY <1>1, <1>2, <1>3 DEF GroupTypeOK, Chore
  <2>3. GroupTypeOK' BY <1>1, <1>2, <1>3, <2>1, <2>2 DEF GroupTypeOK
  <2>4. ASSUME ~unsaved PROVE ChoreOK'
    <3>1. RenameOK /\ member = memberFile BY <1>1, <1>3, <2>4 DEF GroupInv, ChoreOK
    <3>2. \A k \in Holders : bind'[k] = IF bind[k] = chore.old THEN chore.new ELSE bind[k]
      BY <1>1, <1>3
    <3>3. /\ chore.old # NoName /\ chore.new # NoName
          /\ \A k \in Holders : grants'[k] = IF bind[k] = NoName THEN Accounts
                ELSE {c \in Accounts : (IF bind[k] = chore.old THEN chore.new ELSE bind[k]) \in member[c]}
      BY <1>1, <1>2, <1>3, <3>1 DEF RenameOK, Promised, GroupsAssumption, GroupTypeOK
    <3>4. Given' BY <1>1, <3>2, <3>3 DEF Given, Uses
    <3>5. Placed(registry)' BY <1>1, <3>1, <3>2 DEF RenameOK, Placed
    <3>6. QED BY <1>1, <2>1, <3>1, <3>4, <3>5 DEF ChoreOK
  <2>5. QED BY <1>1, <2>1, <2>3, <2>4 DEF GroupInv
<1>4. CASE chore.op # "rename"
  <2>1. /\ chore' \in Chore /\ chore'.pc = "forget" /\ chore'.op = "delete" /\ chore.op = "delete"
        /\ chore'.old = chore.old
    BY <1>1, <1>2, <1>4 DEF GroupTypeOK, Chore
  <2>2. bind' \in [Holders -> Names \cup {NoName}] BY <1>1, <1>2, <1>4 DEF GroupTypeOK
  <2>3. grants' \in [Holders -> SUBSET Accounts] BY <1>1, <1>2, <1>4 DEF GroupTypeOK
  <2>4. GroupTypeOK' BY <1>1, <1>2, <2>1, <2>2, <2>3 DEF GroupTypeOK
  <2>5. ASSUME ~unsaved PROVE ChoreOK'
    <3>1. DeleteOK /\ member = memberFile BY <1>1, <2>1, <2>5 DEF GroupInv, ChoreOK
    <3>2. \A k \in Holders : bind'[k] = IF bind[k] = chore.old THEN NoName ELSE bind[k]
      BY <1>1, <1>4
    <3>3. Given'
      <4> SUFFICES ASSUME NEW k \in Holders PROVE Uses(k)' = grants'[k] BY DEF Given
      <4>1. CASE bind[k] = chore.old BY <1>1, <1>4, <3>2, <4>1 DEF Uses
      <4>2. CASE bind[k] # chore.old
        <5>1. Uses(k) = grants[k] BY <1>1, <3>1, <4>2 DEF DeleteOK
        <5>2. grants'[k] = grants[k] BY <1>1, <1>4, <4>2
        <5>3. QED BY <1>1, <3>2, <4>2, <5>1, <5>2 DEF Uses
      <4>3. QED BY <4>1, <4>2
    <3>4. Placed(registry)' BY <1>1, <3>1, <3>2 DEF DeleteOK, Placed
    <3>5. \A k \in Holders : bind'[k] # chore.old
      BY <3>1, <3>2 DEF DeleteOK, GroupsAssumption
    <3>6. DeleteOK' BY <1>1, <2>1, <3>1, <3>4, <3>5 DEF DeleteOK
    <3>7. QED BY <1>1, <2>1, <3>1, <3>3, <3>6 DEF ChoreOK
  <2>6. QED BY <1>1, <2>1, <2>4, <2>5 DEF GroupInv
<1>5. QED BY <1>3, <1>4

LEMMA ForgetGroupKeeps ==
    ASSUME GroupsAssumption, GroupInv, ForgetGroup
    PROVE  GroupInv'
<1>1. /\ chore.pc = "forget" /\ registry' = registry \ {chore.old} /\ chore' = AtRest
      /\ member' = member /\ memberFile' = memberFile /\ bind' = bind /\ grants' = grants
      /\ unsaved' = unsaved
  BY DEF ForgetGroup
<1>2. GroupTypeOK BY DEF GroupInv
<1>3. GroupTypeOK' BY <1>1, <1>2, AtRestFacts DEF GroupTypeOK
<1>4. ASSUME ~unsaved PROVE ChoreOK'
  <2>1. chore.op = "delete" BY <1>1, <1>2, <1>4 DEF GroupInv, ChoreOK, RenameOK, GroupTypeOK, Chore
  <2>2. DeleteOK /\ Given /\ member = memberFile BY <1>1, <1>4, <2>1 DEF GroupInv, ChoreOK
  <2>3. Placed(registry)' BY <1>1, <2>2 DEF DeleteOK, Placed
  <2>4. Given' BY <1>1, <2>2 DEF Given, Uses
  <2>5. QED BY <1>1, <2>2, <2>3, <2>4, AtRestFacts DEF ChoreOK
<1>5. QED BY <1>1, <1>3, <1>4, AtRestFacts DEF GroupInv

LEMMA GroupStep ==
    ASSUME GroupsAssumption, GroupInv, [GroupNext]_groupVars
    PROVE  GroupInv'
<1>1. CASE UNCHANGED groupVars
  BY <1>1 DEF groupVars, GroupInv, GroupTypeOK, ChoreOK, RenameOK, Promised, DeleteOK, Given,
              Placed, Uses
<1>2. CASE GroupNext
  <2>1. ASSUME NEW n \in Names, CreateGroup(n) PROVE GroupInv' BY <2>1, CreateGroupKeeps
  <2>2. ASSUME NEW n \in Names, StartDelete(n) PROVE GroupInv' BY <2>2, StartDeleteKeeps
  <2>3. ASSUME NEW n \in Names, NEW new \in Names, StartRename(n, new) PROVE GroupInv'
    BY <2>3, StartRenameKeeps
  <2>4. ASSUME NEW c \in Accounts, NEW names \in SUBSET Names, AssignGroups(c, names) PROVE GroupInv'
    BY <2>4, AssignGroupsKeeps
  <2>5. ASSUME NEW k \in Holders, NEW n \in Names \cup {NoName}, BindKey(k, n) PROVE GroupInv'
    BY <2>5, BindKeyKeeps
  <2>6. CASE ChangeMembers BY <2>6, ChangeMembersKeeps
  <2>7. CASE SaveMembers BY <2>7, SaveMembersKeeps
  <2>8. CASE UndoRename BY <2>8, UndoRenameKeeps
  <2>9. CASE ChangeKeys BY <2>9, ChangeKeysKeeps
  <2>10. CASE ForgetGroup BY <2>10, ForgetGroupKeeps
  <2>11. CASE RestartGroups BY <2>11, RestartGroupsKeeps
  <2>12. QED
    BY <1>2, <2>1, <2>2, <2>3, <2>4, <2>5, <2>6, <2>7, <2>8, <2>9, <2>10, <2>11 DEF GroupNext
<1>3. QED BY <1>1, <1>2

(* The invariant that carries the theorem below: how far the registry, the  *)
(* credentials and the keys are apart at each step of a rename or deletion. *)
THEOREM GroupInvariant == GroupSpec => []GroupInv
<1>1. GroupInit => GroupInv BY GroupInitial
<1>2. GroupInv /\ [GroupNext]_groupVars => GroupInv' BY GroupStep, GroupsAssumption
<1>3. QED BY <1>1, <1>2, PTL DEF GroupSpec

(* For any accounts, keys and names: whenever no operation is under way     *)
(* every name in use is registered and every key uses exactly the accounts  *)
(* it was given, stops in the middle of a rename included.                  *)
THEOREM GroupsStayKept == GroupSpec => []GroupsKept
<1>1. GroupInv => GroupsKept
  <2> SUFFICES ASSUME GroupInv, Settled PROVE Used(member, bind) \subseteq registry /\ Given
    BY DEF GroupsKept, RefsRegistered, GrantsKept, Given
  <2>1. Placed(registry) /\ Given BY DEF GroupInv, ChoreOK, Settled
  <2>2. QED BY <2>1, UsedPlaced DEF Placed
<1>2. QED BY <1>1, GroupInvariant, PTL

-----------------------------------------------------------------------------
(* All that administrators change and the counters, as MCServices has them. *)

(* The types of the keys, groups, settings and counters hold together, for  *)
(* any number of each: ids below their counters, one holder of a lock, no   *)
(* operation at a place it cannot be (ClientKeyManager, GroupManager,       *)
(* update_config_file, save_stats).                                         *)
THEOREM ServicesTypesHold == Spec => []ServicesTypeOK
<1>1. Init => KeyInit /\ GroupInit /\ ConfigInit /\ StatsInit BY DEF Init
<1>2. [Next]_<<part, keyVars, groupVars, configVars, proxyVars, statsVars, updateVars>>
        => [KeyNext]_keyVars /\ [GroupNext]_groupVars /\ [ConfigNext]_configVars /\ [StatsNext]_statsVars
  BY DEF Next, Rest
<1>3. Spec => KeySpec /\ GroupSpec /\ ConfigSpec /\ StatsSpec
  BY <1>1, <1>2, PTL DEF Spec, KeySpec, GroupSpec, ConfigSpec, StatsSpec
<1>4. GroupInv => GroupTypeOK BY DEF GroupInv
<1>5. KeyTypeOK /\ GroupTypeOK /\ ConfigTypeOK /\ StatsTypeOK => ServicesTypeOK
  BY DEF ServicesTypeOK
<1>6. QED
  BY <1>3, <1>4, <1>5, OneKeyPerSecret, GroupInvariant, ConfigTypeCorrect, StatsTypeCorrect, PTL

(* What a client key is worth is kept while everything else is changed      *)
(* beside it: no request pays with another key, no void secret opens one,   *)
(* and a key uses exactly the accounts of its group (verify_and_touch_ex,   *)
(* record_usage, rotate, rename_group, delete_group).                       *)
THEOREM ClientRightsStayKept == Spec => []ClientRightsKept
<1>1. Init => KeyInit /\ GroupInit BY DEF Init
<1>2. [Next]_<<part, keyVars, groupVars, configVars, proxyVars, statsVars, updateVars>>
        => [KeyNext]_keyVars /\ [GroupNext]_groupVars
  BY DEF Next, Rest
<1>3. Spec => KeySpec /\ GroupSpec BY <1>1, <1>2, PTL DEF Spec, KeySpec, GroupSpec
<1>4. KeysKept /\ GroupsKept => ClientRightsKept BY DEF ClientRightsKept
<1>5. QED BY <1>3, <1>4, KeysStayKept, GroupsStayKept, PTL

=============================================================================
