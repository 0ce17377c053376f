--------------------------- MODULE RuntimeConfig ---------------------------
(***************************************************************************)
(* Settings that change while the program runs: the value in memory and    *)
(* the one in config.json (src/kiro/token_manager.rs, src/admin/service.rs, *)
(* src/model/config.rs).  Every update reads the whole file, changes its   *)
(* own fields and writes the whole file, under config_write_lock; what     *)
(* differs is the order of memory and file and the lock around both.       *)
(*                                                                         *)
(* One setting stands for each discipline:                                 *)
(*   balancing  update_load_balancing_settings: two fields of which an     *)
(*              update may give one; likewise the 429 cooldown, session    *)
(*              affinity, the RPM limit, healing, proxy failover           *)
(*   tools      set_tool_compatibility_mode                                *)
(*   headers    set_custom_headers; likewise set_protocol_compatibility    *)
(*   quota      set_quota_reset_recovery_enabled                           *)
(*   proxy      set_global_proxy                                           *)
(***************************************************************************)
EXTENDS FiniteSets

CONSTANTS
    Settings,        \* of those above
    Updaters,        \* calls of the Admin API
    ConfigFaults     \* "write": config.json may not be writable

ASSUME ConfigAssumption ==
    Settings # {} /\ Settings \subseteq {"balancing", "tools", "headers", "quota", "proxy"}

\* The lock held around the update of memory and file.
Guard == [balancing |-> "runtime_config_update_lock", tools |-> "runtime_config_update_lock",
          headers |-> "custom_headers_update_lock", quota |-> "none", proxy |-> "none"]

\* Memory is changed before the file, and changed back if that fails.
MemoryFirst == {"balancing", "quota"}

Fields(s) == IF s = "balancing" THEN {"mode", "invert"} ELSE {"value"}
Value(s) == [Fields(s) -> BOOLEAN]
Defaults == [s \in Settings |-> [f \in Fields(s) |-> FALSE]]

VARIABLES
    memory,          \* what requests see
    file,            \* config.json
    holder,          \* config_write_lock
    update,          \* the local variables of an update
    told,            \* history: the values written for those who asked
    met              \* history: settings of which two updates have met

configVars == <<memory, file, holder, update, told, met>>

NoUpdate == LET s == CHOOSE s \in Settings : TRUE
            IN [pc |-> "idle", setting |-> s, field |-> CHOOSE f \in Fields(s) : TRUE,
                new |-> Defaults[s], prev |-> Defaults[s], read |-> Defaults]

ConfigInit ==
    /\ memory = Defaults /\ file = Defaults /\ told = Defaults
    /\ holder = {}
    /\ update = [u \in Updaters |-> NoUpdate]
    /\ met = {}

Busy(s) == {u \in Updaters : update[u].pc # "idle" /\ update[u].setting = s}
Holds(lock) == {u \in Updaters : update[u].pc # "idle" /\ Guard[update[u].setting] = lock}

Go(u, r) == update' = [update EXCEPT ![u] = r]

\* The update takes its lock; memory-first ones change memory, and return at
\* once when nothing would change.
Begin(u, s, f, v) ==
    LET new == [memory[s] EXCEPT ![f] = v]
    IN /\ update[u].pc = "idle"
       /\ Guard[s] # "none" => Holds(Guard[s]) = {}
       /\ s \in MemoryFirst => new # memory[s]
       /\ memory' = IF s \in MemoryFirst THEN [memory EXCEPT ![s] = new] ELSE memory
       /\ Go(u, [pc |-> "load", setting |-> s, field |-> f, new |-> new, prev |-> memory[s],
                 read |-> Defaults])
       /\ met' = IF Busy(s) = {} THEN met ELSE met \cup {s}
       /\ UNCHANGED <<file, holder, told>>

\* update_config_file: the lock and the fresh copy ...
Load(u) ==
    /\ update[u].pc = "load" /\ holder = {}
    /\ holder' = {u}
    /\ Go(u, [update[u] EXCEPT !.pc = "save", !.read = file])
    /\ UNCHANGED <<memory, file, told, met>>

\* ... and the write.
Save(u) ==
    LET s == update[u].setting
    IN /\ update[u].pc = "save"
       /\ \/ /\ file' = [update[u].read EXCEPT ![s] = update[u].new]
             /\ told' = [told EXCEPT ![s] = [@ EXCEPT ![update[u].field] = update[u].new[update[u].field]]]
             /\ Go(u, [update[u] EXCEPT !.pc = "saved"])
          \/ /\ "write" \in ConfigFaults
             /\ Go(u, [update[u] EXCEPT !.pc = "failed"])
             /\ UNCHANGED <<file, told>>
       /\ holder' = holder \ {u}
       /\ UNCHANGED <<memory, met>>

\* Slip: memory keeps the value that could not be written.
EndKeeping(u) ==
    LET s == update[u].setting
    IN /\ update[u].pc \in {"saved", "failed"}
       /\ memory' = IF update[u].pc = "saved" /\ s \notin MemoryFirst
                    THEN [memory EXCEPT ![s] = update[u].new] ELSE memory
       /\ Go(u, NoUpdate)
       /\ UNCHANGED <<file, holder, told, met>>

\* File-first updates publish what was written, memory-first ones take back
\* what was not; the lock is given back.
End(u) ==
    LET s == update[u].setting
    IN /\ update[u].pc \in {"saved", "failed"}
       /\ memory' = CASE update[u].pc = "saved" /\ s \notin MemoryFirst ->
                             [memory EXCEPT ![s] = update[u].new]
                      [] update[u].pc = "failed" /\ s \in MemoryFirst ->
                             [memory EXCEPT ![s] = update[u].prev]
                      [] OTHER -> memory
       /\ Go(u, NoUpdate)
       /\ UNCHANGED <<file, holder, told, met>>

ConfigNext ==
    \E u \in Updaters :
        \/ \E s \in Settings, v \in BOOLEAN : \E f \in Fields(s) : Begin(u, s, f, v)
        \/ Load(u) \/ Save(u) \/ End(u)

ConfigSpec == ConfigInit /\ [][ConfigNext]_configVars

-----------------------------------------------------------------------------
(* Properties.                                                              *)

Conf == {c \in [Settings -> UNION {Value(s) : s \in Settings}] : \A s \in Settings : c[s] \in Value(s)}

\* The types of the state; who holds config_write_lock is between reading the
\* file and writing it.
ConfigTypeOK ==
    /\ {memory, file, told} \subseteq Conf
    /\ holder \subseteq Updaters
    /\ met \subseteq Settings
    /\ \A u \in Updaters :
        /\ update[u].pc \in {"idle", "load", "save", "saved", "failed"}
        /\ update[u].setting \in Settings
        /\ update[u].field \in Fields(update[u].setting)
        /\ {update[u].new, update[u].prev} \subseteq Value(update[u].setting)
        /\ update[u].read \in Conf
        /\ (update[u].pc = "save") = (u \in holder)

Agrees(s) == Busy(s) = {} => memory[s] = file[s] /\ file[s] = told[s]

\* Memory, config.json and what administrators were told agree on a setting
\* once its updates have ended, failed writes included, although updates of
\* other settings rewrite the whole file meanwhile; for the settings without
\* a lock, as long as no two updates of one have met.
SettingsAgree == \A s \in Settings : (Guard[s] = "none" /\ s \in met) \/ Agrees(s)

=============================================================================
