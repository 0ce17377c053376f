----------------------------- MODULE ModelCache -----------------------------
(***************************************************************************)
(* The models each credential may use, as the upstream lists them: fetched *)
(* once for all who ask at a time, kept for a while, dropped when the      *)
(* credential or the global proxy changes (src/kiro/token_manager.rs).     *)
(***************************************************************************)
EXTENDS Integers, FiniteSets

CONSTANTS
    Models,          \* credentials
    Fetchers,        \* requests that want a list
    Permits,         \* model_refresh_semaphore
    MaxChange        \* bound: changes of a credential, or of the proxy

ASSUME ModelsAssumption ==
    /\ Permits \in Nat \ {0} /\ MaxChange \in Nat
    /\ Models # {} /\ Models \cap {"proxy", "clear"} = {}

VARIABLES
    credential,      \* version of what a fetch for it would use, or Gone
    proxy,           \* version of the global proxy
    modelCache,      \* model_cache: what the list was fetched with, or None
    fresh,           \* entries within their time to live
    generation,      \* model_cache_generations
    epoch,           \* model_cache_epoch
    lockOf,          \* model_refresh_locks: the lock now handed out
    fetcher,         \* the local variables of refresh_model_cache_for
    change           \* changes made and not announced yet

modelVars == <<credential, proxy, modelCache, fresh, generation, epoch, lockOf, fetcher, change>>

Gone == 0
None == [credential |-> Gone, proxy |-> Gone]
Idle == [pc |-> "idle", id |-> CHOOSE c \in Models : TRUE, lock |-> 0, generation |-> 0,
         epoch |-> 0, with |-> None, served |-> FALSE, force |-> FALSE]

ModelInit ==
    /\ credential = [c \in Models |-> 1] /\ proxy = 1
    /\ modelCache = [c \in Models |-> None] /\ fresh = {}
    /\ generation = [c \in Models |-> 0] /\ epoch = 0
    /\ lockOf = [c \in Models |-> 1]
    /\ fetcher = [f \in Fetchers |-> Idle]
    /\ change = {}

-----------------------------------------------------------------------------
(* Changes, and how the cache hears of them.                                *)

\* A new login, a token, a proxy: memory first (update_credential,
\* update_refresh_token, replace_idc_relogin_credentials), or a deletion.
Change(c) ==
    /\ c \notin change /\ credential[c] \in 1..MaxChange
    /\ credential' = [credential EXCEPT ![c] = @ + 1]
    /\ change' = change \cup {c}
    /\ UNCHANGED <<proxy, modelCache, fresh, generation, epoch, lockOf, fetcher>>

RemoveEntry(c) ==
    /\ c \notin change /\ credential[c] # Gone
    /\ credential' = [credential EXCEPT ![c] = Gone]
    /\ change' = change \cup {c}
    /\ UNCHANGED <<proxy, modelCache, fresh, generation, epoch, lockOf, fetcher>>

ChangeProxy ==
    /\ "proxy" \notin change /\ proxy <= MaxChange
    /\ proxy' = proxy + 1
    /\ change' = change \cup {"proxy"}
    /\ UNCHANGED <<credential, modelCache, fresh, generation, epoch, lockOf, fetcher>>

\* Slip: every invalidation forgets the lock, as a removal does.
InvalidateAndUnlock(c) ==
    /\ c \in change
    /\ generation' = [generation EXCEPT ![c] = @ + 1]
    /\ modelCache' = [modelCache EXCEPT ![c] = None]
    /\ lockOf' = [lockOf EXCEPT ![c] = @ + 1]
    /\ change' = change \ {c}
    /\ UNCHANGED <<credential, proxy, fresh, epoch, fetcher>>

\* invalidate_model_cache; remove_model_cache also forgets the lock.
Invalidate(c) ==
    /\ c \in change
    /\ generation' = [generation EXCEPT ![c] = @ + 1]
    /\ modelCache' = [modelCache EXCEPT ![c] = None]
    /\ lockOf' = IF credential[c] = Gone THEN [lockOf EXCEPT ![c] = @ + 1] ELSE lockOf
    /\ change' = change \ {c}
    /\ UNCHANGED <<credential, proxy, fresh, epoch, fetcher>>

\* invalidate_all_model_caches: the epoch, then the map.
RaiseEpoch ==
    /\ "proxy" \in change
    /\ epoch' = epoch + 1
    /\ change' = (change \ {"proxy"}) \cup {"clear"}
    /\ UNCHANGED <<credential, proxy, modelCache, fresh, generation, lockOf, fetcher>>

ClearAll ==
    /\ "clear" \in change
    /\ modelCache' = [c \in Models |-> None]
    /\ change' = change \ {"clear"}
    /\ UNCHANGED <<credential, proxy, fresh, generation, epoch, lockOf, fetcher>>

Expire(c) ==
    /\ c \in fresh
    /\ fresh' = fresh \ {c}
    /\ UNCHANGED <<credential, proxy, modelCache, generation, epoch, lockOf, fetcher, change>>

-----------------------------------------------------------------------------
(* A fetch (refresh_model_cache_for).                                       *)

Holding == {"locked", "ready", "reading", "fetched"}
To(f, r) == fetcher' = [fetcher EXCEPT ![f] = r]
Unmoved == UNCHANGED <<credential, proxy, generation, epoch, lockOf, change>>

\* A list within its time to live is enough unless the caller forces.
Ask(f, c, force) ==
    /\ fetcher[f].pc = "idle"
    /\ force \/ c \notin fresh \/ modelCache[c] = None
    /\ To(f, [Idle EXCEPT !.pc = "asked", !.id = c, !.lock = lockOf[c], !.force = force])
    /\ UNCHANGED <<modelCache, fresh>> /\ Unmoved

\* The lock; whoever waited takes the list that came meanwhile.
Lock(f) ==
    /\ fetcher[f].pc = "asked"
    /\ \A g \in Fetchers : fetcher[g].pc \in Holding =>
           <<fetcher[g].id, fetcher[g].lock>> # <<fetcher[f].id, fetcher[f].lock>>
    /\ LET c == fetcher[f].id
           enough == modelCache[c] # None /\ (IF fetcher[f].force THEN fetcher[f].served ELSE c \in fresh)
       IN To(f, IF enough THEN Idle ELSE [fetcher[f] EXCEPT !.pc = "locked"])
    /\ UNCHANGED <<modelCache, fresh>> /\ Unmoved

\* The generation and the epoch the answer will be compared with.
ReadGeneration(f) ==
    /\ fetcher[f].pc = "locked"
    /\ To(f, [fetcher[f] EXCEPT !.pc = "ready", !.generation = generation[fetcher[f].id], !.epoch = epoch])
    /\ UNCHANGED <<modelCache, fresh>> /\ Unmoved

\* A permit, and the credential; the proxy is read later.
Prepare(f) ==
    /\ fetcher[f].pc = "ready"
    /\ Cardinality({g \in Fetchers : fetcher[g].pc \in {"reading", "fetched"}}) < Permits
    /\ To(f, IF credential[fetcher[f].id] = Gone THEN Idle
             ELSE [fetcher[f] EXCEPT !.pc = "reading", !.with.credential = credential[fetcher[f].id]])
    /\ UNCHANGED <<modelCache, fresh>> /\ Unmoved

Fetch(f) ==
    /\ fetcher[f].pc = "reading"
    /\ \/ To(f, [fetcher[f] EXCEPT !.pc = "fetched", !.with.proxy = proxy])
       \/ To(f, Idle)                                       \* the upstream fails
    /\ UNCHANGED <<modelCache, fresh>> /\ Unmoved

Store(c, with) ==
    /\ modelCache' = [modelCache EXCEPT ![c] = with]
    /\ fresh' = fresh \cup {c}

\* Slip: the epoch is not compared.
FinishAnyEpoch(f) ==
    LET c == fetcher[f].id
    IN /\ fetcher[f].pc = "fetched"
       /\ IF fetcher[f].generation = generation[c]
          THEN Store(c, fetcher[f].with) ELSE UNCHANGED <<modelCache, fresh>>
       /\ To(f, Idle) /\ Unmoved

\* Stored only if nothing was invalidated meanwhile; those who asked before
\* will take it.
Finish(f) ==
    LET c == fetcher[f].id
        valid == fetcher[f].generation = generation[c] /\ fetcher[f].epoch = epoch
    IN /\ fetcher[f].pc = "fetched"
       /\ IF valid THEN Store(c, fetcher[f].with) ELSE UNCHANGED <<modelCache, fresh>>
       /\ fetcher' = [g \in Fetchers |->
              IF g = f THEN Idle
              ELSE IF valid /\ fetcher[g].pc = "asked" /\ fetcher[g].id = c
                   THEN [fetcher[g] EXCEPT !.served = TRUE] ELSE fetcher[g]]
       /\ Unmoved

ModelNext ==
    \/ \E c \in Models : Change(c) \/ RemoveEntry(c) \/ Invalidate(c) \/ Expire(c)
    \/ ChangeProxy \/ RaiseEpoch \/ ClearAll
    \/ \E f \in Fetchers :
        \/ \E c \in Models, force \in BOOLEAN : Ask(f, c, force)
        \/ Lock(f) \/ ReadGeneration(f) \/ Prepare(f) \/ Fetch(f) \/ Finish(f)

ModelSpec == ModelInit /\ [][ModelNext]_modelVars

-----------------------------------------------------------------------------
(* Properties.                                                              *)

\* The types of the state; a lock is handed out to one fetch at a time.
ModelTypeOK ==
    /\ credential \in [Models -> Nat] /\ proxy \in Nat
    /\ modelCache \in [Models -> [credential : Nat, proxy : Nat]]
    /\ fresh \subseteq Models
    /\ generation \in [Models -> Nat] /\ epoch \in Nat /\ lockOf \in [Models -> Nat]
    /\ change \subseteq Models \cup {"proxy", "clear"}
    /\ \A f, g \in Fetchers :
        /\ fetcher[f].id \in Models
        /\ f # g /\ fetcher[f].pc \in Holding /\ fetcher[g].pc \in Holding
             => <<fetcher[f].id, fetcher[f].lock>> # <<fetcher[g].id, fetcher[g].lock>>

\* A list is never older than the last change announced: once the change of a
\* credential, its deletion or a new global proxy has gone through
\* invalidate_model_cache or invalidate_all_model_caches, the cache holds
\* nothing that was fetched before, not even from a fetch then under way.
NoStaleModels ==
    \A c \in Models : modelCache[c] # None =>
        /\ c \in change \/ modelCache[c].credential = credential[c]
        /\ {"proxy", "clear"} \cap change # {} \/ modelCache[c].proxy = proxy

\* The models of a credential that still exists are fetched once at a time,
\* whatever invalidates them meanwhile (model_refresh_lock,
\* remove_model_cache), and all fetches together hold no more than the permits.
SingleFlight ==
    /\ \A f, g \in Fetchers :
        /\ f # g /\ fetcher[f].id = fetcher[g].id
        /\ fetcher[f].pc \in Holding /\ fetcher[g].pc \in Holding
        => credential[fetcher[f].id] = Gone
    /\ Cardinality({f \in Fetchers : fetcher[f].pc \in {"reading", "fetched"}}) <= Permits

\* Together: lists are current, and each is asked for by one at a time.
ModelsFresh == NoStaleModels /\ SingleFlight

=============================================================================
