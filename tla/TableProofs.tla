----------------------------- MODULE TableProofs -----------------------------
(***************************************************************************)
(* For tables of any size, any users, credentials and proxies, and any     *)
(* order of what happens to them: what is evicted had its turn, what is    *)
(* reported as read was written by whoever asked, the snapshot on disk     *)
(* knows what is alive, every client of a proxy can be evicted, and no     *)
(* list of models outlives the change that made it stale.                  *)
(***************************************************************************)
EXTENDS MCRequests, FiniteSetTheorems, FunctionTheorems, SequenceTheorems, WellFoundedInduction,
        TLAPS

(* The models of a credential.                                              *)

FetcherRecord ==
    [pc : {"idle", "asked", "locked", "ready", "reading", "fetched"},
     id : Models \cup {Idle.id}, lock : Nat, generation : Nat, epoch : Nat,
     with : [credential : Nat, proxy : Nat], served : BOOLEAN, force : BOOLEAN]

TypesOK ==
    /\ credential \in [Models -> Nat] /\ proxy \in Nat
    /\ modelCache \in [Models -> [credential : Nat, proxy : Nat]]
    /\ generation \in [Models -> Nat] /\ epoch \in Nat /\ lockOf \in [Models -> Nat]
    /\ fetcher \in [Fetchers -> FetcherRecord]

(* A fetch under way: a credential that exists has one lock, and whatever   *)
(* the fetch was made with is current unless a change of it is under way or *)
(* has moved the generation or the epoch on.                                *)
FlightOK(k) ==
    k.pc # "idle" =>
      /\ k.id \in Models
      /\ credential[k.id] # Gone => k.lock = lockOf[k.id]
      /\ k.pc \in {"ready", "reading", "fetched"} =>
            k.generation <= generation[k.id] /\ k.epoch <= epoch
      /\ k.pc \in {"reading", "fetched"} /\ k.generation = generation[k.id] =>
            k.id \in change \/ k.with.credential = credential[k.id]
      /\ k.pc = "fetched" /\ k.epoch = epoch =>
            "proxy" \in change \/ k.with.proxy = proxy

FlightsOK == \A f \in Fetchers : FlightOK(fetcher[f])

Apart(j, k) ==
    j.pc \in Holding /\ k.pc \in Holding /\ j.id = k.id => j.lock # k.lock
ApartOK == \A f, g \in Fetchers : f # g => Apart(fetcher[f], fetcher[g])

Flying == {f \in Fetchers : fetcher[f].pc \in {"reading", "fetched"}}
PermitsOK == IsFiniteSet(Flying) /\ Cardinality(Flying) <= Permits

ModelInv == TypesOK /\ FlightsOK /\ ApartOK /\ PermitsOK /\ NoStaleModels

-----------------------------------------------------------------------------

LEMMA IdleOK == Idle \in FetcherRecord /\ Idle.pc = "idle" /\ FlightOK(Idle)
  BY DEF Idle, FetcherRecord, None, Gone, FlightOK

LEMMA ModelStarts == ModelInit => ModelInv
  <1> SUFFICES ASSUME ModelInit PROVE ModelInv
    OBVIOUS
  <1>1. \A f \in Fetchers : fetcher[f] = Idle
    BY DEF ModelInit
  <1>2. TypesOK
    BY IdleOK DEF ModelInit, TypesOK, None, Gone
  <1>3. FlightsOK /\ ApartOK
    BY <1>1, IdleOK DEF FlightsOK, ApartOK, Apart, Holding
  <1>4. Flying = {}
    BY <1>1, IdleOK DEF Flying
  <1>5. PermitsOK
    BY <1>4, FS_EmptySet, ModelsAssumption DEF PermitsOK
  <1>6. NoStaleModels
    BY DEF ModelInit, NoStaleModels
  <1> QED BY <1>2, <1>3, <1>5, <1>6 DEF ModelInv

(* Steps that leave the fetches alone leave their locks and permits alone.  *)
LEMMA FetchersRest ==
    ASSUME ApartOK, PermitsOK, UNCHANGED fetcher
    PROVE  ApartOK' /\ PermitsOK'
  BY DEF ApartOK, PermitsOK, Flying

(* A fetch that takes a step which needs no lock and no permit.             *)
LEMMA FetcherMoves ==
    ASSUME TypesOK, FlightsOK, NEW f \in Fetchers, NEW k \in FetcherRecord, To(f, k), FlightOK(k),
           Unmoved
    PROVE  /\ fetcher' \in [Fetchers -> FetcherRecord]
           /\ \A g \in Fetchers : fetcher'[g] = IF g = f THEN k ELSE fetcher[g]
           /\ FlightsOK'
  <1>1. /\ fetcher' \in [Fetchers -> FetcherRecord]
        /\ \A g \in Fetchers : fetcher'[g] = IF g = f THEN k ELSE fetcher[g]
    BY DEF TypesOK, To
  <1>2. \A g \in Fetchers : FlightOK(fetcher[g]) /\ FlightOK(k)
    BY DEF FlightsOK
  <1>3. FlightsOK'
    BY <1>1, <1>2 DEF FlightsOK, FlightOK, Unmoved
  <1> QED BY <1>1, <1>3

LEMMA LocksKept ==
    ASSUME ApartOK, NEW f \in Fetchers, NEW k,
           \A g \in Fetchers : fetcher'[g] = IF g = f THEN k ELSE fetcher[g],
           k.pc \in Holding =>
              fetcher[f].pc \in Holding /\ k.id = fetcher[f].id /\ k.lock = fetcher[f].lock
    PROVE  ApartOK'
  BY DEF ApartOK, Apart

LEMMA PermitsKept ==
    ASSUME PermitsOK, NEW f \in Fetchers, NEW k,
           \A g \in Fetchers : fetcher'[g] = IF g = f THEN k ELSE fetcher[g],
           k.pc \in {"reading", "fetched"} => f \in Flying
    PROVE  PermitsOK'
  <1>1. Flying' \subseteq Flying
    BY DEF Flying
  <1>2. IsFiniteSet(Flying') /\ Cardinality(Flying') <= Cardinality(Flying)
    BY <1>1, FS_Subset DEF PermitsOK
  <1>3. Cardinality(Flying) \in Nat /\ Cardinality(Flying') \in Nat
    BY <1>2, FS_CardinalityType DEF PermitsOK
  <1> QED BY <1>2, <1>3, ModelsAssumption DEF PermitsOK

-----------------------------------------------------------------------------
(* One lemma per action: what is left of the invariant.                     *)

LEMMA ChangeKeeps ==
    ASSUME ModelInv, NEW c \in Models, Change(c) \/ RemoveEntry(c)
    PROVE  ModelInv'
  <1>1. TypesOK'
    BY DEF ModelInv, TypesOK, Change, RemoveEntry, Gone
  <1>2. FlightsOK'
    <2> SUFFICES ASSUME NEW f \in Fetchers PROVE FlightOK(fetcher[f])'
      BY DEF FlightsOK
    <2>1. FlightOK(fetcher[f]) /\ fetcher' = fetcher
      BY DEF ModelInv, FlightsOK, Change, RemoveEntry
    <2> QED BY <2>1 DEF ModelInv, TypesOK, FlightOK, Change, RemoveEntry, Gone
  <1>3. ApartOK' /\ PermitsOK'
    BY FetchersRest DEF ModelInv, Change, RemoveEntry
  <1>4. NoStaleModels'
    BY ModelsAssumption DEF ModelInv, TypesOK, NoStaleModels, Change, RemoveEntry
  <1> QED BY <1>1, <1>2, <1>3, <1>4 DEF ModelInv

LEMMA InvalidateKeeps ==
    ASSUME ModelInv, NEW c \in Models, Invalidate(c)
    PROVE  ModelInv'
  <1>1. TypesOK'
    BY DEF ModelInv, TypesOK, Invalidate, None, Gone
  <1>2. FlightsOK'
    <2> SUFFICES ASSUME NEW f \in Fetchers PROVE FlightOK(fetcher[f])'
      BY DEF FlightsOK
    <2>1. FlightOK(fetcher[f]) /\ fetcher' = fetcher /\ fetcher[f] \in FetcherRecord
      BY DEF ModelInv, TypesOK, FlightsOK, Invalidate
    <2> QED BY <2>1, ModelsAssumption DEF ModelInv, TypesOK, FetcherRecord, FlightOK, Invalidate
  <1>3. ApartOK' /\ PermitsOK'
    BY FetchersRest DEF ModelInv, Invalidate
  <1>4. NoStaleModels'
    BY ModelsAssumption DEF ModelInv, TypesOK, NoStaleModels, Invalidate
  <1> QED BY <1>1, <1>2, <1>3, <1>4 DEF ModelInv

LEMMA ProxyKeeps ==
    ASSUME ModelInv, ChangeProxy \/ RaiseEpoch \/ ClearAll
    PROVE  ModelInv'
  <1>1. TypesOK'
    BY DEF ModelInv, TypesOK, ChangeProxy, RaiseEpoch, ClearAll, None, Gone
  <1>2. FlightsOK'
    <2> SUFFICES ASSUME NEW f \in Fetchers PROVE FlightOK(fetcher[f])'
      BY DEF FlightsOK
    <2>1. FlightOK(fetcher[f]) /\ fetcher' = fetcher /\ fetcher[f] \in FetcherRecord
      BY DEF ModelInv, TypesOK, FlightsOK, ChangeProxy, RaiseEpoch, ClearAll
    <2> QED
      BY <2>1, ModelsAssumption
      DEF ModelInv, TypesOK, FetcherRecord, FlightOK, ChangeProxy, RaiseEpoch, ClearAll
  <1>3. ApartOK' /\ PermitsOK'
    BY FetchersRest DEF ModelInv, ChangeProxy, RaiseEpoch, ClearAll
  <1>4. NoStaleModels'
    BY ModelsAssumption
    DEF ModelInv, TypesOK, NoStaleModels, ChangeProxy, RaiseEpoch, ClearAll
  <1> QED BY <1>1, <1>2, <1>3, <1>4 DEF ModelInv

LEMMA QuietKeeps ==
    ASSUME ModelInv, (\E c \in Models : Expire(c)) \/ UNCHANGED modelVars
    PROVE  ModelInv'
  <1>1. UNCHANGED <<credential, proxy, modelCache, generation, epoch, lockOf, fetcher, change>>
    BY DEF Expire, modelVars
  <1>2. TypesOK' /\ FlightsOK' /\ NoStaleModels'
    BY <1>1 DEF ModelInv, TypesOK, FlightsOK, FlightOK, NoStaleModels
  <1>3. ApartOK' /\ PermitsOK'
    BY <1>1, FetchersRest DEF ModelInv
  <1> QED BY <1>2, <1>3 DEF ModelInv

(* The steps of a fetch that leave the cache alone.                         *)
LEMMA StepKeeps ==
    ASSUME ModelInv, NEW f \in Fetchers, NEW k \in FetcherRecord, To(f, k), FlightOK(k),
           Unmoved, UNCHANGED <<modelCache, fresh>>
    PROVE  /\ TypesOK' /\ FlightsOK' /\ NoStaleModels'
           /\ \A g \in Fetchers : fetcher'[g] = IF g = f THEN k ELSE fetcher[g]
  BY FetcherMoves DEF ModelInv, TypesOK, NoStaleModels, Unmoved

LEMMA AskKeeps ==
    ASSUME ModelInv, NEW f \in Fetchers, NEW c \in Models, NEW force \in BOOLEAN, Ask(f, c, force)
    PROVE  ModelInv'
  <1> DEFINE k == [Idle EXCEPT !.pc = "asked", !.id = c, !.lock = lockOf[c], !.force = force]
  <1>1. k \in FetcherRecord /\ k.pc = "asked" /\ k.id = c /\ k.lock = lockOf[c]
    BY DEF ModelInv, TypesOK, FetcherRecord, Idle, None, Gone
  <1>2. FlightOK(k)
    BY <1>1 DEF FlightOK
  <1>3. To(f, k) /\ Unmoved /\ UNCHANGED <<modelCache, fresh>>
    BY DEF Ask
  <1> HIDE DEF k
  <1>4. /\ TypesOK' /\ FlightsOK' /\ NoStaleModels'
        /\ \A g \in Fetchers : fetcher'[g] = IF g = f THEN k ELSE fetcher[g]
    BY <1>1, <1>2, <1>3, StepKeeps
  <1>5. ApartOK' /\ PermitsOK'
    BY <1>1, <1>4, LocksKept, PermitsKept DEF ModelInv, Holding
  <1> QED BY <1>4, <1>5 DEF ModelInv

(* Whoever finds nothing to fetch, or fails, goes home.                     *)
LEMMA IdleKeeps ==
    ASSUME ModelInv, NEW f \in Fetchers, To(f, Idle), Unmoved, UNCHANGED <<modelCache, fresh>>
    PROVE  ModelInv'
  <1>1. /\ TypesOK' /\ FlightsOK' /\ NoStaleModels'
        /\ \A g \in Fetchers : fetcher'[g] = IF g = f THEN Idle ELSE fetcher[g]
    BY IdleOK, StepKeeps
  <1>2. ApartOK' /\ PermitsOK'
    BY <1>1, IdleOK, LocksKept, PermitsKept DEF ModelInv, Holding
  <1> QED BY <1>1, <1>2 DEF ModelInv

LEMMA LockKeeps ==
    ASSUME ModelInv, NEW f \in Fetchers, Lock(f)
    PROVE  ModelInv'
  <1> DEFINE k == [fetcher[f] EXCEPT !.pc = "locked"]
  <1>1. CASE To(f, Idle)
    BY <1>1, IdleKeeps DEF Lock
  <1>2. CASE To(f, k)
    <2>1. fetcher[f] \in FetcherRecord /\ FlightOK(fetcher[f]) /\ fetcher[f].pc = "asked"
      BY DEF ModelInv, TypesOK, FlightsOK, Lock
    <2>2. k \in FetcherRecord /\ k.pc = "locked" /\ k.id = fetcher[f].id /\ k.lock = fetcher[f].lock
      BY <2>1 DEF FetcherRecord
    <2>3. FlightOK(k)
      BY <2>1, <2>2 DEF FlightOK
    <2> HIDE DEF k
    <2>4. /\ TypesOK' /\ FlightsOK' /\ NoStaleModels'
          /\ \A g \in Fetchers : fetcher'[g] = IF g = f THEN k ELSE fetcher[g]
      BY <1>2, <2>2, <2>3, StepKeeps DEF Lock
    <2>5. \A g \in Fetchers : fetcher[g].pc \in Holding /\ fetcher[g].id = k.id => fetcher[g].lock # k.lock
      BY <2>2 DEF Lock
    <2>6. ApartOK'
      <3> SUFFICES ASSUME NEW i \in Fetchers, NEW j \in Fetchers, i # j
                   PROVE  Apart(fetcher'[i], fetcher'[j])
        BY DEF ApartOK, Apart
      <3>1. CASE i = f
        BY <2>4, <2>5, <3>1 DEF Apart
      <3>2. CASE j = f
        BY <2>4, <2>5, <3>2 DEF Apart
      <3>3. CASE i # f /\ j # f
        BY <2>4, <3>3 DEF ModelInv, ApartOK
      <3> QED BY <3>1, <3>2, <3>3
    <2>7. PermitsOK'
      BY <2>2, <2>4, PermitsKept DEF ModelInv
    <2> QED BY <2>4, <2>6, <2>7 DEF ModelInv
  <1> QED BY <1>1, <1>2 DEF Lock

LEMMA ReadGenerationKeeps ==
    ASSUME ModelInv, NEW f \in Fetchers, ReadGeneration(f)
    PROVE  ModelInv'
  <1> DEFINE k == [fetcher[f] EXCEPT !.pc = "ready", !.generation = generation[fetcher[f].id],
                                     !.epoch = epoch]
  <1>1. fetcher[f] \in FetcherRecord /\ FlightOK(fetcher[f]) /\ fetcher[f].pc = "locked"
    BY DEF ModelInv, TypesOK, FlightsOK, ReadGeneration
  <1>2. fetcher[f].id \in Models /\ generation[fetcher[f].id] \in Nat /\ epoch \in Nat
    BY <1>1 DEF FlightOK, ModelInv, TypesOK
  <1>3. /\ k \in FetcherRecord /\ k.pc = "ready" /\ k.id = fetcher[f].id /\ k.lock = fetcher[f].lock
        /\ k.generation = generation[k.id] /\ k.epoch = epoch
    BY <1>1, <1>2 DEF FetcherRecord
  <1>4. FlightOK(k)
    BY <1>1, <1>2, <1>3 DEF FlightOK
  <1>5. To(f, k) /\ Unmoved /\ UNCHANGED <<modelCache, fresh>>
    BY DEF ReadGeneration
  <1> HIDE DEF k
  <1>6. /\ TypesOK' /\ FlightsOK' /\ NoStaleModels'
        /\ \A g \in Fetchers : fetcher'[g] = IF g = f THEN k ELSE fetcher[g]
    BY <1>3, <1>4, <1>5, StepKeeps
  <1>7. ApartOK' /\ PermitsOK'
    BY <1>1, <1>3, <1>6, LocksKept, PermitsKept DEF ModelInv, Holding
  <1> QED BY <1>6, <1>7 DEF ModelInv

LEMMA PrepareKeeps ==
    ASSUME ModelInv, NEW f \in Fetchers, Prepare(f)
    PROVE  ModelInv'
  <1> DEFINE k == [fetcher[f] EXCEPT !.pc = "reading", !.with.credential = credential[fetcher[f].id]]
  <1>1. CASE To(f, Idle)
    BY <1>1, IdleKeeps DEF Prepare
  <1>2. CASE To(f, k)
    <2>1. fetcher[f] \in FetcherRecord /\ FlightOK(fetcher[f]) /\ fetcher[f].pc = "ready"
      BY DEF ModelInv, TypesOK, FlightsOK, Prepare
    <2>2. fetcher[f].id \in Models /\ credential[fetcher[f].id] \in Nat
      BY <2>1 DEF FlightOK, ModelInv, TypesOK
    <2>3. /\ k \in FetcherRecord /\ k.pc = "reading" /\ k.id = fetcher[f].id
          /\ k.lock = fetcher[f].lock /\ k.generation = fetcher[f].generation
          /\ k.epoch = fetcher[f].epoch /\ k.with.credential = credential[k.id]
      BY <2>1, <2>2 DEF FetcherRecord
    <2>4. FlightOK(k)
      BY <2>1, <2>3 DEF FlightOK
    <2> HIDE DEF k
    <2>5. /\ TypesOK' /\ FlightsOK' /\ NoStaleModels'
          /\ \A g \in Fetchers : fetcher'[g] = IF g = f THEN k ELSE fetcher[g]
      BY <1>2, <2>3, <2>4, StepKeeps DEF Prepare
    <2>6. ApartOK'
      BY <2>1, <2>3, <2>5, LocksKept DEF ModelInv, Holding
    <2>7. PermitsOK'
      <3>1. Flying' = Flying \cup {f} /\ f \notin Flying
        BY <2>1, <2>3, <2>5 DEF Flying
      <3>2. IsFiniteSet(Flying') /\ Cardinality(Flying') = Cardinality(Flying) + 1
        BY <3>1, FS_AddElement DEF ModelInv, PermitsOK
      <3>3. Cardinality(Flying) < Permits /\ Cardinality(Flying) \in Nat
        BY FS_CardinalityType DEF Prepare, Flying, ModelInv, PermitsOK
      <3> QED BY <3>2, <3>3, ModelsAssumption DEF PermitsOK
    <2> QED BY <2>5, <2>6, <2>7 DEF ModelInv
  <1> QED BY <1>1, <1>2 DEF Prepare

LEMMA FetchKeeps ==
    ASSUME ModelInv, NEW f \in Fetchers, Fetch(f)
    PROVE  ModelInv'
  <1> DEFINE k == [fetcher[f] EXCEPT !.pc = "fetched", !.with.proxy = proxy]
  <1>1. CASE To(f, Idle)
    BY <1>1, IdleKeeps DEF Fetch
  <1>2. CASE To(f, k)
    <2>1. fetcher[f] \in FetcherRecord /\ FlightOK(fetcher[f]) /\ fetcher[f].pc = "reading"
      BY DEF ModelInv, TypesOK, FlightsOK, Fetch
    <2>2. /\ k \in FetcherRecord /\ k.pc = "fetched" /\ k.id = fetcher[f].id
          /\ k.lock = fetcher[f].lock /\ k.generation = fetcher[f].generation
          /\ k.epoch = fetcher[f].epoch /\ k.with.credential = fetcher[f].with.credential
          /\ k.with.proxy = proxy
      BY <2>1 DEF FetcherRecord, ModelInv, TypesOK
    <2>3. FlightOK(k)
      BY <2>1, <2>2 DEF FlightOK
    <2> HIDE DEF k
    <2>4. /\ TypesOK' /\ FlightsOK' /\ NoStaleModels'
          /\ \A g \in Fetchers : fetcher'[g] = IF g = f THEN k ELSE fetcher[g]
      BY <1>2, <2>2, <2>3, StepKeeps DEF Fetch
    <2>5. ApartOK' /\ PermitsOK'
      BY <2>1, <2>2, <2>4, LocksKept, PermitsKept DEF ModelInv, Holding, Flying
    <2> QED BY <2>4, <2>5 DEF ModelInv
  <1> QED BY <1>1, <1>2 DEF Fetch

LEMMA FinishKeeps ==
    ASSUME ModelInv, NEW f \in Fetchers, Finish(f)
    PROVE  ModelInv'
  <1> DEFINE done == fetcher[f]
             c == done.id
             valid == done.generation = generation[c] /\ done.epoch = epoch
  <1>1. done \in FetcherRecord /\ FlightOK(done) /\ done.pc = "fetched" /\ c \in Models
    BY DEF ModelInv, TypesOK, FlightsOK, FlightOK, Finish
  <1>2. /\ fetcher' \in [Fetchers -> FetcherRecord] /\ fetcher'[f] = Idle
        /\ \A g \in Fetchers \ {f} :
             \/ fetcher'[g] = fetcher[g]
             \/ fetcher[g].pc = "asked" /\ fetcher'[g] = [fetcher[g] EXCEPT !.served = TRUE]
    <2>1. \A g \in Fetchers : fetcher[g] \in FetcherRecord
      BY DEF ModelInv, TypesOK
    <2>2. \A g \in Fetchers : [fetcher[g] EXCEPT !.served = TRUE] \in FetcherRecord
      BY <2>1 DEF FetcherRecord
    <2> QED BY <2>1, <2>2, IdleOK DEF Finish
  <1>3. \A g \in Fetchers \ {f} :
           /\ fetcher'[g].pc = fetcher[g].pc /\ fetcher'[g].id = fetcher[g].id
           /\ fetcher'[g].lock = fetcher[g].lock
           /\ fetcher'[g].generation = fetcher[g].generation /\ fetcher'[g].epoch = fetcher[g].epoch
           /\ fetcher'[g].with = fetcher[g].with
    <2> TAKE g \in Fetchers \ {f}
    <2>1. fetcher[g] \in FetcherRecord
      BY DEF ModelInv, TypesOK
    <2>2. CASE fetcher'[g] = fetcher[g]
      BY <2>2
    <2>3. CASE fetcher'[g] = [fetcher[g] EXCEPT !.served = TRUE]
      BY <2>1, <2>3 DEF FetcherRecord
    <2> QED BY <1>2, <2>2, <2>3
  <1>4. UNCHANGED <<credential, proxy, generation, epoch, lockOf, change>>
    BY DEF Finish, Unmoved
  <1>5. FlightsOK'
    <2> SUFFICES ASSUME NEW g \in Fetchers PROVE FlightOK(fetcher[g])'
      BY DEF FlightsOK
    <2>1. CASE g = f
      BY <1>2, <2>1, IdleOK DEF FlightOK
    <2>2. CASE g # f
      <3>1. FlightOK(fetcher[g])
        BY DEF ModelInv, FlightsOK
      <3> QED BY <1>3, <1>4, <2>2, <3>1 DEF FlightOK
    <2> QED BY <2>1, <2>2
  <1>6. ApartOK'
    BY <1>2, <1>3, IdleOK DEF ModelInv, ApartOK, Apart, Holding
  <1>7. PermitsOK'
    <2>1. Flying' \subseteq Flying
      BY <1>2, <1>3, IdleOK DEF Flying
    <2>2. IsFiniteSet(Flying') /\ Cardinality(Flying') <= Cardinality(Flying)
      BY <2>1, FS_Subset DEF ModelInv, PermitsOK
    <2>3. Cardinality(Flying) \in Nat /\ Cardinality(Flying') \in Nat
      BY <2>2, FS_CardinalityType DEF ModelInv, PermitsOK
    <2> QED BY <2>2, <2>3, ModelsAssumption DEF ModelInv, PermitsOK
  <1>8. /\ modelCache' \in [Models -> [credential : Nat, proxy : Nat]]
        /\ NoStaleModels'
    <2>1. CASE valid
      <3>1. modelCache' = [modelCache EXCEPT ![c] = done.with]
        BY <2>1 DEF Finish, Store
      <3>2. done.with \in [credential : Nat, proxy : Nat]
        BY <1>1 DEF FetcherRecord
      <3>3. /\ c \in change \/ done.with.credential = credential[c]
            /\ "proxy" \in change \/ done.with.proxy = proxy
        BY <1>1, <2>1 DEF FlightOK
      <3> HIDE DEF done, c, valid
      <3> QED BY <1>1, <1>4, <3>1, <3>2, <3>3 DEF ModelInv, TypesOK, NoStaleModels
    <2>2. CASE ~valid
      <3>1. modelCache' = modelCache
        BY <2>2 DEF Finish
      <3> QED BY <1>4, <3>1 DEF ModelInv, TypesOK, NoStaleModels
    <2> QED BY <2>1, <2>2
  <1>9. TypesOK'
    BY <1>2, <1>4, <1>8 DEF ModelInv, TypesOK
  <1> QED BY <1>5, <1>6, <1>7, <1>8, <1>9 DEF ModelInv

-----------------------------------------------------------------------------
(* All steps of the models' cache.                                          *)

LEMMA ModelStep ==
    ASSUME ModelInv, [ModelNext]_modelVars
    PROVE  ModelInv'
  <1>1. ASSUME NEW c \in Models, Change(c) \/ RemoveEntry(c) \/ Invalidate(c) \/ Expire(c)
        PROVE  ModelInv'
    BY <1>1, ChangeKeeps, InvalidateKeeps, QuietKeeps
  <1>2. CASE ChangeProxy \/ RaiseEpoch \/ ClearAll
    BY <1>2, ProxyKeeps
  <1>3. ASSUME NEW f \in Fetchers, NEW c \in Models, NEW force \in BOOLEAN, Ask(f, c, force)
        PROVE  ModelInv'
    BY <1>3, AskKeeps
  <1>4. ASSUME NEW f \in Fetchers,
               Lock(f) \/ ReadGeneration(f) \/ Prepare(f) \/ Fetch(f) \/ Finish(f)
        PROVE  ModelInv'
    BY <1>4, LockKeeps, ReadGenerationKeeps, PrepareKeeps, FetchKeeps, FinishKeeps
  <1>5. CASE UNCHANGED modelVars
    BY <1>5, QuietKeeps
  <1> QED BY <1>1, <1>2, <1>3, <1>4, <1>5 DEF ModelNext

LEMMA ModelInvImpliesFresh == ModelInv => ModelsFresh
  <1> SUFFICES ASSUME ModelInv PROVE ModelsFresh
    OBVIOUS
  <1>1. ASSUME NEW f \in Fetchers, NEW g \in Fetchers, f # g, fetcher[f].id = fetcher[g].id,
               fetcher[f].pc \in Holding, fetcher[g].pc \in Holding
        PROVE  credential[fetcher[f].id] = Gone
    <2>1. FlightOK(fetcher[f]) /\ FlightOK(fetcher[g]) /\ fetcher[f].lock # fetcher[g].lock
      BY <1>1 DEF ModelInv, FlightsOK, ApartOK, Apart
    <2>2. fetcher[f].pc # "idle" /\ fetcher[g].pc # "idle"
      BY <1>1 DEF Holding
    <2> QED BY <1>1, <2>1, <2>2 DEF FlightOK
  <1>2. SingleFlight
    BY <1>1 DEF SingleFlight, ModelInv, PermitsOK, Flying
  <1> QED BY <1>2 DEF ModelInv, ModelsFresh

(* What is fresh, what is announced and what is fetched are lists of models *)
(* of credentials that were there.                                          *)
ListsNamed == fresh \subseteq Models /\ change \subseteq Models \cup {"proxy", "clear"}

LEMMA ListsStart == ModelInit => ListsNamed
  BY DEF ModelInit, ListsNamed

LEMMA ListsStayNamed ==
    ModelInv /\ ListsNamed /\ [ModelNext]_modelVars => ListsNamed'
  <1> SUFFICES ASSUME ModelInv, ListsNamed, [ModelNext]_modelVars PROVE ListsNamed'
    OBVIOUS
  <1>1. CASE \/ UNCHANGED modelVars \/ ChangeProxy \/ RaiseEpoch \/ ClearAll
             \/ \E c \in Models : Change(c) \/ RemoveEntry(c) \/ Invalidate(c) \/ Expire(c)
    BY <1>1
    DEF modelVars, ListsNamed, Change, RemoveEntry, Invalidate, Expire, ChangeProxy, RaiseEpoch,
        ClearAll
  <1>2. ASSUME NEW f \in Fetchers, Finish(f) PROVE ListsNamed'
    <2>1. fetcher[f].id \in Models
      BY <1>2 DEF ModelInv, FlightsOK, FlightOK, Finish
    <2>2. fresh' \subseteq fresh \cup {fetcher[f].id} /\ UNCHANGED change
      BY <1>2 DEF Finish, Store, Unmoved
    <2> QED BY <2>1, <2>2 DEF ListsNamed
  <1>3. ASSUME NEW f \in Fetchers,
               \/ Lock(f) \/ ReadGeneration(f) \/ Prepare(f) \/ Fetch(f)
               \/ \E c \in Models, force \in BOOLEAN : Ask(f, c, force)
        PROVE  ListsNamed'
    BY <1>3 DEF ListsNamed, Lock, ReadGeneration, Prepare, Fetch, Ask, Unmoved
  <1> QED BY <1>1, <1>2, <1>3 DEF ModelNext

LEMMA ListsTyped == ModelInv /\ ListsNamed => ModelTypeOK
  <1> SUFFICES ASSUME ModelInv, ListsNamed PROVE ModelTypeOK
    OBVIOUS
  <1>1. Idle.id \in Models
    BY ModelsAssumption DEF Idle
  <1>2. \A f \in Fetchers : fetcher[f].id \in Models
    BY <1>1 DEF ModelInv, TypesOK, FetcherRecord
  <1>3. ASSUME NEW f \in Fetchers, NEW g \in Fetchers, f # g, fetcher[f].pc \in Holding,
               fetcher[g].pc \in Holding
        PROVE  <<fetcher[f].id, fetcher[f].lock>> # <<fetcher[g].id, fetcher[g].lock>>
    BY <1>3 DEF ModelInv, ApartOK, Apart
  <1> QED BY <1>2, <1>3 DEF ModelTypeOK, ModelInv, TypesOK, ListsNamed

\* Whatever is changed, deleted or redirected, in whatever order with the
\* fetches under way: no list outlives the announcement of a change, the
\* models of a credential are fetched by one request at a time, and all
\* fetches together stay within the permits of model_refresh_semaphore.
THEOREM ModelsStayFresh == ModelSpec => []ModelsFresh
  <1>1. ModelInit => ModelInv
    BY ModelStarts
  <1>2. ModelInv /\ [ModelNext]_modelVars => ModelInv'
    BY ModelStep
  <1>3. ModelInv => ModelsFresh
    BY ModelInvImpliesFresh
  <1> QED BY <1>1, <1>2, <1>3, PTL DEF ModelSpec

-----------------------------------------------------------------------------
(* The least of some numbers.                                               *)

LEMMA LeastOf ==
    ASSUME NEW T \in SUBSET Nat, T # {}
    PROVE  Min(T) \in T /\ \A y \in T : Min(T) <= y
  <1> DEFINE R == {s \in Nat \X Nat : s[1] < s[2]}
  <1>1. IsWellFoundedOn(R, Nat)
    BY NatLessThanWellFounded DEF OpToRel
  <1> HIDE DEF R
  <1>2. PICK x \in T : \A y \in T : ~ (<<y, x>> \in R)
    BY <1>1, WFMin
  <1>3. \A y \in T : x <= y
    <2> TAKE y \in T
    <2>1. <<y, x>> \in R <=> y < x
      BY DEF R
    <2> QED BY <1>2, <2>1
  <1> QED BY <1>3 DEF Min

-----------------------------------------------------------------------------
(* The clients of the proxies.                                              *)

ClientsOK(key, kept, queue) ==
    /\ key \in ProxyKeys /\ kept \subseteq ProxyKeys
    /\ queue \in Seq(ProxyKeys) /\ Len(queue) <= ClientCap
    /\ \A i, j \in DOMAIN queue : queue[i] = queue[j] => i = j
    /\ kept \ {key} = {queue[i] : i \in DOMAIN queue} /\ \A i \in DOMAIN queue : queue[i] # key

LEMMA QueueBounds ==
    ASSUME NEW q \in Seq(ProxyKeys)
    PROVE  /\ IsFiniteSet({q[i] : i \in DOMAIN q}) /\ Cardinality({q[i] : i \in DOMAIN q}) \in Nat
           /\ Cardinality({q[i] : i \in DOMAIN q}) <= Len(q)
  <1>1. DOMAIN q = 1 .. Len(q) /\ Len(q) \in Nat
    OBVIOUS
  <1>2. IsFiniteSet(1 .. Len(q)) /\ Cardinality(1 .. Len(q)) = Len(q)
    BY <1>1, FS_Interval
  <1> DEFINE T == {q[i] : i \in DOMAIN q}
             f == [i \in 1 .. Len(q) |-> q[i]]
  <1>3. f \in Surjection(1 .. Len(q), T)
    BY <1>1 DEF Surjection
  <1> HIDE DEF f, T
  <1>4. IsFiniteSet(T) /\ Cardinality(T) <= Len(q)
    BY <1>2, <1>3, FS_Surjection
  <1>5. Cardinality(T) \in Nat
    BY <1>4, FS_CardinalityType
  <1> QED BY <1>4, <1>5 DEF T

(* A key leaves the queue.                                                  *)
Without(q, p, r) ==
    /\ r \in Seq(ProxyKeys) /\ Len(r) <= Len(q)
    /\ \A i, j \in DOMAIN r : r[i] = r[j] => i = j
    /\ {r[i] : i \in DOMAIN r} = {q[i] : i \in DOMAIN q} \ {p}

LEMMA Leaves ==
    ASSUME NEW q \in Seq(ProxyKeys), \A i, j \in DOMAIN q : q[i] = q[j] => i = j, NEW p
    PROVE  Without(q, p, RemoveFirst(q, p))
  <1>0. DOMAIN q = 1 .. Len(q) /\ Len(q) \in Nat /\ \A i \in 1 .. Len(q) : q[i] \in ProxyKeys
    OBVIOUS
  <1>1. CASE \E i \in 1 .. Len(q) : q[i] = p
    <2> DEFINE I == {i \in 1 .. Len(q) : q[i] = p}
               at == Min(I)
               left == SubSeq(q, 1, at - 1)
               right == SubSeq(q, at + 1, Len(q))
               r == left \o right
    <2>1. RemoveFirst(q, p) = r
      BY <1>1 DEF RemoveFirst, RemoveAt, SelectInSeq
    <2>2. at \in 1 .. Len(q) /\ q[at] = p
      <3>1. I \in SUBSET Nat /\ I # {}
        BY <1>1
      <3>2. Min(I) \in I
        BY <3>1, LeastOf
      <3> QED BY <3>2
    <2> HIDE DEF at, I
    <2>3. left \in Seq(ProxyKeys) /\ Len(left) = at - 1 /\ \A i \in 1 .. at - 1 : left[i] = q[i]
      BY <1>0, <2>2, SubSeqProperties
    <2>4. right \in Seq(ProxyKeys) /\ Len(right) = Len(q) - at /\ \A i \in 1 .. Len(q) - at : right[i] = q[at + i]
      <3>1. at + 1 \in 1 .. Len(q) + 1 /\ Len(q) \in (at + 1) - 1 .. Len(q) /\ Len(q) - (at + 1) + 1 = Len(q) - at
        BY <1>0, <2>2
      <3>2. \A i \in 1 .. Len(q) - at : (at + 1) + i - 1 = at + i
        BY <1>0, <2>2
      <3>3. /\ right \in Seq(ProxyKeys) /\ Len(right) = Len(q) - (at + 1) + 1
            /\ \A i \in 1 .. Len(q) - (at + 1) + 1 : right[i] = q[(at + 1) + i - 1]
        BY <3>1, SubSeqProperties
      <3> HIDE DEF right
      <3> QED BY <3>1, <3>2, <3>3
    <2> HIDE DEF left, right
    <2>5. /\ r \in Seq(ProxyKeys) /\ Len(r) = Len(q) - 1 /\ DOMAIN r = 1 .. Len(q) - 1
          /\ \A i \in 1 .. Len(q) - 1 : r[i] = IF i < at THEN q[i] ELSE q[i + 1]
      <3>1. /\ r \in Seq(ProxyKeys) /\ Len(r) = Len(left) + Len(right)
            /\ \A i \in 1 .. Len(left) + Len(right) : r[i] = IF i <= Len(left) THEN left[i] ELSE right[i - Len(left)]
        BY <2>3, <2>4, ConcatProperties
      <3>2. Len(left) + Len(right) = Len(q) - 1
        BY <1>0, <2>2, <2>3, <2>4
      <3> HIDE DEF r
      <3>3. DOMAIN r = 1 .. Len(q) - 1
        BY <3>1, <3>2
      <3>4. ASSUME NEW i \in 1 .. Len(q) - 1 PROVE r[i] = IF i < at THEN q[i] ELSE q[i + 1]
        <4>1. CASE i < at
          <5>1. i \in 1 .. at - 1 /\ i <= Len(left)
            BY <1>0, <2>2, <2>3, <4>1
          <5> QED BY <2>3, <3>1, <3>2, <4>1, <5>1
        <4>2. CASE ~(i < at)
          <5>1. /\ ~(i <= Len(left)) /\ i - Len(left) \in 1 .. Len(q) - at
                /\ at + (i - Len(left)) = i + 1
            BY <1>0, <2>2, <2>3, <4>2
          <5> QED BY <2>4, <3>1, <3>2, <4>2, <5>1
        <4> QED BY <4>1, <4>2
      <3> QED BY <3>1, <3>2, <3>3, <3>4
    <2> HIDE DEF r
    <2>6. \A i, j \in DOMAIN r : r[i] = r[j] => i = j
      <3> SUFFICES ASSUME NEW i \in 1 .. Len(q) - 1, NEW j \in 1 .. Len(q) - 1, r[i] = r[j] PROVE i = j
        BY <2>5
      <3>1. PICK k \in 1 .. Len(q) : r[i] = q[k] /\ k = IF i < at THEN i ELSE i + 1
        BY <1>0, <2>2, <2>5
      <3>2. PICK l \in 1 .. Len(q) : r[j] = q[l] /\ l = IF j < at THEN j ELSE j + 1
        BY <1>0, <2>2, <2>5
      <3>3. k = l
        BY <1>0, <3>1, <3>2
      <3> QED BY <1>0, <2>2, <3>1, <3>2, <3>3
    <2>7. \A i \in DOMAIN r : r[i] \in {q[k] : k \in DOMAIN q} \ {p}
      <3> SUFFICES ASSUME NEW i \in 1 .. Len(q) - 1 PROVE r[i] \in {q[k] : k \in DOMAIN q} \ {p}
        BY <2>5
      <3>1. PICK k \in 1 .. Len(q) : r[i] = q[k] /\ k = IF i < at THEN i ELSE i + 1
        BY <1>0, <2>2, <2>5
      <3>2. k # at
        BY <2>2, <3>1
      <3> QED BY <1>0, <2>2, <3>1, <3>2
    <2>8. \A k \in DOMAIN q : q[k] # p => \E i \in DOMAIN r : r[i] = q[k]
      <3> SUFFICES ASSUME NEW k \in 1 .. Len(q), q[k] # p PROVE \E i \in 1 .. Len(q) - 1 : r[i] = q[k]
        BY <1>0, <2>5
      <3>1. CASE k < at
        <4>1. k \in 1 .. Len(q) - 1
          BY <1>0, <2>2, <3>1
        <4> QED BY <2>5, <3>1, <4>1
      <3>2. CASE k > at
        <4>1. k - 1 \in 1 .. Len(q) - 1 /\ ~(k - 1 < at) /\ (k - 1) + 1 = k
          BY <1>0, <2>2, <3>2
        <4> QED BY <2>5, <4>1
      <3> QED BY <2>2, <3>1, <3>2
    <2>9. {r[i] : i \in DOMAIN r} = {q[i] : i \in DOMAIN q} \ {p}
      BY <2>7, <2>8
    <2>10. Len(r) <= Len(q)
      BY <1>0, <2>5
    <2>11. Without(q, p, r)
      BY <2>5, <2>6, <2>9, <2>10 DEF Without
    <2> QED BY <2>1, <2>11
  <1>2. CASE ~ \E i \in 1 .. Len(q) : q[i] = p
    <2>1. RemoveFirst(q, p) = q
      BY <1>2 DEF RemoveFirst
    <2>2. Without(q, p, q)
      BY <1>0, <1>2 DEF Without
    <2> QED BY <2>1, <2>2
  <1> QED BY <1>1, <1>2

LEMMA FollowKeeps ==
    ASSUME NEW p \in ProxyKeys, ClientsOK(protected, clients, order)
    PROVE  /\ Follow(p) = [protected |-> Follow(p).protected, order |-> Follow(p).order,
                           clients |-> Follow(p).clients]
           /\ ClientsOK(Follow(p).protected, Follow(p).clients, Follow(p).order)
           /\ Follow(p).protected = p
  <1>1. CASE p = protected
    BY <1>1 DEF Follow
  <1>2. CASE p # protected
    <2> DEFINE r == RemoveFirst(order, p)
    <2>1. Follow(p) = [protected |-> p, order |-> r, clients |-> clients \ {protected}]
      BY <1>2 DEF Follow
    <2>2. Without(order, p, r)
      BY Leaves DEF ClientsOK
    <2> HIDE DEF r
    <2>3. (clients \ {protected}) \ {p} = {r[i] : i \in DOMAIN r} /\ p \notin {r[i] : i \in DOMAIN r}
      BY <2>2 DEF Without, ClientsOK
    <2>4. Len(r) <= ClientCap
      BY <2>2, ClientAssumption DEF Without, ClientsOK
    <2>5. ClientsOK(p, clients \ {protected}, r)
      BY <2>2, <2>3, <2>4 DEF Without, ClientsOK
    <2> QED BY <2>1, <2>5
  <1> QED BY <1>1, <1>2

LEMMA NewestKept ==
    ASSUME NEW key \in ProxyKeys, NEW kept, NEW queue, NEW guarded, ClientsOK(guarded, kept, queue),
           key # guarded, key \notin kept, NEW out \in {0, 1}, out <= Len(queue),
           Len(queue) - out < ClientCap
    PROVE  ClientsOK(guarded, (kept \ {queue[i] : i \in 1..out}) \cup {key},
                     Append(SubSeq(queue, out + 1, Len(queue)), key))
  <1> DEFINE s == SubSeq(queue, out + 1, Len(queue))
             n == Len(queue) - out
             q == Append(s, key)
             after == (kept \ {queue[i] : i \in 1..out}) \cup {key}
  <1>0. /\ queue \in Seq(ProxyKeys) /\ Len(queue) \in Nat /\ DOMAIN queue = 1 .. Len(queue)
        /\ n \in Nat /\ ClientCap \in Nat
    BY ClientAssumption DEF ClientsOK
  <1>1. s \in Seq(ProxyKeys) /\ Len(s) = n /\ \A i \in 1 .. n : s[i] = queue[out + i]
    <2>1. out + 1 \in 1 .. Len(queue) + 1 /\ Len(queue) \in (out + 1) - 1 .. Len(queue)
      BY <1>0
    <2>2. Len(queue) - (out + 1) + 1 = n /\ \A i \in 1 .. n : (out + 1) + i - 1 = out + i
      BY <1>0
    <2>3. /\ s \in Seq(ProxyKeys) /\ Len(s) = Len(queue) - (out + 1) + 1
          /\ \A i \in 1 .. Len(queue) - (out + 1) + 1 : s[i] = queue[(out + 1) + i - 1]
      <3> DEFINE from == out + 1
                 upto == Len(queue)
      <3>1. from \in 1 .. Len(queue) + 1 /\ upto \in from - 1 .. Len(queue)
        BY <2>1
      <3> HIDE DEF from, upto
      <3>2. from \in Int /\ upto \in Int /\ \A i \in from .. upto : queue[i] \in ProxyKeys
        BY <1>0, <3>1
      <3>3. /\ SubSeq(queue, from, upto) \in Seq(ProxyKeys)
            /\ Len(SubSeq(queue, from, upto)) = upto - from + 1
            /\ \A i \in 1 .. upto - from + 1 : SubSeq(queue, from, upto)[i] = queue[from + i - 1]
        BY <1>0, <3>1, <3>2, SubSeqProperties
      <3> QED BY <3>3 DEF from, upto
    <2> HIDE DEF s
    <2> QED BY <2>2, <2>3
  <1> HIDE DEF s
  <1>2. /\ q \in Seq(ProxyKeys) /\ Len(q) = n + 1 /\ DOMAIN q = 1 .. n + 1
        /\ \A i \in 1 .. n + 1 : q[i] = IF i = n + 1 THEN key ELSE queue[out + i]
    <2>1. /\ q \in Seq(ProxyKeys) /\ Len(q) = Len(s) + 1
          /\ \A i \in 1 .. Len(s) : q[i] = s[i]
          /\ q[Len(s) + 1] = key
      BY <1>1, AppendProperties
    <2> QED BY <1>0, <1>1, <2>1
  <1> HIDE DEF q
  <1>3. \A i \in 1 .. Len(queue) : queue[i] \in kept /\ queue[i] # key /\ queue[i] # guarded
    BY <1>0 DEF ClientsOK
  <1>4. \A i, j \in 1 .. Len(queue) : queue[i] = queue[j] => i = j
    BY <1>0 DEF ClientsOK
  <1>5. \A i \in 1 .. n : out + i \in 1 .. Len(queue)
    BY <1>0
  <1>6. \A i, j \in DOMAIN q : q[i] = q[j] => i = j
    <2> SUFFICES ASSUME NEW i \in 1 .. n + 1, NEW j \in 1 .. n + 1, q[i] = q[j] PROVE i = j
      BY <1>2
    <2>0. \A k \in 1 .. n + 1 : k # n + 1 => q[k] # key
      <3> TAKE k \in 1 .. n + 1
      <3> HAVE k # n + 1
      <3>1. k \in 1 .. n /\ out + k \in 1 .. Len(queue)
        BY <1>0, <1>5
      <3> QED BY <1>2, <1>3, <3>1
    <2>1. CASE i = n + 1
      BY <1>2, <2>0, <2>1
    <2>2. CASE j = n + 1
      BY <1>2, <2>0, <2>2
    <2>3. CASE i # n + 1 /\ j # n + 1
      <3>1. i \in 1 .. n /\ j \in 1 .. n
        BY <1>0, <2>3
      <3>2. out + i = out + j
        BY <1>2, <1>4, <1>5, <2>3, <3>1
      <3> QED BY <1>0, <3>1, <3>2
    <2> QED BY <2>1, <2>2, <2>3
  <1>7. \A i \in DOMAIN q : q[i] \in after \ {guarded}
    <2> SUFFICES ASSUME NEW i \in 1 .. n + 1 PROVE q[i] \in after \ {guarded}
      BY <1>2
    <2>1. CASE i = n + 1
      BY <1>2, <2>1
    <2>2. CASE i # n + 1
      <3>1. i \in 1 .. n /\ out + i \in 1 .. Len(queue) /\ ~(out + i \in 1 .. out)
        BY <1>0, <1>5, <2>2
      <3>2. q[i] = queue[out + i]
        BY <1>2, <2>2
      <3>3. \A j \in 1 .. out : queue[out + i] # queue[j]
        <4> TAKE j \in 1 .. out
        <4>1. j \in 1 .. Len(queue) /\ out + i # j
          BY <1>0, <3>1
        <4> QED BY <1>4, <3>1, <4>1
      <3> QED BY <1>3, <3>1, <3>2, <3>3
    <2> QED BY <2>1, <2>2
  <1>8. \A k \in after \ {guarded} : \E i \in DOMAIN q : q[i] = k
    <2> SUFFICES ASSUME NEW k \in after, k # guarded PROVE \E i \in 1 .. n + 1 : q[i] = k
      BY <1>2
    <2>1. CASE k = key
      <3>1. n + 1 \in 1 .. n + 1
        BY <1>0
      <3> QED BY <1>2, <2>1, <3>1
    <2>2. CASE k # key
      <3>1. k \in kept /\ \A j \in 1 .. out : queue[j] # k
        BY <2>2
      <3>2. PICK j \in 1 .. Len(queue) : queue[j] = k
        BY <1>0, <3>1 DEF ClientsOK
      <3>3. ~(j \in 1 .. out)
        BY <3>1, <3>2
      <3>4. j - out \in 1 .. n + 1 /\ j - out # n + 1 /\ out + (j - out) = j
        BY <1>0, <3>3
      <3> QED BY <1>2, <3>2, <3>4
    <2> QED BY <2>1, <2>2
  <1>9. after \ {guarded} = {q[i] : i \in DOMAIN q} /\ \A i \in DOMAIN q : q[i] # guarded
    <2> DEFINE rest == after \ {guarded}
    <2>1. (\A i \in DOMAIN q : q[i] \in rest) /\ (\A k \in rest : \E i \in DOMAIN q : q[i] = k)
      BY <1>7, <1>8
    <2>2. \A i \in DOMAIN q : q[i] # guarded
      BY <1>7
    <2> HIDE DEF rest
    <2>3. rest = {q[i] : i \in DOMAIN q}
      BY <2>1
    <2> QED BY <2>2, <2>3 DEF rest
  <1>10. guarded \in ProxyKeys /\ after \subseteq ProxyKeys /\ Len(q) <= ClientCap
    BY <1>0, <1>2 DEF ClientsOK
  <1>11. ClientsOK(guarded, after, q)
    BY <1>2, <1>6, <1>9, <1>10 DEF ClientsOK
  <1> QED BY <1>11 DEF q, s

LEMMA InsertKeeps ==
    ASSUME NEW key \in ProxyKeys, NEW guarded, NEW queue, NEW kept, ClientsOK(guarded, kept, queue),
           NEW c, c = [protected |-> guarded, order |-> queue, clients |-> kept]
    PROVE  ClientsOK(Insert(c, key).protected, Insert(c, key).clients, Insert(c, key).order)
  <1>1. CASE key = guarded \/ key \in kept
    <2>1. Insert(c, key) = [protected |-> guarded, order |-> queue, clients |-> kept \cup {key}]
      BY <1>1 DEF Insert
    <2>2. (kept \cup {key}) \ {guarded} = kept \ {guarded}
      <3>1. key \in {guarded} \cup kept
        BY <1>1
      <3> QED BY <3>1
    <2> QED BY <2>1, <2>2 DEF ClientsOK
  <1>2. CASE key # guarded /\ key \notin kept
    <2> DEFINE out == IF Len(queue) >= ClientCap THEN Len(queue) - ClientCap + 1 ELSE 0
               q == Append(SubSeq(queue, out + 1, Len(queue)), key)
               after == (kept \ {queue[i] : i \in 1..out}) \cup {key}
    <2>0. Insert(c, key) = [c EXCEPT !.order = Append(SubSeq(@, out + 1, Len(@)), key),
                                     !.clients = (@ \ {queue[i] : i \in 1..out}) \cup {key}]
      BY <1>2 DEF Insert
    <2> HIDE DEF out
    <2>1. Insert(c, key) = [protected |-> guarded, order |-> q, clients |-> after]
      BY <2>0
    <2>2. out \in {0, 1} /\ out <= Len(queue) /\ Len(queue) - out < ClientCap
      <3>1. Len(queue) \in Nat /\ Len(queue) <= ClientCap /\ ClientCap \in Nat \ {0}
        BY ClientAssumption DEF ClientsOK
      <3> QED BY <3>1 DEF out
    <2>4. ClientsOK(guarded, after, q)
      BY <1>2, <2>2, NewestKept
    <2> HIDE DEF q, after
    <2> QED BY <2>1, <2>4
  <1> QED BY <1>1, <1>2

ClientInv == globalProxy \in ProxyKeys /\ ClientsOK(protected, clients, order)

LEMMA ClientStarts == ClientInit => ClientInv
  BY ClientAssumption DEF ClientInit, ClientInv, ClientsOK, ProxyKeys

LEMMA ClientStep == ClientInv /\ [ClientNext]_clientVars => ClientInv'
  <1> SUFFICES ASSUME ClientInv, [ClientNext]_clientVars PROVE ClientInv'
    OBVIOUS
  <1>1. CASE UNCHANGED clientVars
    BY <1>1 DEF clientVars, ClientInv
  <1>2. ASSUME NEW p \in ProxyKeys, SetGlobalProxy(p) PROVE ClientInv'
    BY <1>2 DEF SetGlobalProxy, ClientInv
  <1>3. ASSUME NEW own \in ProxyKeys \cup {"global"}, ClientFor(own) PROVE ClientInv'
    <2> DEFINE c == Follow(globalProxy)
               key == IF own = "global" THEN globalProxy ELSE own
    <2>1. globalProxy \in ProxyKeys /\ key \in ProxyKeys
      BY <1>3 DEF ClientInv
    <2>2. PICK after \in {c, IF key \in c.clients THEN c ELSE Insert(c, key)} :
            /\ clients' = after.clients /\ order' = after.order /\ protected' = after.protected
            /\ UNCHANGED globalProxy
      BY <1>3 DEF ClientFor
    <2>3. /\ ClientsOK(c.protected, c.clients, c.order)
          /\ c = [protected |-> c.protected, order |-> c.order, clients |-> c.clients]
      BY <2>1, FollowKeeps DEF ClientInv
    <2> HIDE DEF c, key
    <2>4. LET i == Insert(c, key) IN ClientsOK(i.protected, i.clients, i.order)
      BY <2>1, <2>3, InsertKeeps
    <2>5. ClientsOK(after.protected, after.clients, after.order)
      BY <2>2, <2>3, <2>4
    <2> QED BY <2>1, <2>2, <2>5 DEF ClientInv
  <1> QED BY <1>1, <1>2, <1>3 DEF ClientNext

LEMMA ClientsAre == ClientInv => ClientsAccounted
  <1> SUFFICES ASSUME ClientInv PROVE ClientsAccounted
    OBVIOUS
  <1> DEFINE T == {order[i] : i \in DOMAIN order}
  <1>1. T = ToSet(order) /\ IsInjective(order)
    BY DEF ToSet, IsInjective, ClientInv, ClientsOK
  <1>2. IsFiniteSet(T) /\ Cardinality(T) \in Nat /\ Cardinality(T) <= ClientCap
    <2>1. IsFiniteSet(T) /\ Cardinality(T) \in Nat /\ Cardinality(T) <= Len(order) /\ Len(order) \in Nat
      BY QueueBounds DEF ClientInv, ClientsOK
    <2> QED BY <2>1, ClientAssumption DEF ClientInv, ClientsOK
  <1>3. clients \ {protected} = T /\ protected \notin T /\ clients \subseteq T \cup {protected}
    BY DEF ClientInv, ClientsOK
  <1> HIDE DEF T
  <1>4. IsFiniteSet(T \cup {protected}) /\ Cardinality(T \cup {protected}) = Cardinality(T) + 1
    BY <1>2, <1>3, FS_AddElement
  <1>5. Cardinality(clients) <= Cardinality(T \cup {protected}) /\ IsFiniteSet(clients)
    BY <1>3, <1>4, FS_Subset
  <1>6. Cardinality(clients) <= ClientCap + 1
    BY <1>2, <1>4, <1>5, FS_CardinalityType, ClientAssumption
  <1> QED BY <1>1, <1>3, <1>6 DEF ClientsAccounted, ClientInv, ClientsOK

-----------------------------------------------------------------------------
(* The bindings of conversations.                                           *)

BindOK(b) ==
    binder[b].pc = "bind" =>
        /\ binder[b].session \in Sessions /\ binder[b].server \in Servers
        /\ binder[b].now \in Nat /\ binder[b].until \in Nat /\ binder[b].now <= tick

AffinityInv ==
    /\ AffinityTypeOK /\ DOMAIN binder = Binders /\ \A b \in Binders : BindOK(b)
    /\ bindings = [s \in DOMAIN bindings |-> bindings[s]]

LEMMA AffinityStarts == AffinityInit => AffinityInv
  <1> SUFFICES ASSUME AffinityInit PROVE AffinityInv
    OBVIOUS
  <1>1. DOMAIN bindings = {} /\ bindings = [s \in DOMAIN bindings |-> bindings[s]]
    BY DEF AffinityInit
  <1>2. lifetime \in Lifetimes
    BY AffinityAssumption DEF AffinityInit
  <1>3. \A b \in Binders : binder[b].pc # "bind"
    BY DEF AffinityInit, NoBind
  <1>4. Cardinality(DOMAIN bindings) <= SessionCap
    BY <1>1, FS_EmptySet, AffinityAssumption
  <1>5. AffinityTypeOK
    BY <1>1, <1>2, <1>3, <1>4 DEF AffinityTypeOK, AffinityInit
  <1> QED BY <1>1, <1>3, <1>5 DEF AffinityInv, BindOK, AffinityInit

LEMMA FewBindings ==
    ASSUME AffinityInv
    PROVE  /\ IsFiniteSet(DOMAIN bindings) /\ Cardinality(DOMAIN bindings) \in Nat
           /\ \A t \in SUBSET DOMAIN bindings :
                 /\ IsFiniteSet(t) /\ Cardinality(t) \in Nat
                 /\ Cardinality(t) <= Cardinality(DOMAIN bindings)
                 /\ Cardinality(t) = Cardinality(DOMAIN bindings) => t = DOMAIN bindings
  <1>1. IsFiniteSet(DOMAIN bindings)
    BY FS_Subset, AffinityAssumption DEF AffinityInv, AffinityTypeOK
  <1> QED BY <1>1, FS_Subset, FS_CardinalityType

(* Room is made: what is kept is kept as it was, and one more fits.         *)
LEMMA RoomMade ==
    ASSUME AffinityInv, NEW b \in Binders, binder[b].pc = "bind", NEW t \in MakeRoom(binder[b].now)
    PROVE  /\ DOMAIN t \subseteq DOMAIN bindings /\ \A s \in DOMAIN t : t[s] = bindings[s]
           /\ Cardinality(DOMAIN t) < SessionCap
           /\ \A s \in Live(bindings, tick) \ DOMAIN t :
                /\ Full(bindings)
                /\ \A r \in DOMAIN bindings : bindings[s].until <= bindings[r].until
                /\ DOMAIN bindings = Live(bindings, binder[b].now)
  <1> DEFINE now == binder[b].now
             alive == IF Full(bindings) THEN Keep(bindings, Live(bindings, now)) ELSE bindings
  <1>1. /\ DOMAIN alive \subseteq DOMAIN bindings /\ \A s \in DOMAIN alive : alive[s] = bindings[s]
        /\ Full(bindings) => DOMAIN alive = Live(bindings, now)
        /\ ~Full(bindings) => alive = bindings
    BY DEF Keep, Live
  <1>2. /\ IsFiniteSet(DOMAIN alive) /\ Cardinality(DOMAIN alive) \in Nat
        /\ Cardinality(DOMAIN alive) <= Cardinality(DOMAIN bindings)
        /\ Cardinality(DOMAIN alive) = Cardinality(DOMAIN bindings) => DOMAIN alive = DOMAIN bindings
    BY <1>1, FewBindings
  <1>3. Cardinality(DOMAIN bindings) \in Nat /\ Cardinality(DOMAIN bindings) <= SessionCap
    BY FewBindings DEF AffinityInv, AffinityTypeOK
  <1>4. Live(bindings, tick) \subseteq DOMAIN alive
    <2>1. now <= tick /\ now \in Nat /\ tick \in Nat
      BY DEF AffinityInv, BindOK, AffinityTypeOK
    <2>2. \A s \in DOMAIN bindings : bindings[s].until \in Nat
      BY DEF AffinityInv, AffinityTypeOK
    <2>3. Live(bindings, tick) \subseteq Live(bindings, now)
      BY <2>1, <2>2 DEF Live
    <2> QED BY <1>1, <2>3 DEF Live
  <1>5. CASE ~Full(alive)
    <2>1. t = alive
      BY <1>5 DEF MakeRoom
    <2> QED BY <1>1, <1>2, <1>4, <1>5, <2>1, AffinityAssumption DEF Full
  <1>6. CASE Full(alive)
    <2>1. PICK s \in DOMAIN alive : /\ \A r \in DOMAIN alive : alive[s].until <= alive[r].until
                                    /\ t = Keep(alive, DOMAIN alive \ {s})
      BY <1>6 DEF MakeRoom
    <2>2. DOMAIN t = DOMAIN alive \ {s} /\ \A r \in DOMAIN t : t[r] = alive[r]
      BY <2>1 DEF Keep
    <2>3. Cardinality(DOMAIN alive) = Cardinality(DOMAIN bindings)
      BY <1>2, <1>3, <1>6, AffinityAssumption DEF Full
    <2>4. DOMAIN alive = DOMAIN bindings /\ Full(bindings)
      BY <1>2, <1>6, <2>3 DEF Full
    <2>5. Cardinality(DOMAIN t) = Cardinality(DOMAIN alive) - 1
      BY <1>2, <2>2, FS_RemoveElement
    <2>6. Cardinality(DOMAIN t) < SessionCap
      BY <1>2, <1>3, <2>3, <2>5, AffinityAssumption
    <2> HIDE DEF alive
    <2>7. \A r \in Live(bindings, tick) \ DOMAIN t : r = s
      BY <1>4, <2>2
    <2> QED BY <1>1, <2>1, <2>2, <2>4, <2>6, <2>7
  <1> QED BY <1>5, <1>6

LEMMA PutAdds ==
    ASSUME NEW t, NEW b
    PROVE  /\ DOMAIN Put(t, b) = DOMAIN t \cup {binder[b].session}
           /\ Put(t, b)[binder[b].session] = [server |-> binder[b].server, until |-> binder[b].until]
           /\ \A s \in DOMAIN t \ {binder[b].session} : Put(t, b)[s] = t[s]
           /\ Put(t, b) = [s \in DOMAIN Put(t, b) |-> Put(t, b)[s]]
  BY DEF Put

(* What a binding replaces, and that the table stays within its capacity.   *)
Bound(b, t) ==
    /\ binder[b].pc = "bind" /\ bindings' = Put(t, b)
    /\ \/ binder[b].session \in DOMAIN bindings /\ t = bindings
       \/ t \in MakeRoom(binder[b].now)

LEMMA BoundFits ==
    ASSUME AffinityInv, NEW b \in Binders, NEW t, Bound(b, t)
    PROVE  /\ DOMAIN t \subseteq DOMAIN bindings /\ \A s \in DOMAIN t : t[s] = bindings[s]
           /\ Cardinality(DOMAIN bindings') <= SessionCap
  <1> DEFINE here == binder[b].session
  <1>0. DOMAIN bindings' = DOMAIN t \cup {here}
    <2>1. bindings' = Put(t, b)
      BY DEF Bound
    <2> QED BY <2>1, PutAdds
  <1>1. CASE here \in DOMAIN bindings /\ t = bindings
    <2>1. DOMAIN bindings' = DOMAIN bindings
      BY <1>0, <1>1
    <2> QED BY <1>1, <2>1 DEF AffinityInv, AffinityTypeOK
  <1>2. CASE t \in MakeRoom(binder[b].now)
    <2>1. /\ DOMAIN t \subseteq DOMAIN bindings /\ \A s \in DOMAIN t : t[s] = bindings[s]
          /\ Cardinality(DOMAIN t) < SessionCap
      BY <1>2, RoomMade DEF Bound
    <2>2. IsFiniteSet(DOMAIN t) /\ Cardinality(DOMAIN t) \in Nat
      BY <2>1, FewBindings
    <2>3. Cardinality(DOMAIN t \cup {here}) \in {Cardinality(DOMAIN t), Cardinality(DOMAIN t) + 1}
      BY <2>2, FS_AddElement
    <2>4. Cardinality(DOMAIN bindings') <= SessionCap
      BY <1>0, <2>1, <2>2, <2>3, AffinityAssumption
    <2> QED BY <2>1, <2>4
  <1> QED BY <1>1, <1>2 DEF Bound

LEMMA BindKeeps ==
    ASSUME AffinityInv, NEW b \in Binders, Bind(b)
    PROVE  AffinityInv'
  <1>1. PICK t : Bound(b, t)
    BY DEF Bind, Bound
  <1>2. /\ DOMAIN t \subseteq DOMAIN bindings /\ \A s \in DOMAIN t : t[s] = bindings[s]
        /\ Cardinality(DOMAIN bindings') <= SessionCap
    BY <1>1, BoundFits
  <1> DEFINE here == binder[b].session
  <1>3. /\ here \in Sessions /\ binder[b].server \in Servers /\ binder[b].until \in Nat
    BY <1>1 DEF AffinityInv, BindOK, Bound
  <1>4. /\ DOMAIN bindings' = DOMAIN t \cup {here}
        /\ bindings'[here] = [server |-> binder[b].server, until |-> binder[b].until]
        /\ \A s \in DOMAIN t \ {here} : bindings'[s] = t[s]
        /\ bindings' = [s \in DOMAIN bindings' |-> bindings'[s]]
    <2>1. bindings' = Put(t, b)
      BY <1>1 DEF Bound
    <2> DEFINE p == Put(t, b)
    <2>2. /\ DOMAIN p = DOMAIN t \cup {here}
          /\ p[here] = [server |-> binder[b].server, until |-> binder[b].until]
          /\ \A s \in DOMAIN t \ {here} : p[s] = t[s]
          /\ p = [s \in DOMAIN p |-> p[s]]
      BY PutAdds
    <2> HIDE DEF p
    <2>3. bindings' = p
      BY <2>1 DEF p
    <2> QED BY <2>2, <2>3
  <1>5. \A s \in DOMAIN bindings' :
           s \in Sessions /\ bindings'[s].server \in Servers /\ bindings'[s].until \in Nat
    BY <1>2, <1>3, <1>4 DEF AffinityInv, AffinityTypeOK
  <1>6. DOMAIN binder' = Binders /\ \A c \in Binders : binder'[c] \in {NoBind, binder[c]}
    BY DEF Bind, AffinityInv
  <1>7. \A c \in Binders : BindOK(c)'
    <2>1. NoBind.pc # "bind"
      BY DEF NoBind
    <2>2. tick' = tick /\ \A c \in Binders : BindOK(c)
      BY DEF Bind, AffinityInv
    <2> QED BY <1>6, <2>1, <2>2 DEF BindOK
  <1>8. UNCHANGED <<tick, lifetime, sticky>>
    BY DEF Bind
  <1>9. AffinityTypeOK'
    BY <1>2, <1>5, <1>7, <1>8 DEF AffinityInv, AffinityTypeOK, BindOK
  <1> QED BY <1>4, <1>6, <1>7, <1>9 DEF AffinityInv

LEMMA ForgetKept ==
    ASSUME AffinityInv, Forget
    PROVE  /\ DOMAIN bindings' \subseteq DOMAIN bindings /\ Live(bindings, tick) \subseteq DOMAIN bindings'
           /\ \A s \in DOMAIN bindings' : bindings'[s] = bindings[s]
           /\ bindings' = [s \in DOMAIN bindings' |-> bindings'[s]]
  BY DEF Forget, Keep, Live

LEMMA AffinityStep == AffinityInv /\ [AffinityNext]_affinityVars => AffinityInv'
  <1> SUFFICES ASSUME AffinityInv, [AffinityNext]_affinityVars PROVE AffinityInv'
    OBVIOUS
  <1>1. AffinityTypeOK /\ DOMAIN binder = Binders /\ \A b \in Binders : BindOK(b)
    BY DEF AffinityInv
  <1>2. CASE Tick \/ SetAffinity \/ UNCHANGED affinityVars
    <2>1. /\ UNCHANGED <<bindings, binder>> /\ tick' \in Nat /\ tick' >= tick
          /\ lifetime' \in Lifetimes /\ sticky' \in BOOLEAN
      BY <1>1, <1>2 DEF Tick, SetAffinity, affinityVars, AffinityTypeOK
    <2>2. tick \in Nat
      BY <1>1 DEF AffinityTypeOK
    <2>3. \A b \in Binders : BindOK(b)'
      BY <1>1, <2>1, <2>2 DEF BindOK
    <2>4. AffinityTypeOK'
      BY <1>1, <2>1 DEF AffinityTypeOK
    <2> QED BY <2>1, <2>3, <2>4 DEF AffinityInv
  <1>3. CASE Forget
    <2>1. UNCHANGED <<tick, lifetime, sticky, binder>>
      BY <1>3 DEF Forget
    <2>2. /\ DOMAIN bindings' \subseteq DOMAIN bindings
          /\ \A s \in DOMAIN bindings' : bindings'[s] = bindings[s]
          /\ bindings' = [s \in DOMAIN bindings' |-> bindings'[s]]
      BY <1>3, ForgetKept
    <2>3. Cardinality(DOMAIN bindings') <= SessionCap
      BY <1>1, <2>2, FewBindings, AffinityAssumption DEF AffinityTypeOK
    <2>4. AffinityTypeOK'
      BY <1>1, <2>1, <2>2, <2>3 DEF AffinityTypeOK
    <2>5. \A b \in Binders : BindOK(b)'
      BY <1>1, <2>1 DEF BindOK
    <2> QED BY <2>1, <2>2, <2>4, <2>5 DEF AffinityInv
  <1>4. ASSUME NEW b \in Binders, NEW s \in Sessions, NEW c \in Servers, StartBind(b, s, c)
        PROVE  AffinityInv'
    <2>1. UNCHANGED <<bindings, tick, lifetime, sticky>>
      BY <1>4 DEF StartBind
    <2>2. tick \in Nat /\ lifetime \in Nat /\ tick + lifetime \in Nat
      BY <1>1, AffinityAssumption DEF AffinityTypeOK
    <2>3. /\ DOMAIN binder' = Binders
          /\ \A d \in Binders : binder'[d] = IF d = b
                THEN [pc |-> "bind", session |-> s, server |-> c, now |-> tick, until |-> tick + lifetime]
                ELSE binder[d]
      BY <1>1, <1>4 DEF StartBind
    <2>4. \A d \in Binders : BindOK(d)'
      BY <1>1, <2>1, <2>2, <2>3 DEF BindOK
    <2>5. AffinityTypeOK'
      BY <1>1, <2>1, <2>4 DEF AffinityTypeOK, BindOK
    <2> QED BY <2>1, <2>3, <2>4, <2>5 DEF AffinityInv
  <1>5. ASSUME NEW b \in Binders, Bind(b) PROVE AffinityInv'
    BY <1>5, BindKeeps
  <1> QED BY <1>2, <1>3, <1>4, <1>5 DEF AffinityNext

LEMMA AffinityFair ==
    ASSUME AffinityInv, AffinityNext, NEW s \in Live(bindings, tick) \ DOMAIN bindings'
    PROVE  /\ Full(bindings)
           /\ \A r \in DOMAIN bindings : bindings[s].until <= bindings[r].until
           /\ \E b \in Binders : binder[b].pc = "bind" /\ DOMAIN bindings = Live(bindings, binder[b].now)
  <1>1. s \in DOMAIN bindings
    BY DEF Live
  <1>2. ~Forget
    BY ForgetKept
  <1>3. bindings' # bindings
    BY <1>1
  <1>4. PICK b \in Binders : Bind(b)
    BY <1>2, <1>3 DEF AffinityNext, Tick, SetAffinity, StartBind
  <1>5. PICK t : Bound(b, t)
    BY <1>4 DEF Bind, Bound
  <1>6. DOMAIN bindings' = DOMAIN t \cup {binder[b].session}
    BY <1>5, PutAdds DEF Bound
  <1>7. s \notin DOMAIN t
    BY <1>6
  <1>8. t \in MakeRoom(binder[b].now) /\ binder[b].pc = "bind"
    BY <1>1, <1>5, <1>7 DEF Bound
  <1> QED BY <1>7, <1>8, RoomMade

(* Of conversations, however many, renewed, expired and forgotten in any    *)
(* order, by clocks read before the lock: the table never exceeds its       *)
(* capacity, and who is evicted alive expires first of a table in which     *)
(* nothing had expired (SessionAffinityCache::bind).                        *)
THEOREM BindingsEvictedFairly == AffinitySpec => []AffinityTypeOK /\ EvictsFairly
  <1>1. AffinityInv /\ [AffinityNext]_affinityVars =>
          [\A s \in Live(bindings, tick) \ DOMAIN bindings' :
              /\ Full(bindings)
              /\ \A r \in DOMAIN bindings : bindings[s].until <= bindings[r].until
              /\ \E b \in Binders : binder[b].pc = "bind" /\ DOMAIN bindings = Live(bindings, binder[b].now)
          ]_affinityVars
    BY AffinityFair
  <1>2. AffinityInv => AffinityTypeOK
    BY DEF AffinityInv
  <1> QED BY <1>1, <1>2, AffinityStarts, AffinityStep, PTL DEF AffinitySpec, EvictsFairly

-----------------------------------------------------------------------------
(* The prefixes of the prompt cache.                                        *)

Within(table) ==
    IsFiniteSet(DOMAIN table) /\ Cardinality(DOMAIN table) \in Nat
        /\ Cardinality(DOMAIN table) <= HardLimit
CacheFits == Within(entries) /\ Within(disk) /\ \A table \in flushing : Within(table)

LEMMA PartWithin ==
    ASSUME NEW table, Within(table), NEW kept \in SUBSET DOMAIN table
    PROVE  Within(KeepOf(table, kept))
  <1>1. DOMAIN KeepOf(table, kept) = kept
    BY DEF KeepOf
  <1>2. IsFiniteSet(kept) /\ Cardinality(kept) \in Nat /\ Cardinality(kept) <= Cardinality(DOMAIN table)
    BY FS_Subset, FS_CardinalityType DEF Within
  <1> QED BY <1>1, <1>2, CacheAssumption DEF Within

(* A tombstone is of what is buried or was there.                           *)
LEMMA BuriedAre ==
    ASSUME NEW marks, NEW gone, NEW why, NEW after \in Buried(marks, gone, why)
    PROVE  \A h \in DOMAIN after :
              \/ h \in gone /\ after[h] = why
              \/ h \in DOMAIN marks /\ after[h] = marks[h]
  <1> DEFINE all == Cardinality(DOMAIN marks) + Cardinality(gone)
             lasting == IF all <= TombCapacity THEN {gone} ELSE kSubset(1 + ((all - 1) % TombCapacity), gone)
             before == IF all <= TombCapacity THEN DOMAIN marks ELSE {}
  <1>1. before \subseteq DOMAIN marks /\ \A last \in lasting : last \subseteq gone
    BY DEF kSubset
  <1>2. PICK last \in lasting :
          after = [h \in last \cup before |-> IF h \in last THEN why ELSE marks[h]]
    BY DEF Buried
  <1> HIDE DEF lasting, before
  <1> QED BY <1>1, <1>2

(* What a sweep or a write makes of a table: entries stay as they are, and  *)
(* what is newly marked as evicted was alive and no younger.                *)
Thinned(table, marks, x) ==
    /\ DOMAIN x.entries \subseteq DOMAIN table
    /\ \A h \in DOMAIN x.entries : x.entries[h] = table[h]
    /\ \A h \in DOMAIN x.tombs :
          \/ h \in DOMAIN marks /\ x.tombs[h] = marks[h]
          \/ h \in DOMAIN table /\ x.tombs[h] = "expired"
          \/ /\ h \in DOMAIN table /\ Alive(table[h])
             /\ \A g \in DOMAIN x.entries : LastHit(table[h]) <= LastHit(table[g])

LEMMA ExpireThins ==
    ASSUME NEW table, NEW marks, NEW x \in ExpireRecords(table, marks)
    PROVE  /\ Thinned(table, marks, x)
           /\ DOMAIN x.entries = AliveIn(table)
           /\ x.entries = KeepOf(table, AliveIn(table))
           /\ \A h \in DOMAIN x.tombs :
                 \/ h \in DOMAIN marks /\ x.tombs[h] = marks[h]
                 \/ h \in DOMAIN table /\ x.tombs[h] = "expired"
  <1>1. PICK after \in Buried(marks, DOMAIN table \ AliveIn(table), "expired") :
          x = Result(KeepOf(table, AliveIn(table)), after)
    BY DEF ExpireRecords
  <1>2. x.entries = KeepOf(table, AliveIn(table)) /\ x.tombs = after
    BY <1>1 DEF Result
  <1>3. \A h \in DOMAIN after :
           \/ h \in DOMAIN table \ AliveIn(table) /\ after[h] = "expired"
           \/ h \in DOMAIN marks /\ after[h] = marks[h]
    BY <1>1, BuriedAre
  <1>4. AliveIn(table) \subseteq DOMAIN table
    BY DEF AliveIn
  <1> QED BY <1>2, <1>3, <1>4 DEF Thinned, KeepOf

LEMMA ShrinkThins ==
    ASSUME NEW table, NEW marks, NEW x \in Shrink(table, marks)
    PROVE  /\ DOMAIN x.entries \subseteq DOMAIN table
           /\ \A h \in DOMAIN x.entries : x.entries[h] = table[h]
           /\ \A h \in DOMAIN x.tombs :
                 \/ h \in DOMAIN marks /\ x.tombs[h] = marks[h]
                 \/ /\ h \in DOMAIN table
                    /\ \A g \in DOMAIN x.entries : LastHit(table[h]) <= LastHit(table[g])
           /\ IsFiniteSet(DOMAIN table) => Within(x.entries)
  <1>1. CASE Cardinality(DOMAIN table) <= Watermark
    <2>1. x = Result(table, marks)
      BY <1>1 DEF Shrink
    <2>2. IsFiniteSet(DOMAIN table) => Within(table)
      BY <1>1, FS_CardinalityType, CacheAssumption DEF Within
    <2> QED BY <2>1, <2>2 DEF Result
  <1>2. CASE ~(Cardinality(DOMAIN table) <= Watermark)
    <2>1. PICK kept \in Recent(table, Watermark) :
             \E after \in Buried(marks, DOMAIN table \ kept, "evicted") : x = Result(KeepOf(table, kept), after)
      BY <1>2 DEF Shrink
    <2>2. PICK after \in Buried(marks, DOMAIN table \ kept, "evicted") : x = Result(KeepOf(table, kept), after)
      BY <2>1
    <2>3. /\ kept \subseteq DOMAIN table /\ Cardinality(kept) = Watermark
          /\ \A h \in kept, g \in DOMAIN table \ kept : LastHit(table[g]) <= LastHit(table[h])
      BY DEF Recent, kSubset
    <2>4. x.entries = KeepOf(table, kept) /\ x.tombs = after
      BY <2>2 DEF Result
    <2>5. DOMAIN x.entries = kept /\ \A h \in kept : x.entries[h] = table[h]
      BY <2>4 DEF KeepOf
    <2>6. \A h \in DOMAIN after :
             \/ h \in DOMAIN table \ kept
             \/ h \in DOMAIN marks /\ after[h] = marks[h]
      BY BuriedAre
    <2>7. ASSUME IsFiniteSet(DOMAIN table) PROVE Within(x.entries)
      BY <2>3, <2>5, <2>7, FS_Subset, CacheAssumption DEF Within
    <2> QED BY <2>3, <2>4, <2>5, <2>6, <2>7
  <1> QED BY <1>1, <1>2

(* First what has expired goes, then the oldest (evict_expired_locked and   *)
(* shrink_to_watermark).                                                    *)
LEMMA SweepThins ==
    ASSUME NEW table, NEW marks, NEW limit \in {Capacity, HardLimit},
           NEW x \in ShrinkAbove(limit, ExpireRecords(table, marks))
    PROVE  Thinned(table, marks, x) /\ (IsFiniteSet(DOMAIN table) => Within(x.entries))
  <1>1. PICK y \in ExpireRecords(table, marks) :
          x \in IF Cardinality(DOMAIN y.entries) > limit THEN Shrink(y.entries, y.tombs) ELSE {y}
    BY DEF ShrinkAbove
  <1>2. /\ Thinned(table, marks, y) /\ DOMAIN y.entries = AliveIn(table)
        /\ \A h \in DOMAIN y.entries : y.entries[h] = table[h]
        /\ \A h \in DOMAIN y.tombs :
             \/ h \in DOMAIN marks /\ y.tombs[h] = marks[h]
             \/ h \in DOMAIN table /\ y.tombs[h] = "expired"
    BY ExpireThins DEF Thinned
  <1>3. ASSUME IsFiniteSet(DOMAIN table) PROVE IsFiniteSet(DOMAIN y.entries)
    BY <1>2, <1>3, FS_Subset DEF AliveIn
  <1>4. CASE x = y /\ ~(Cardinality(DOMAIN y.entries) > limit)
    <2>1. ASSUME IsFiniteSet(DOMAIN table) PROVE Within(x.entries)
      BY <1>3, <1>4, <2>1, FS_CardinalityType, CacheAssumption DEF Within
    <2> QED BY <1>2, <1>4, <2>1
  <1>5. CASE x \in Shrink(y.entries, y.tombs)
    <2>1. /\ DOMAIN x.entries \subseteq DOMAIN y.entries
          /\ \A h \in DOMAIN x.entries : x.entries[h] = y.entries[h]
          /\ \A h \in DOMAIN x.tombs :
                \/ h \in DOMAIN y.tombs /\ x.tombs[h] = y.tombs[h]
                \/ /\ h \in DOMAIN y.entries
                   /\ \A g \in DOMAIN x.entries : LastHit(y.entries[h]) <= LastHit(y.entries[g])
          /\ IsFiniteSet(DOMAIN y.entries) => Within(x.entries)
      BY <1>5, ShrinkThins
    <2>2. \A h \in DOMAIN y.entries : h \in DOMAIN table /\ Alive(table[h]) /\ y.entries[h] = table[h]
      BY <1>2 DEF AliveIn
    <2>3. Thinned(table, marks, x)
      BY <1>2, <2>1, <2>2 DEF Thinned
    <2> QED BY <1>3, <2>1, <2>3
  <1> QED BY <1>1, <1>4, <1>5

(* What evictions may do to the table.                                      *)
Evicts(x) ==
    \A h \in DOMAIN x.tombs \ DOMAIN tombs :
        x.tombs[h] = "evicted" /\ h \in DOMAIN entries =>
            /\ Alive(entries[h])
            /\ \A g \in DOMAIN x.entries \cap DOMAIN entries :
                  LastHit(entries[h]) <= LastHit(x.entries[g])

LEMMA RecordEvicts ==
    ASSUME Within(entries), NEW p, NEW tokens, NEW ttl, NEW x \in Recorded(p, tokens, ttl)
    PROVE  Evicts(x) /\ Within(x.entries)
  <1> DEFINE table == Written(entries, p, tokens, ttl)
             marks == KeepOf(tombs, DOMAIN tombs \ {p})
  <1>1. /\ DOMAIN table = DOMAIN entries \cup {p}
        /\ \A h \in DOMAIN entries \ {p} : table[h] = entries[h]
    BY DEF Written
  <1>2. DOMAIN marks = DOMAIN tombs \ {p}
    BY DEF KeepOf
  <1>3. IsFiniteSet(DOMAIN table)
    BY <1>1, FS_AddElement DEF Within
  <1>4. x \in IF Cardinality(DOMAIN table) <= HardLimit THEN {Result(table, marks)}
              ELSE ShrinkAbove(HardLimit, ExpireRecords(table, marks))
    BY DEF Recorded, EvictRecords
  <1> HIDE DEF table, marks
  <1>5. CASE Cardinality(DOMAIN table) <= HardLimit
    <2>1. x.entries = table /\ x.tombs = marks
      BY <1>4, <1>5 DEF Result
    <2>2. Within(table)
      BY <1>3, <1>5, FS_CardinalityType DEF Within
    <2> QED BY <1>2, <2>1, <2>2 DEF Evicts
  <1>6. CASE ~(Cardinality(DOMAIN table) <= HardLimit)
    <2>1. Thinned(table, marks, x) /\ Within(x.entries)
      BY <1>3, <1>4, <1>6, SweepThins
    <2>2. p \notin DOMAIN entries
      <3>1. p \in DOMAIN entries => DOMAIN table = DOMAIN entries
        BY <1>1
      <3> QED BY <1>6, <3>1 DEF Within
    <2>3. \A h \in DOMAIN entries : table[h] = entries[h]
      BY <1>1, <2>2
    <2>4. ASSUME NEW h \in DOMAIN x.tombs \ DOMAIN tombs, x.tombs[h] = "evicted", h \in DOMAIN entries
          PROVE  /\ Alive(entries[h])
                 /\ \A g \in DOMAIN x.entries \cap DOMAIN entries :
                       LastHit(entries[h]) <= LastHit(x.entries[g])
      <3>1. /\ Alive(table[h])
            /\ \A g \in DOMAIN x.entries : LastHit(table[h]) <= LastHit(table[g])
        BY <1>2, <2>1, <2>4 DEF Thinned
      <3>2. \A g \in DOMAIN x.entries : x.entries[g] = table[g]
        BY <2>1 DEF Thinned
      <3> QED BY <2>3, <2>4, <3>1, <3>2
    <2> QED BY <2>1, <2>4 DEF Evicts
  <1> QED BY <1>5, <1>6

LEMMA SweepEvicts ==
    ASSUME Within(entries), NEW x \in ShrinkAbove(Capacity, ExpireRecords(entries, tombs))
    PROVE  Evicts(x) /\ Within(x.entries)
  <1>1. Thinned(entries, tombs, x) /\ Within(x.entries)
    BY SweepThins DEF Within
  <1> QED BY <1>1 DEF Evicts, Thinned

LEMMA CacheStarts == CacheInit => CacheFits
  <1>1. DOMAIN NoEntries = {}
    BY DEF NoEntries
  <1>2. Within(NoEntries)
    BY <1>1, FS_EmptySet, CacheAssumption DEF Within
  <1> QED BY <1>2 DEF CacheInit, CacheFits

(* Steps that write or thin the table, and the others.                      *)
Replaces(x) == /\ Evicts(x) /\ Within(x.entries) /\ entries' = x.entries /\ tombs' = x.tombs
              /\ UNCHANGED <<disk, flushing>>

LEMMA CacheReplaces ==
    ASSUME CacheFits,
           Sweep \/ \E r \in Meters : ProbeShared(r) \/ RecordPoint(r)
    PROVE  \E x : Replaces(x)
  <1>0. Within(entries)
    BY DEF CacheFits
  <1>1. ASSUME NEW r \in Meters, ProbeShared(r) PROVE \E x : Replaces(x)
    <2>1. PICK p, tokens, ttl : Install(Recorded(p, tokens, ttl)) /\ UNCHANGED <<disk, flushing>>
      BY <1>1 DEF ProbeShared
    <2> QED BY <1>0, <2>1, RecordEvicts DEF Install, Replaces
  <1>2. ASSUME NEW r \in Meters, RecordPoint(r) PROVE \E x : Replaces(x)
    <2>1. PICK p, tokens, ttl : Install(Recorded(p, tokens, ttl)) /\ UNCHANGED <<disk, flushing>>
      BY <1>2 DEF RecordPoint
    <2> QED BY <1>0, <2>1, RecordEvicts DEF Install, Replaces
  <1>3. ASSUME Sweep PROVE \E x : Replaces(x)
    BY <1>0, <1>3, SweepEvicts DEF Sweep, Install, Replaces
  <1> QED BY <1>1, <1>2, <1>3

LEMMA CacheStep ==
    ASSUME CacheFits, [CacheNext]_cacheVars
    PROVE  /\ CacheFits'
           /\ \A h \in DOMAIN tombs' \ DOMAIN tombs :
                 tombs'[h] = "evicted" /\ h \in DOMAIN entries =>
                     /\ Alive(entries[h])
                     /\ \A g \in DOMAIN entries' \cap DOMAIN entries :
                           LastHit(entries[h]) <= LastHit(entries'[g])
  <1>1. ASSUME NEW x, Replaces(x) PROVE CacheFits' /\ Evicts(x)
    BY <1>1 DEF Replaces, CacheFits, Within
  <1>2. CASE Sweep \/ \E r \in Meters : ProbeShared(r) \/ RecordPoint(r)
    <2>1. PICK x : Replaces(x)
      BY <1>2, CacheReplaces
    <2> QED BY <1>1, <2>1 DEF Replaces, Evicts
  <1>3. ASSUME NEW r \in Meters, ProbeHit(r) PROVE CacheFits' /\ UNCHANGED tombs
    <2>1. DOMAIN entries' = DOMAIN entries /\ UNCHANGED <<tombs, disk, flushing>>
      BY <1>3 DEF ProbeHit
    <2> QED BY <2>1 DEF CacheFits, Within
  <1>4. CASE \/ UNCHANGED cacheVars \/ Second
             \/ \E r \in Meters : ProbeMiss(r) \/ \E a \in setup.asks : AskUsage(r, a.who, a.what)
    <2>1. UNCHANGED <<entries, tombs, disk, flushing>>
      BY <1>4 DEF cacheVars, Second, ProbeMiss, AskUsage
    <2> QED BY <2>1 DEF CacheFits, Within
  <1>5. CASE Flush
    <2>1. UNCHANGED <<entries, tombs, disk>> /\ flushing' = {entries}
      BY <1>5 DEF Flush
    <2> QED BY <2>1 DEF CacheFits, Within
  <1>6. Within(NoEntries)
    <2>1. DOMAIN NoEntries = {}
      BY DEF NoEntries
    <2> QED BY <2>1, FS_EmptySet, CacheAssumption DEF Within
  <1>7. CASE Flushed
    <2>1. UNCHANGED <<entries, tombs>> /\ flushing' = {} /\ disk' \in flushing \cup {disk, NoEntries}
      BY <1>7 DEF Flushed
    <2> QED BY <1>6, <2>1 DEF CacheFits, Within
  <1>8. CASE Restart
    <2>1. /\ disk' \in flushing \cup {disk, NoEntries} /\ flushing' = {} /\ DOMAIN tombs' = {}
          /\ entries' = KeepOf(disk', AliveIn(disk')) /\ clock' = clock
      BY <1>8 DEF Restart, NoEntries
    <2> DEFINE from == disk'
    <2>2. Within(from)
      BY <1>6, <2>1 DEF CacheFits
    <2>3. AliveIn(from) \subseteq DOMAIN from
      BY DEF AliveIn
    <2>4. Within(KeepOf(from, AliveIn(from)))
      BY <2>2, <2>3, PartWithin
    <2> QED BY <2>1, <2>2, <2>4 DEF CacheFits, Within
  <1> QED BY <1>2, <1>3, <1>4, <1>5, <1>7, <1>8 DEF CacheNext

(* However large the table, whatever expires and whenever it is swept,      *)
(* written to disk or reloaded: only what is alive is evicted, the longest  *)
(* unused first (evict_expired_locked before shrink_to_watermark).          *)
THEOREM PrefixesEvictedAlive == CacheSpec => EvictsAlive
  <1>1. CacheFits /\ [CacheNext]_cacheVars => CacheFits'
    BY CacheStep
  <1>2. CacheFits /\ [CacheNext]_cacheVars =>
          [\A h \in DOMAIN tombs' \ DOMAIN tombs :
              tombs'[h] = "evicted" /\ h \in DOMAIN entries =>
                  /\ Alive(entries[h])
                  /\ \A g \in DOMAIN entries' \cap DOMAIN entries :
                        LastHit(entries[h]) <= LastHit(entries'[g])]_cacheVars
    BY CacheStep
  <1> QED BY <1>1, <1>2, CacheStarts, PTL DEF CacheSpec, EvictsAlive

-----------------------------------------------------------------------------
(* Of all parts together.                                                   *)

LEMMA PartsStep ==
    ASSUME [Next]_<<part, convertVars, cacheVars, affinityVars, modelVars, clientVars>>
    PROVE  /\ [CacheNext]_cacheVars /\ [AffinityNext]_affinityVars
           /\ [ModelNext]_modelVars /\ [ClientNext]_clientVars
  BY DEF Next, Rest

(* What is evicted has had its turn, in the table of prefixes as in the     *)
(* table of conversations (record_entry, sweep, SessionAffinityCache::bind).*)
THEOREM EvictedInTurn == Spec => EvictsInTurn
  <1>1. Init => CacheFits /\ AffinityInv
    BY CacheStarts, AffinityStarts DEF Init
  <1>2. CacheFits /\ [Next]_<<part, convertVars, cacheVars, affinityVars, modelVars, clientVars>> =>
          /\ CacheFits'
          /\ [\A h \in DOMAIN tombs' \ DOMAIN tombs :
                 tombs'[h] = "evicted" /\ h \in DOMAIN entries =>
                     /\ Alive(entries[h])
                     /\ \A g \in DOMAIN entries' \cap DOMAIN entries :
                           LastHit(entries[h]) <= LastHit(entries'[g])]_cacheVars
    BY PartsStep, CacheStep
  <1>3. AffinityInv /\ [Next]_<<part, convertVars, cacheVars, affinityVars, modelVars, clientVars>> =>
          /\ AffinityInv'
          /\ [\A s \in Live(bindings, tick) \ DOMAIN bindings' :
                 /\ Full(bindings)
                 /\ \A r \in DOMAIN bindings : bindings[s].until <= bindings[r].until
                 /\ \E b \in Binders : binder[b].pc = "bind" /\ DOMAIN bindings = Live(bindings, binder[b].now)
             ]_affinityVars
    BY PartsStep, AffinityStep, AffinityFair
  <1> QED BY <1>1, <1>2, <1>3, PTL DEF Spec, EvictsInTurn, EvictsAlive, EvictsFairly

-----------------------------------------------------------------------------
(* Tombstones: as many as there is room for, each with a reason, none of    *)
(* what is in the table.                                                    *)

Misses == {"expired", "evicted", "absent"}
TombsOK(table, marks) ==
    /\ IsFiniteSet(DOMAIN marks) /\ Cardinality(DOMAIN marks) <= TombCapacity
    /\ DOMAIN table \cap DOMAIN marks = {}
    /\ \A h \in DOMAIN marks : marks[h] \in Misses

LEMMA BuriedFit ==
    ASSUME NEW marks, IsFiniteSet(DOMAIN marks), Cardinality(DOMAIN marks) <= TombCapacity,
           NEW gone, IsFiniteSet(gone), NEW why, NEW after \in Buried(marks, gone, why)
    PROVE  IsFiniteSet(DOMAIN after) /\ Cardinality(DOMAIN after) <= TombCapacity
  <1> DEFINE all == Cardinality(DOMAIN marks) + Cardinality(gone)
             few == 1 + ((all - 1) % TombCapacity)
             lasting == IF all <= TombCapacity THEN {gone} ELSE kSubset(few, gone)
             before == IF all <= TombCapacity THEN DOMAIN marks ELSE {}
  <1>1. PICK last \in lasting :
          after = [h \in last \cup before |-> IF h \in last THEN why ELSE marks[h]]
    BY DEF Buried
  <1>2. DOMAIN after = last \cup before
    BY <1>1
  <1>3. TombCapacity \in Nat \ {0} /\ Cardinality(DOMAIN marks) \in Nat /\ Cardinality(gone) \in Nat
    BY CacheAssumption, FS_CardinalityType
  <1>4. CASE all <= TombCapacity
    <2>1. DOMAIN after = gone \cup DOMAIN marks
      BY <1>1, <1>2, <1>4
    <2>2. Cardinality(gone \cap DOMAIN marks) \in Nat
      BY FS_Subset, FS_CardinalityType
    <2>3. /\ IsFiniteSet(gone \cup DOMAIN marks)
          /\ Cardinality(gone \cup DOMAIN marks)
               = Cardinality(gone) + Cardinality(DOMAIN marks) - Cardinality(gone \cap DOMAIN marks)
      BY FS_Union
    <2> QED BY <1>3, <1>4, <2>1, <2>2, <2>3
  <1>5. CASE ~(all <= TombCapacity)
    <2>1. last \in kSubset(few, gone) /\ DOMAIN after = last
      BY <1>1, <1>2, <1>5
    <2>2. last \subseteq gone /\ Cardinality(last) = few
      BY <2>1 DEF kSubset
    <2>3. all - 1 \in Int
      BY <1>3
    <2> HIDE DEF all
    <2>4. (all - 1) % TombCapacity \in 0 .. TombCapacity - 1
      BY <1>3, <2>3
    <2>5. few <= TombCapacity
      BY <1>3, <2>4
    <2> QED BY <2>1, <2>2, <2>5, FS_Subset
  <1> QED BY <1>4, <1>5

LEMMA BuriedTidy ==
    ASSUME NEW table, NEW marks, TombsOK(table, marks), IsFiniteSet(DOMAIN table),
           NEW kept \in SUBSET DOMAIN table, NEW why \in Misses,
           NEW after \in Buried(marks, DOMAIN table \ kept, why)
    PROVE  TombsOK(KeepOf(table, kept), after)
  <1>1. DOMAIN KeepOf(table, kept) = kept
    BY DEF KeepOf
  <1>2. IsFiniteSet(DOMAIN table \ kept)
    BY FS_Subset
  <1>3. IsFiniteSet(DOMAIN after) /\ Cardinality(DOMAIN after) <= TombCapacity
    BY <1>2, BuriedFit DEF TombsOK
  <1>4. \A h \in DOMAIN after :
           \/ h \in DOMAIN table \ kept /\ after[h] = why
           \/ h \in DOMAIN marks /\ after[h] = marks[h]
    BY BuriedAre
  <1> QED BY <1>1, <1>3, <1>4 DEF TombsOK

LEMMA ShrinkTidies ==
    ASSUME NEW table, NEW marks, TombsOK(table, marks), IsFiniteSet(DOMAIN table),
           NEW x \in Shrink(table, marks)
    PROVE  TombsOK(x.entries, x.tombs)
  <1>1. CASE Cardinality(DOMAIN table) <= Watermark
    <2>1. x = Result(table, marks)
      BY <1>1 DEF Shrink
    <2> QED BY <2>1 DEF Result
  <1>2. CASE ~(Cardinality(DOMAIN table) <= Watermark)
    <2>1. PICK kept \in Recent(table, Watermark) :
             \E after \in Buried(marks, DOMAIN table \ kept, "evicted") : x = Result(KeepOf(table, kept), after)
      BY <1>2 DEF Shrink
    <2>2. PICK after \in Buried(marks, DOMAIN table \ kept, "evicted") : x = Result(KeepOf(table, kept), after)
      BY <2>1
    <2>3. kept \subseteq DOMAIN table /\ "evicted" \in Misses
      BY DEF Recent, kSubset, Misses
    <2>4. TombsOK(KeepOf(table, kept), after)
      BY <2>3, BuriedTidy
    <2> QED BY <2>2, <2>4 DEF Result
  <1> QED BY <1>1, <1>2

LEMMA SweepTidies ==
    ASSUME NEW table, NEW marks, TombsOK(table, marks), IsFiniteSet(DOMAIN table), NEW limit,
           NEW x \in ShrinkAbove(limit, ExpireRecords(table, marks))
    PROVE  TombsOK(x.entries, x.tombs)
  <1>1. PICK y \in ExpireRecords(table, marks) :
          x \in IF Cardinality(DOMAIN y.entries) > limit THEN Shrink(y.entries, y.tombs) ELSE {y}
    BY DEF ShrinkAbove
  <1>2. PICK after \in Buried(marks, DOMAIN table \ AliveIn(table), "expired") :
          y = Result(KeepOf(table, AliveIn(table)), after)
    BY DEF ExpireRecords
  <1>3. AliveIn(table) \subseteq DOMAIN table /\ "expired" \in Misses
    BY DEF AliveIn, Misses
  <1>4. TombsOK(KeepOf(table, AliveIn(table)), after)
    BY <1>3, BuriedTidy
  <1>5. TombsOK(y.entries, y.tombs) /\ DOMAIN y.entries = AliveIn(table)
    BY <1>2, <1>4 DEF Result, KeepOf
  <1>6. IsFiniteSet(DOMAIN y.entries)
    BY <1>3, <1>5, FS_Subset
  <1> QED BY <1>1, <1>5, <1>6, ShrinkTidies

(* What is written: the entry, and nothing else changes but what goes.      *)
LEMMA RecordTidies ==
    ASSUME Within(entries), TombsOK(entries, tombs), NEW p, NEW tokens, NEW ttl,
           NEW x \in Recorded(p, tokens, ttl)
    PROVE  /\ TombsOK(x.entries, x.tombs)
           /\ \A h \in DOMAIN x.entries :
                 \/ h = p /\ x.entries[h] = Entry(tokens, ttl)
                 \/ h \in DOMAIN entries /\ x.entries[h] = entries[h]
  <1> DEFINE table == Written(entries, p, tokens, ttl)
             marks == KeepOf(tombs, DOMAIN tombs \ {p})
  <1>1. /\ DOMAIN table = DOMAIN entries \cup {p}
        /\ \A h \in DOMAIN table : table[h] = IF h = p THEN Entry(tokens, ttl) ELSE entries[h]
    BY DEF Written
  <1>2. DOMAIN marks = DOMAIN tombs \ {p} /\ \A h \in DOMAIN marks : marks[h] = tombs[h]
    BY DEF KeepOf
  <1>3. IsFiniteSet(DOMAIN table)
    BY <1>1, FS_AddElement DEF Within
  <1>4. x \in IF Cardinality(DOMAIN table) <= HardLimit THEN {Result(table, marks)}
              ELSE ShrinkAbove(HardLimit, ExpireRecords(table, marks))
    BY DEF Recorded, EvictRecords
  <1> HIDE DEF table, marks
  <1>5. TombsOK(table, marks)
    <2>1. IsFiniteSet(DOMAIN marks) /\ Cardinality(DOMAIN marks) <= Cardinality(DOMAIN tombs)
      BY <1>2, FS_Subset DEF TombsOK
    <2>2. Cardinality(DOMAIN marks) \in Nat /\ Cardinality(DOMAIN tombs) \in Nat
      BY <2>1, FS_CardinalityType DEF TombsOK
    <2> QED BY <1>1, <1>2, <2>1, <2>2, CacheAssumption DEF TombsOK
  <1>6. CASE Cardinality(DOMAIN table) <= HardLimit
    <2>1. x.entries = table /\ x.tombs = marks
      BY <1>4, <1>6 DEF Result
    <2> QED BY <1>1, <1>5, <2>1
  <1>7. CASE ~(Cardinality(DOMAIN table) <= HardLimit)
    <2>1. TombsOK(x.entries, x.tombs)
      BY <1>3, <1>4, <1>5, <1>7, SweepTidies
    <2>2. Thinned(table, marks, x)
      BY <1>4, <1>7, SweepThins
    <2> QED BY <1>1, <2>1, <2>2 DEF Thinned
  <1> QED BY <1>6, <1>7

-----------------------------------------------------------------------------
(* Sums: as many as there are pairs to count.                               *)

(* As many pairs as a sum over s counts: f[x] of them for each x. *)
Units(f, s) == {p \in s \X Nat : p[2] \in 1 .. f[p[1]]}

LEMMA UnitsOfOne ==
    ASSUME NEW T, NEW f \in [T -> Nat], NEW x \in T
    PROVE  IsFiniteSet(Units(f, {x})) /\ Cardinality(Units(f, {x})) = f[x]
  <1> PICK n \in Nat : n = f[x] OBVIOUS
  <1>1. Units(f, {x}) = {x} \X (1 .. n) BY DEF Units
  <1>2. IsFiniteSet(1 .. n) /\ Cardinality(1 .. n) = n BY FS_Interval
  <1>3. IsFiniteSet({x}) /\ Cardinality({x}) = 1 BY FS_Singleton
  <1>4. IsFiniteSet({x} \X (1 .. n)) /\ Cardinality({x} \X (1 .. n)) = n
    <2> PICK I, one : I = 1 .. n /\ one = {x} OBVIOUS
    <2>1. IsFiniteSet(I) /\ IsFiniteSet(one) /\ Cardinality(I) = n /\ Cardinality(one) = 1 BY <1>2, <1>3
    <2>2. IsFiniteSet(one \X I) /\ Cardinality(one \X I) = Cardinality(one) * Cardinality(I) BY <2>1, FS_Product
    <2>3. Cardinality(one) * Cardinality(I) = n BY <2>1
    <2> PICK W : W = one \X I OBVIOUS
    <2>4. IsFiniteSet(W) /\ Cardinality(W) = n BY <2>2, <2>3
    <2> QED BY <2>4
  <1> QED BY <1>1, <1>4, Zenon

LEMMA UnitsFinite ==
    ASSUME NEW T, IsFiniteSet(T), NEW f \in [T -> Nat], NEW s \in SUBSET T
    PROVE  IsFiniteSet(Units(f, s)) /\ Cardinality(Units(f, s)) \in Nat
  <1>1. IsFiniteSet(s) BY FS_Subset
  <1> DEFINE Piles == {Units(f, {x}) : x \in s}
             g == [x \in s |-> Units(f, {x})]
  <1>2. g \in Surjection(s, Piles) BY DEF Surjection
  <1> HIDE DEF g, Piles
  <1>3. IsFiniteSet(Piles) BY <1>1, <1>2, FS_Surjection
  <1>4. \A W \in Piles : IsFiniteSet(W)
    <2> SUFFICES ASSUME NEW W \in Piles PROVE IsFiniteSet(W) OBVIOUS
    <2> PICK x \in s : W = Units(f, {x}) BY DEF Piles
    <2> QED BY UnitsOfOne
  <1>5. IsFiniteSet(UNION Piles) BY <1>3, <1>4, FS_UNION
  <1>6. Units(f, s) = UNION Piles BY DEF Piles, Units
  <1> QED BY <1>5, <1>6, FS_CardinalityType

LEMMA UnitsWithout ==
    ASSUME NEW T, IsFiniteSet(T), NEW f \in [T -> Nat], NEW s \in SUBSET T, NEW x \in s
    PROVE  Cardinality(Units(f, s)) = f[x] + Cardinality(Units(f, s \ {x}))
  <1> PICK X, Y : X = Units(f, {x}) /\ Y = Units(f, s \ {x}) OBVIOUS
  <1>1. IsFiniteSet(X) /\ Cardinality(X) = f[x] BY UnitsOfOne
  <1>2. IsFiniteSet(Y) /\ Cardinality(Y) \in Nat
    <2> PICK t \in SUBSET T : t = s \ {x} OBVIOUS
    <2> QED BY UnitsFinite
  <1>3. X \cap Y = {} BY DEF Units
  <1>4. Units(f, s) = X \cup Y BY DEF Units
  <1>5. Cardinality(X \cup Y) = Cardinality(X) + Cardinality(Y) - Cardinality(X \cap Y) BY <1>1, <1>2, FS_Union
  <1>6. Cardinality(X \cap Y) = 0 BY <1>3, FS_EmptySet
  <1>7. f[x] \in Nat OBVIOUS
  <1> QED BY <1>1, <1>2, <1>4, <1>5, <1>6, <1>7

LEMMA UnitsOfNone == ASSUME NEW f PROVE Cardinality(Units(f, {})) = 0
  <1>1. Units(f, {}) = {} BY DEF Units
  <1> QED BY <1>1, FS_EmptySet

(* A sum over a set, as MapThenSumSet takes it apart. *)
SumIs(g, f, T) ==
    g = [s \in SUBSET T |-> IF s = {} THEN 0
                            ELSE f[CHOOSE x \in s : TRUE] + g[s \ {CHOOSE x \in s : TRUE}]]

LEMMA SumCounts ==
    ASSUME NEW T, IsFiniteSet(T), NEW f \in [T -> Nat], NEW g, SumIs(g, f, T)
    PROVE  g[T] = Cardinality(Units(f, T))
  <1> DEFINE Pick(s) == CHOOSE x \in s : TRUE
             Off == {n \in Nat : \E s \in SUBSET T : Cardinality(s) = n /\ g[s] # Cardinality(Units(f, s))}
  <1>1. \A s \in SUBSET T : s # {} => Pick(s) \in s OBVIOUS
  <1>2. \A s \in SUBSET T : g[s] = IF s = {} THEN 0 ELSE f[Pick(s)] + g[s \ {Pick(s)}] BY DEF SumIs
  <1> HIDE DEF Pick
  <1>3. Off = {}
    <2> SUFFICES ASSUME Off # {} PROVE FALSE OBVIOUS
    <2>1. Min(Off) \in Off /\ \A y \in Off : Min(Off) <= y BY LeastOf
    <2> PICK n : n = Min(Off) OBVIOUS
    <2>2. PICK s \in SUBSET T : Cardinality(s) = n /\ g[s] # Cardinality(Units(f, s)) BY <2>1
    <2>3. IsFiniteSet(s) BY FS_Subset
    <2>4. CASE s = {} BY <1>2, <2>2, <2>4, UnitsOfNone
    <2>5. CASE s # {}
      <3> PICK x : x = Pick(s) OBVIOUS
      <3>1. x \in s BY <1>1, <2>5
      <3> PICK t \in SUBSET T : t = s \ {x} OBVIOUS
      <3>2. Cardinality(t) = n - 1 
        <4>1. Cardinality(s \ {x}) = Cardinality(s) - 1 BY <2>3, <3>1, FS_RemoveElement
        <4> QED BY <2>2, <4>1
      <3>3. Cardinality(t) \in Nat BY FS_Subset, FS_CardinalityType
      <3>4. g[t] = Cardinality(Units(f, t))
        <4> SUFFICES ASSUME g[t] # Cardinality(Units(f, t)) PROVE FALSE OBVIOUS
        <4>1. n - 1 \in Off BY <3>2, <3>3
        <4>2. n \in Nat BY <2>1
        <4> QED BY <2>1, <4>1, <4>2
      <3>5. g[s] = f[x] + g[t] BY <1>2, <2>5
      <3>6. Cardinality(Units(f, s)) = f[x] + Cardinality(Units(f, t)) BY <3>1, UnitsWithout
      <3> QED BY <2>2, <3>4, <3>5, <3>6
    <2> QED BY <2>4, <2>5
  <1>4. Cardinality(T) \in Nat BY FS_CardinalityType
  <1> QED BY <1>3, <1>4

LEMMA SumExists ==
    ASSUME NEW T, IsFiniteSet(T), NEW f \in [T -> Nat]
    PROVE  \E g : SumIs(g, f, T)
  <1> DEFINE Pick(s) == CHOOSE x \in s : TRUE
             g == [s \in SUBSET T |-> Cardinality(Units(f, s))]
  <1>1. ASSUME NEW s \in SUBSET T
        PROVE  g[s] = IF s = {} THEN 0 ELSE f[Pick(s)] + g[s \ {Pick(s)}]
    <2>1. CASE s = {} BY <2>1, UnitsOfNone
    <2>2. CASE s # {}
      <3>1. Pick(s) \in s BY <2>2
      <3> PICK x \in s : x = Pick(s) BY <3>1
      <3> PICK t \in SUBSET T : t = s \ {x} OBVIOUS
      <3>2. Cardinality(Units(f, s)) = f[x] + Cardinality(Units(f, t))
        <4> HIDE DEF g, Pick
        <4>1. Cardinality(Units(f, s)) = f[x] + Cardinality(Units(f, s \ {x})) BY UnitsWithout
        <4> QED BY <4>1
      <3>3. g[s] = Cardinality(Units(f, s)) /\ g[t] = Cardinality(Units(f, t)) OBVIOUS
      <3> HIDE DEF g
      <3> QED BY <2>2, <3>2, <3>3
    <2> QED BY <2>1, <2>2
  <1>2. SumIs(g, f, T)
    <2>1. g = [s \in SUBSET T |-> g[s]] OBVIOUS
    <2> HIDE DEF g
    <2>2. \A s \in SUBSET T : g[s] = IF s = {} THEN 0
                            ELSE f[CHOOSE x \in s : TRUE] + g[s \ {CHOOSE x \in s : TRUE}] BY <1>1
    <2> QED BY <2>1, <2>2 DEF SumIs
  <1> QED BY <1>2

(* The sum of the lookups that requests have before them. *)
LEMMA RemainingSum ==
    ASSUME IsFiniteSet(Meters), NEW f \in [Meters -> Nat], \A r \in Meters : f[r] = Remaining(meter[r])
    PROVE  MapThenSumSet(LAMBDA r : Remaining(meter[r]), Meters) = Cardinality(Units(f, Meters))
  <1> DEFINE Is(g) == g = [s \in SUBSET Meters |->
                             IF s = {} THEN 0
                             ELSE Remaining(meter[CHOOSE x \in s : TRUE]) + g[s \ {CHOOSE x \in s : TRUE}]]
             total == MapThenSumSet(LAMBDA r : Remaining(meter[r]), Meters)
  <1>1. total = (CHOOSE g : Is(g))[Meters] BY DEF MapThenSumSet, MapThenFoldSet
  <1>2. \A g : Is(g) <=> SumIs(g, f, Meters)
    <2> TAKE g
    <2>1. \A s \in SUBSET Meters : s # {} => (CHOOSE x \in s : TRUE) \in Meters OBVIOUS
    <2>2. \A s \in SUBSET Meters : s # {} => Remaining(meter[CHOOSE x \in s : TRUE]) = f[CHOOSE x \in s : TRUE]
      BY <2>1
    <2>3. [s \in SUBSET Meters |->
                             IF s = {} THEN 0
                             ELSE Remaining(meter[CHOOSE x \in s : TRUE]) + g[s \ {CHOOSE x \in s : TRUE}]]
         = [s \in SUBSET Meters |->
                             IF s = {} THEN 0
                             ELSE f[CHOOSE x \in s : TRUE] + g[s \ {CHOOSE x \in s : TRUE}]]
      BY <2>2
    <2> QED BY <2>3 DEF SumIs
  <1> HIDE DEF Is, total
  <1>3. PICK g : Is(g) BY <1>2, SumExists
  <1> PICK h : h = CHOOSE g1 : Is(g1) OBVIOUS
  <1>4. SumIs(h, f, Meters) BY <1>2, <1>3
  <1>5. h[Meters] = Cardinality(Units(f, Meters)) BY <1>4, SumCounts
  <1> QED BY <1>1, <1>5 DEF total

-----------------------------------------------------------------------------
(* What is reported of a request: the shares of its real size.              *)

LEMMA SmallerOf ==
    ASSUME NEW i \in Nat, NEW j \in Nat
    PROVE  Min({i, j}) = IF i <= j THEN i ELSE j
  <1> DEFINE T == {i, j}
  <1>1. Min(T) \in T /\ \A y \in T : Min(T) <= y
    <2>1. T \in SUBSET Nat /\ T # {} OBVIOUS
    <2> QED BY <2>1, LeastOf
  <1> QED BY <1>1

LEMMA LargestOf ==
    ASSUME NEW i \in Nat, NEW j \in Nat
    PROVE  Max({i, j}) = IF i >= j THEN i ELSE j
  <1>1. Max({i, j}) \in {i, j} /\ Max({i, j}) >= i /\ Max({i, j}) >= j
    <2>1. \E x \in {i, j} : \A y \in {i, j} : x >= y OBVIOUS
    <2> QED BY <2>1 DEF Max
  <1> QED BY <1>1

LEMMA Division ==
    ASSUME NEW x \in Nat, NEW d \in Nat \ {0}
    PROVE  x \div d \in Nat /\ d * (x \div d) <= x /\ x < d * (x \div d) + d
  OBVIOUS

LEMMA TimesMore ==
    ASSUME NEW a \in Nat, NEW b \in Nat, NEW c \in Nat, b <= c
    PROVE  a * b \in Nat /\ a * c \in Nat /\ a * b <= a * c
  <1>1. c - b \in Nat OBVIOUS
  <1>2. a * (c - b) \in Nat BY <1>1
  <1>3. a * c = a * b + a * (c - b) OBVIOUS
  <1> QED BY <1>2, <1>3

LEMMA ShareIs ==
    ASSUME NEW a \in Nat, NEW b \in Nat, NEW c \in Nat \ {0}, b <= c
    PROVE  /\ Share(a, b, c) \in 0 .. a
           /\ b = c => Share(a, b, c) = a
           /\ b = 0 => Share(a, b, c) = 0
  <1> PICK x \in Nat : x = 2 * a * b OBVIOUS
  <1> PICK d \in Nat \ {0} : d = 2 * c OBVIOUS
  <1> PICK top \in Nat : top = a * d OBVIOUS
  <1>1. x <= top /\ (b = c => x = top) /\ (b = 0 => x = 0)
    <2>1. a * b <= a * c BY TimesMore
    <2>2. x = 2 * (a * b) /\ top = 2 * (a * c) OBVIOUS
    <2> QED BY <2>1, <2>2
  <1> PICK q : q = (x + c) \div d OBVIOUS
  <1>2. Share(a, b, c) = q BY DEF Share
  <1>3. q \in Nat /\ d * q <= x + c /\ x + c < d * q + d
    <2> PICK y \in Nat : y = x + c OBVIOUS
    <2>1. y \div d \in Nat /\ d * (y \div d) <= y /\ y < d * (y \div d) + d BY Division
    <2> QED BY <2>1
  <1>4. q <= a
    <2> SUFFICES ASSUME q >= a + 1 PROVE FALSE BY <1>3
    <2>1. d * (a + 1) <= d * q BY <1>3, TimesMore
    <2>2. d * (a + 1) = top + d OBVIOUS
    <2> QED BY <1>1, <1>3, <2>1, <2>2
  <1>5. b = c => q >= a
    <2> SUFFICES ASSUME b = c, q + 1 <= a PROVE FALSE BY <1>3
    <2>1. d * (q + 1) <= d * a BY <1>3, TimesMore
    <2>2. d * (q + 1) = d * q + d /\ d * a = top BY <1>3
    <2> QED BY <1>1, <1>3, <2>1, <2>2
  <1>6. b = 0 => q = 0
    <2> SUFFICES ASSUME b = 0, q >= 1 PROVE FALSE BY <1>3
    <2>1. d * 1 <= d * q BY <1>3, TimesMore
    <2> QED BY <1>1, <1>3, <2>1
  <1> QED BY <1>2, <1>3, <1>4, <1>5, <1>6

(* A usage whose sizes are in order. *)
UsageOK(u) == u \in [read : Nat, covered : Nat, whole : Nat, long : Nat] /\ u.read <= u.covered /\ u.covered <= u.whole

PartsOK(parts, u, total) ==
    /\ parts \in [input : Nat, created : Nat, read : Nat] /\ parts.input + parts.created + parts.read = total
    /\ total > 0 => parts.input >= 1
    /\ u.read = 0 => parts.read = 0
    /\ u.read = u.covered => parts.created = 0

LEMMA PartsAre ==
    ASSUME NEW u, NEW total \in Nat, NEW i \in Nat, NEW c \in Nat, NEW x \in Nat, i + c + x = total,
           total > 0 => i >= 1, u.read = 0 => x = 0, u.read = u.covered => c = 0
    PROVE  PartsOK([input |-> i, created |-> c, read |-> x], u, total)
  BY DEF PartsOK

LEMMA DividedIs ==
    ASSUME NEW u, UsageOK(u), u.covered > 0, NEW total \in Nat
    PROVE  PartsOK(Divided(u, total), u, total)
  <1> PICK n \in Nat, c \in Nat \ {0}, w \in Nat \ {0} : n = u.read /\ c = u.covered /\ w = u.whole /\ n <= c /\ c <= w
    BY DEF UsageOK
  <1>1. Share(total, c, w) \in 0 .. total BY ShareIs
  <1> PICK covered : covered = Min({total, Share(total, c, w)}) OBVIOUS
  <1>2. covered \in Nat /\ covered <= total
    <2> PICK x \in Nat : x = Share(total, c, w) BY <1>1
    <2> QED BY SmallerOf
  <1> PICK k \in Nat : k = covered BY <1>2
  <1> PICK x : x = Share(k, n, c) OBVIOUS
  <1>3. x \in Nat /\ x <= k /\ (n = c => x = k) /\ (n = 0 => x = 0)
    <2>1. x \in 0 .. k BY ShareIs
    <2>2. n = c => x = k BY ShareIs
    <2>3. n = 0 => x = 0 BY ShareIs
    <2> QED BY <2>1, <2>2, <2>3
  <1> PICK read : read = Reading(u, covered) OBVIOUS
  <1>4. read \in Nat /\ read <= covered /\ (n = c => read = covered) /\ (n = 0 => read = 0)
    <2>1. read = Min({k, x}) BY DEF Reading
    <2>2. Min({k, x}) = IF k <= x THEN k ELSE x
      <3> PICK y \in Nat : y = x BY <1>3
      <3>1. Min({k, y}) = IF k <= y THEN k ELSE y BY SmallerOf
      <3> QED BY <3>1
    <2> QED BY <1>2, <1>3, <2>1, <2>2
  <1>5. Divided(u, total) = AtLeastOne(total, covered, read) BY DEF Divided
  <1>6. CASE total = 0 \/ covered < total
    <2>1. AtLeastOne(total, covered, read)
              = [input |-> total - covered, created |-> covered - read, read |-> read]
      BY <1>2, <1>4, <1>6, SMTT(20) DEF AtLeastOne
    <2> PICK i \in Nat, d \in Nat : i = total - covered /\ d = covered - read BY <1>2, <1>4
    <2>4. i + d + read = total BY <1>2, <1>4
    <2>5. total > 0 => i >= 1 BY <1>2, <1>6
    <2>6. (u.read = 0 => read = 0) /\ (u.read = u.covered => d = 0) BY <1>2, <1>4
    <2>2. i + d + read = total /\ (total > 0 => i >= 1) /\ (u.read = 0 => read = 0) /\ (u.read = u.covered => d = 0)
      BY <2>4, <2>5, <2>6
    <2>3. PartsOK([input |-> i, created |-> d, read |-> read], u, total) BY <1>4, <2>2, PartsAre
    <2> QED BY <1>5, <2>1, <2>3
  <1>7. CASE ~(total = 0 \/ covered < total) /\ read < covered
    <2>1. AtLeastOne(total, covered, read)
              = [input |-> 1, created |-> covered - read - 1, read |-> read]
      BY <1>2, <1>4, <1>7, SMTT(20) DEF AtLeastOne
    <2> PICK d \in Nat : d = covered - read - 1 BY <1>2, <1>4, <1>7
    <2>2. 1 + d + read = total /\ (u.read = 0 => read = 0) /\ (u.read = u.covered => d = 0)
      BY <1>2, <1>4, <1>7
    <2>3. PartsOK([input |-> 1, created |-> d, read |-> read], u, total) BY <1>4, <2>2, PartsAre
    <2> QED BY <1>5, <2>1, <2>3
  <1>8. CASE ~(total = 0 \/ covered < total) /\ ~(read < covered)
    <2>1. AtLeastOne(total, covered, read) = [input |-> 1, created |-> 0, read |-> read - 1]
      BY <1>2, <1>4, <1>8, SMTT(20) DEF AtLeastOne
    <2>2. n # 0 BY <1>2, <1>4, <1>8
    <2> PICK d \in Nat : d = read - 1 BY <1>2, <1>4, <1>8
    <2>3. 1 + 0 + d = total /\ (u.read = 0 => d = 0)
      BY <1>2, <1>4, <1>8, <2>2
    <2>4. PartsOK([input |-> 1, created |-> 0, read |-> d], u, total) BY <2>3, PartsAre
    <2> QED BY <1>5, <2>1, <2>4
  <1> QED BY <1>6, <1>7, <1>8

LEMMA SplitIs ==
    ASSUME NEW u, UsageOK(u), NEW total \in Nat, NEW percent \in 0 .. 100
    PROVE  LET parts == Split(u, total, percent)
           IN  /\ PartsOK(parts, u, total) /\ parts.read * 100 <= total * percent
               /\ parts.created = IF u.covered = 0 THEN 0 ELSE Divided(u, total).created
  <1> PICK parts : parts = Split(u, total, percent) OBVIOUS
  <1>0. u.whole = 0 => u.covered = 0 BY DEF UsageOK
  <1> PICK all \in Nat : all = total * percent OBVIOUS
  <1>1. CASE u.covered = 0
    <2>1. parts = [input |-> total, created |-> 0, read |-> 0] BY <1>1 DEF Split
    <2> QED BY <1>1, <2>1 DEF PartsOK
  <1>2. CASE u.covered # 0
    <2>1. u.covered > 0 BY <1>2 DEF UsageOK
    <2> PICK d : d = Divided(u, total) OBVIOUS
    <2>2. PartsOK(d, u, total) BY <2>1, DividedIs
    <2> PICK limit : limit = (total * percent) \div 100 OBVIOUS
    <2>3. limit \in Nat /\ 100 * limit <= all
      <3>1. 100 \in Nat \ {0} OBVIOUS
      <3>2. all \div 100 \in Nat /\ 100 * (all \div 100) <= all BY <3>1, Division
      <3> QED BY <3>2
    <2>4. parts = Limited(d, limit) BY <1>0, <1>2 DEF Split
    <2> PICK least : least = Min({d.read, limit}) OBVIOUS
    <2>5. least \in Nat /\ least <= d.read /\ least <= limit
      <3> PICK x \in Nat : x = d.read BY <2>2 DEF PartsOK
      <3> QED BY <2>3, SmallerOf
    <2>6. parts = [d EXCEPT !.read = least, !.input = d.input + d.read - least] BY <2>4 DEF Limited
    <2>10. PICK i, c, x : d = [input |-> i, created |-> c, read |-> x] /\ i \in Nat /\ c \in Nat /\ x \in Nat
      BY <2>2 DEF PartsOK
    <2>11. parts = [input |-> i + x - least, created |-> c, read |-> least]
      <3>1. d.read = x /\ d.input = i BY <2>10
      <3> PICK y : y = i + x - least OBVIOUS
      <3>2. parts = [d EXCEPT !.read = least, !.input = y] BY <2>6, <3>1
      <3>3. parts = [[input |-> i, created |-> c, read |-> x] EXCEPT !.read = least, !.input = y] BY <2>10, <3>2
      <3> QED BY <3>3
    <2>7. /\ parts.created = d.created /\ parts.read = least /\ parts.input = d.input + (d.read - least)
          /\ parts \in [input : Nat, created : Nat, read : Nat]
      BY <2>5, <2>10, <2>11
    <2>8. PartsOK(parts, u, total) BY <2>2, <2>5, <2>7 DEF PartsOK
    <2>9. parts.read * 100 <= total * percent
      <3>1. 100 * least <= 100 * limit BY <2>3, <2>5
      <3> QED BY <2>3, <2>5, <2>7, <3>1
    <2> QED BY <1>2, <2>7, <2>8, <2>9
  <1> QED BY <1>1, <1>2

LEMMA LongPartIs ==
    ASSUME NEW u, UsageOK(u), NEW created \in Nat, u.read = u.covered => created = 0
    PROVE  LongPart(u, created) \in 0 .. created /\ (u.long = 0 => LongPart(u, created) = 0)
  <1>1. CASE created = 0 BY <1>1 DEF LongPart
  <1>2. CASE created # 0
    <2> PICK c \in Nat \ {0} : c = u.covered - u.read BY <1>2 DEF UsageOK
    <2> PICK x \in Nat : x = u.long BY DEF UsageOK
    <2> PICK b : b = Min({x, c}) OBVIOUS
    <2>1. b \in Nat /\ b <= c /\ (x = 0 => b = 0) BY SmallerOf
    <2>2. LongPart(u, created) = Share(created, b, c) BY <1>2 DEF LongPart
    <2> QED BY <2>1, <2>2, ShareIs
  <1> QED BY <1>1, <1>2

LEMMA UsageAdds ==
    ASSUME NEW u, UsageOK(u), NEW total \in Totals, NEW percent \in Percents
    PROVE  LET parts == Split(u, total, percent)
           IN  /\ parts.input + parts.created + parts.read = total
               /\ parts.created >= 0 /\ parts.read >= 0 /\ (total > 0 => parts.input >= 1)
               /\ parts.read * 100 <= total * percent
               /\ parts.created = Split(u, total, 100).created
               /\ (u.read = 0 => parts.read = 0)
               /\ LongPart(u, parts.created) \in 0 .. parts.created
               /\ (u.long = 0 => LongPart(u, parts.created) = 0)
  <1>1. total \in Nat /\ percent \in 0 .. 100 /\ 100 \in 0 .. 100 BY CacheAssumption
  <1> PICK parts : parts = Split(u, total, percent) OBVIOUS
  <1> PICK open : open = Split(u, total, 100) OBVIOUS
  <1>2. /\ PartsOK(parts, u, total) /\ parts.read * 100 <= total * percent
        /\ parts.created = IF u.covered = 0 THEN 0 ELSE Divided(u, total).created
    BY <1>1, SplitIs
  <1>3. open.created = IF u.covered = 0 THEN 0 ELSE Divided(u, total).created
    BY <1>1, SplitIs
  <1> PICK created \in Nat : created = parts.created /\ (u.read = u.covered => created = 0) BY <1>2 DEF PartsOK
  <1>4. LongPart(u, created) \in 0 .. created /\ (u.long = 0 => LongPart(u, created) = 0) BY LongPartIs
  <1>5. /\ parts.input + parts.created + parts.read = total /\ parts.created >= 0 /\ parts.read >= 0
        /\ (total > 0 => parts.input >= 1) /\ (u.read = 0 => parts.read = 0)
    BY <1>2 DEF PartsOK
  <1> QED BY <1>2, <1>3, <1>4, <1>5

-----------------------------------------------------------------------------
(* Who asks what.                                                           *)

(* Sessions and keys belong to one user; of the main key's users without a  *)
(* session, each begins in words of its own.                                *)
UsersApart ==
    \A s \in Setups : \A a, b \in s.asks :
        a.who.name # b.who.name =>
            /\ a.who.session # "" => ~(a.who.key = b.who.key /\ a.who.session = b.who.session)
            /\ a.who.session = "" /\ b.who.session = "" /\ a.who.key # 0 => a.who.key # b.who.key
            /\ a.who.session = "" /\ b.who.session = "" /\ a.who.key = 0 /\ b.who.key = 0 =>
                  Derived(a.what) # Derived(b.what)

LEMMA SeedsApart ==
    ASSUME NEW k, NEW l, NEW s, NEW t, NEW d, NEW e
    PROVE  /\ <<"session", k, s>> # <<"key", l>> /\ <<"session", k, s>> # <<"derived", e>>
           /\ <<"key", k>> # <<"derived", e>>
           /\ <<"session", k, s>> = <<"session", l, t>> => k = l /\ s = t
           /\ <<"key", k>> = <<"key", l>> => k = l
           /\ <<"derived", d>> = <<"derived", e>> => d = e
  OBVIOUS

LEMMA SeedsDiffer ==
    ASSUME UsersApart, NEW s \in Setups, NEW a \in s.asks, NEW b \in s.asks,
           SeedOf(a.who, a.what) = SeedOf(b.who, b.what)
    PROVE  a.who.name = b.who.name
  <1> DEFINE keyA == a.who.key
             keyB == b.who.key
             sessionA == a.who.session
             sessionB == b.who.session
             wordsA == Derived(a.what)
             wordsB == Derived(b.what)
  <1>1. /\ SeedOf(a.who, a.what) =
             IF sessionA # "" THEN <<"session", keyA, sessionA>>
             ELSE IF keyA # 0 THEN <<"key", keyA>> ELSE <<"derived", wordsA>>
        /\ SeedOf(b.who, b.what) =
             IF sessionB # "" THEN <<"session", keyB, sessionB>>
             ELSE IF keyB # 0 THEN <<"key", keyB>> ELSE <<"derived", wordsB>>
    BY DEF SeedOf
  <1>2. a.who.name # b.who.name =>
            /\ sessionA # "" => ~(keyA = keyB /\ sessionA = sessionB)
            /\ sessionA = "" /\ sessionB = "" /\ keyA # 0 => keyA # keyB
            /\ sessionA = "" /\ sessionB = "" /\ keyA = 0 /\ keyB = 0 => wordsA # wordsB
    BY DEF UsersApart
  <1> HIDE DEF keyA, keyB, sessionA, sessionB, wordsA, wordsB
  <1>3. /\ <<"session", keyA, sessionA>> # <<"key", keyB>>
        /\ <<"session", keyA, sessionA>> # <<"derived", wordsB>>
        /\ <<"key", keyA>> # <<"derived", wordsB>>
        /\ <<"session", keyA, sessionA>> = <<"session", keyB, sessionB>> => keyA = keyB /\ sessionA = sessionB
        /\ <<"key", keyA>> = <<"key", keyB>> => keyA = keyB
        /\ <<"derived", wordsA>> = <<"derived", wordsB>> => wordsA = wordsB
    BY SeedsApart
  <1>4. /\ <<"session", keyB, sessionB>> # <<"key", keyA>>
        /\ <<"session", keyB, sessionB>> # <<"derived", wordsA>>
        /\ <<"key", keyB>> # <<"derived", wordsA>>
    BY SeedsApart
  <1>5. IF sessionA # "" THEN sessionB # "" /\ keyA = keyB /\ sessionA = sessionB
        ELSE sessionB = "" /\ IF keyA # 0 THEN keyB # 0 /\ keyA = keyB ELSE keyB = 0 /\ wordsA = wordsB
    BY <1>1, <1>3, <1>4, Zenon
  <1> QED BY <1>2, <1>5

(* What an ask of the setup is like.                                        *)
AskBlocks(a) == PromptBlocks(a.what)
OwnPrefix(a, i) == <<a.who.name, a.what.model, Says(SubSeq(AskBlocks(a), 1, i))>>

(* The sizes of the blocks of a prompt.                                     *)
SizeOf(p) == [j \in DOMAIN PromptBlocks(p) |-> PromptBlocks(p)[j].tokens]

LEMMA TokensCount ==
    ASSUME NEW p, NEW n \in Nat, DOMAIN PromptBlocks(p) = 1 .. n, SizeOf(p) \in [1 .. n -> Nat], NEW i \in 0 .. n
    PROVE  TokensTo(p, i) = Cardinality(Units(SizeOf(p), 1 .. i))
  <1> DEFINE T == 1 .. i
             f == [j \in T |-> SizeOf(p)[j]]
             Is(g) == g = [s \in SUBSET T |->
                             IF s = {} THEN 0
                             ELSE PromptBlocks(p)[CHOOSE x \in s : TRUE].tokens + g[s \ {CHOOSE x \in s : TRUE}]]
  <1>0. i \in Nat /\ T \subseteq 1 .. n OBVIOUS
  <1>1. TokensTo(p, i) = (CHOOSE g : Is(g))[T] BY DEF TokensTo, MapThenSumSet, MapThenFoldSet
  <1>2. \A j \in T : f[j] = PromptBlocks(p)[j].tokens BY <1>0 DEF SizeOf
  <1>3. f \in [T -> Nat] BY <1>0
  <1>4. IsFiniteSet(T) BY <1>0, FS_Interval
  <1>5. Units(f, T) = Units(SizeOf(p), T) BY DEF Units
  <1> HIDE DEF T, f
  <1>6. \A g : Is(g) <=> SumIs(g, f, T)
    <2> TAKE g
    <2>1. \A s \in SUBSET T : s # {} => (CHOOSE x \in s : TRUE) \in T OBVIOUS
    <2>2. \A s \in SUBSET T : s # {} => PromptBlocks(p)[CHOOSE x \in s : TRUE].tokens = f[CHOOSE x \in s : TRUE]
      BY <1>2, <2>1
    <2>3. [s \in SUBSET T |->
                             IF s = {} THEN 0
                             ELSE PromptBlocks(p)[CHOOSE x \in s : TRUE].tokens + g[s \ {CHOOSE x \in s : TRUE}]]
         = [s \in SUBSET T |->
                             IF s = {} THEN 0
                             ELSE f[CHOOSE x \in s : TRUE] + g[s \ {CHOOSE x \in s : TRUE}]]
      BY <2>2
    <2> QED BY <2>3 DEF SumIs
  <1> HIDE DEF Is
  <1>7. PICK g : Is(g) BY <1>3, <1>4, <1>6, SumExists
  <1> PICK h : h = CHOOSE g1 : Is(g1) OBVIOUS
  <1>8. SumIs(h, f, T) BY <1>6, <1>7
  <1>9. h[T] = Cardinality(Units(f, T)) BY <1>3, <1>4, <1>8, SumCounts
  <1> QED BY <1>1, <1>5, <1>9 DEF T

LEMMA TokensGrow ==
    ASSUME NEW p, NEW n \in Nat, DOMAIN PromptBlocks(p) = 1 .. n, SizeOf(p) \in [1 .. n -> Nat],
           NEW i \in 0 .. n, NEW j \in 0 .. n, i <= j
    PROVE  TokensTo(p, i) \in Nat /\ TokensTo(p, j) \in Nat /\ TokensTo(p, i) <= TokensTo(p, j)
  <1> DEFINE f == SizeOf(p)
             I == 1 .. i
             J == 1 .. j
             T == 1 .. n
  <1>1. I \subseteq J /\ J \subseteq T /\ IsFiniteSet(T) BY FS_Interval
  <1>2. f \in [T -> Nat] OBVIOUS
  <1>3. TokensTo(p, i) = Cardinality(Units(f, I)) /\ TokensTo(p, j) = Cardinality(Units(f, J)) BY TokensCount
  <1> HIDE DEF f, I, J, T
  <1>4. /\ IsFiniteSet(Units(f, I)) /\ Cardinality(Units(f, I)) \in Nat
        /\ IsFiniteSet(Units(f, J)) /\ Cardinality(Units(f, J)) \in Nat
    BY <1>1, <1>2, UnitsFinite
  <1>5. Units(f, I) \subseteq Units(f, J) BY <1>1 DEF Units
  <1>6. Cardinality(Units(f, I)) <= Cardinality(Units(f, J)) BY <1>4, <1>5, FS_Subset
  <1> QED BY <1>3, <1>4, <1>6

LEMMA AskSizes ==
    ASSUME NEW s \in Setups, NEW a \in s.asks
    PROVE  /\ Len(AskBlocks(a)) \in Nat /\ DOMAIN AskBlocks(a) = 1 .. Len(AskBlocks(a))
           /\ SizeOf(a.what) \in [1 .. Len(AskBlocks(a)) -> Nat]
  <1> DEFINE blocks == AskBlocks(a)
  <1>1. blocks \in Seq(ToSet(blocks)) /\ \A i \in DOMAIN blocks : blocks[i].tokens \in Nat
    BY PromptsAssumption DEF AskBlocks
  <1>2. Len(blocks) \in Nat /\ DOMAIN blocks = 1 .. Len(blocks) BY <1>1
  <1> QED BY <1>1, <1>2 DEF SizeOf, AskBlocks

LEMMA SaysAgree ==
    ASSUME NEW X, NEW Y, X \in Seq(ToSet(X)), Y \in Seq(ToSet(Y)), NEW i \in DOMAIN X, NEW j \in DOMAIN Y,
           Says(SubSeq(X, 1, i)) = Says(SubSeq(Y, 1, j))
    PROVE  i = j /\ \A k \in 1 .. i : k \in DOMAIN X /\ k \in DOMAIN Y /\ X[k].says = Y[k].says
  <1> DEFINE a == SubSeq(X, 1, i)
             b == SubSeq(Y, 1, j)
  <1>1. i \in Nat /\ j \in Nat /\ i <= Len(X) /\ j <= Len(Y) OBVIOUS
  <1>2. DOMAIN a = 1 .. i /\ \A k \in 1 .. i : a[k] = X[k] BY <1>1
  <1>3. DOMAIN b = 1 .. j /\ \A k \in 1 .. j : b[k] = Y[k] BY <1>1
  <1> HIDE DEF a, b
  <1>4. DOMAIN Says(a) = 1 .. i /\ \A k \in 1 .. i : Says(a)[k] = X[k].says BY <1>2 DEF Says
  <1>5. DOMAIN Says(b) = 1 .. j /\ \A k \in 1 .. j : Says(b)[k] = Y[k].says BY <1>3 DEF Says
  <1>6. Says(a) = Says(b) BY DEF a, b
  <1>7. 1 .. i = 1 .. j BY <1>4, <1>5, <1>6
  <1>8. i = j BY <1>1, <1>7
  <1> QED BY <1>1, <1>4, <1>5, <1>6, <1>8

LEMMA AskedOK ==
    ASSUME NEW s \in Setups, NEW a \in s.asks
    PROVE  /\ Len(AskBlocks(a)) \in Nat /\ DOMAIN AskBlocks(a) = 1 .. Len(AskBlocks(a))
           /\ \A i \in DOMAIN Points(a.what) : Points(a.what)[i] \in {Short, Long}
           /\ \A i \in DOMAIN AskBlocks(a) : TokensTo(a.what, i) \in Nat
           /\ \A b \in s.asks : \A i \in DOMAIN AskBlocks(a), j \in DOMAIN AskBlocks(b) :
                 Says(SubSeq(AskBlocks(a), 1, i)) = Says(SubSeq(AskBlocks(b), 1, j))
                     => TokensTo(a.what, i) = TokensTo(b.what, j)
  <1> DEFINE n == Len(AskBlocks(a))
  <1>1. n \in Nat /\ DOMAIN AskBlocks(a) = 1 .. n /\ SizeOf(a.what) \in [1 .. n -> Nat] BY AskSizes
  <1> HIDE DEF n
  <1>2. \A i \in DOMAIN Points(a.what) : Points(a.what)[i] \in {Short, Long} BY PromptsAssumption
  <1>3. \A i \in DOMAIN AskBlocks(a) : TokensTo(a.what, i) \in Nat
    <2> TAKE i \in DOMAIN AskBlocks(a)
    <2>1. i \in 0 .. n BY <1>1
    <2> QED BY <1>1, <2>1, TokensGrow DEF AskBlocks
  <1>4. ASSUME NEW b \in s.asks, NEW i \in DOMAIN AskBlocks(a), NEW j \in DOMAIN AskBlocks(b),
               Says(SubSeq(AskBlocks(a), 1, i)) = Says(SubSeq(AskBlocks(b), 1, j))
        PROVE  TokensTo(a.what, i) = TokensTo(b.what, j)
    <2> PICK m : m = Len(AskBlocks(b)) OBVIOUS
    <2>1. m \in Nat /\ DOMAIN AskBlocks(b) = 1 .. m /\ SizeOf(b.what) \in [1 .. m -> Nat] BY AskSizes
    <2>2. AskBlocks(a) \in Seq(ToSet(AskBlocks(a))) /\ AskBlocks(b) \in Seq(ToSet(AskBlocks(b)))
      BY PromptsAssumption DEF AskBlocks
    <2> PICK X, Y : X = AskBlocks(a) /\ Y = AskBlocks(b) OBVIOUS
    <2>3. i = j /\ \A k \in 1 .. i : k \in DOMAIN X /\ k \in DOMAIN Y /\ X[k].says = Y[k].says
      BY <1>4, <2>2, SaysAgree
    <2>4. \A k \in 1 .. i : X[k].tokens = Y[k].tokens
      <3>1. \A x \in DOMAIN X, y \in DOMAIN Y : X[x].says = Y[y].says => X[x].tokens = Y[y].tokens
        <4>1. \A x \in DOMAIN PromptBlocks(a.what), y \in DOMAIN PromptBlocks(b.what) :
                 PromptBlocks(a.what)[x].says = PromptBlocks(b.what)[y].says
                     => PromptBlocks(a.what)[x].tokens = PromptBlocks(b.what)[y].tokens
          BY PromptsAssumption
        <4>2. X = PromptBlocks(a.what) /\ Y = PromptBlocks(b.what) BY DEF AskBlocks
        <4> QED BY <4>1, <4>2
      <3> QED BY <2>3, <3>1
    <2>5. TokensTo(a.what, i) = Cardinality(Units(SizeOf(a.what), 1 .. i))
      <3>1. i \in 0 .. n BY <1>1
      <3> QED BY <1>1, <3>1, TokensCount DEF AskBlocks
    <2>6. TokensTo(b.what, j) = Cardinality(Units(SizeOf(b.what), 1 .. j))
      <3>1. j \in 0 .. m BY <2>1
      <3> QED BY <2>1, <3>1, TokensCount DEF AskBlocks
    <2>7. \A k \in 1 .. i : SizeOf(a.what)[k] = SizeOf(b.what)[k]
      BY <2>3, <2>4 DEF SizeOf, AskBlocks
    <2>8. Units(SizeOf(a.what), 1 .. i) = Units(SizeOf(b.what), 1 .. i) BY <2>7 DEF Units
    <2> QED BY <2>3, <2>5, <2>6, <2>8
  <1> QED BY <1>1, <1>2, <1>3, <1>4 DEF n

LEMMA PointsInside ==
    ASSUME NEW p
    PROVE  /\ DOMAIN Points(p) \subseteq DOMAIN PromptBlocks(p)
           /\ Points(p) # <<>> => DOMAIN Points(p) # {}
  <1>1. \A dropped : DOMAIN Moved(PromptBlocks(p), dropped) = DOMAIN PromptBlocks(p)
    BY DEF Moved
  <1>2. \A blocks, auto : DOMAIN WithAuto(blocks, auto) = DOMAIN blocks
    BY DEF WithAuto
  <1>3. \A blocks, auto : \/ CheckedPoints(blocks, auto) = <<>>
                          \/ CheckedPoints(blocks, auto) = PointsOf(blocks)
    BY DEF CheckedPoints
  <1>4. \A dropped : \/ ResolvePoints(p, dropped) = <<>>
                     \/ \E blocks : /\ DOMAIN blocks = DOMAIN PromptBlocks(p)
                                    /\ ResolvePoints(p, dropped) = PointsOf(blocks)
    BY <1>1, <1>2, <1>3 DEF ResolvePoints
  <1>5. \A blocks : /\ DOMAIN PointsOf(blocks) \subseteq DOMAIN blocks
                    /\ DOMAIN PointsOf(blocks) = {} => PointsOf(blocks) = <<>>
    BY DEF PointsOf, Marked
  <1>6. \/ Points(p) = <<>>
        \/ \E blocks : DOMAIN blocks = DOMAIN PromptBlocks(p) /\ Points(p) = PointsOf(blocks)
    BY <1>4 DEF Points
  <1> QED BY <1>5, <1>6

(* Looking back stops at a block.                                           *)
LEMMA LooksAtBlocks ==
    ASSUME NEW p, NEW i \in Nat \ {0}
    PROVE  LookbackStart(p, i) \in 1 .. i
  <1> DEFINE T == {k \in 1 .. i : Positions(PromptBlocks(p), k, i) <= Lookback}
  <1>1. Positions(PromptBlocks(p), i, i) = 1
    <2>1. {j \in i + 1 .. i : ~SameGroup(PromptBlocks(p)[j - 1], PromptBlocks(p)[j])} = {}
      OBVIOUS
    <2> QED BY <2>1, FS_EmptySet DEF Positions
  <1>2. i \in T
    BY <1>1, CacheAssumption
  <1>3. T \in SUBSET Nat /\ T # {}
    BY <1>2
  <1>4. Min(T) \in T
    BY <1>3, LeastOf
  <1> QED BY <1>4 DEF LookbackStart

-----------------------------------------------------------------------------
(* Tables of what was asked, and walks through them.                        *)

\* Somebody's own prefix, written.
WroteOwn(a, i, tokens, written) ==
    i \in DOMAIN AskBlocks(a) /\ tokens = TokensTo(a.what, i) /\ OwnPrefix(a, i) \in written
Honest(h, tokens, written) ==
    \E a \in setup.asks : \E i \in DOMAIN AskBlocks(a) :
        h = Prefix(a.who, a.what, i) /\ WroteOwn(a, i, tokens, written)

TableOK(table, written) ==
    \A h \in DOMAIN table :
        /\ table[h] \in [tokens : Nat, ttl : {Short, Long}, expires : Nat]
        /\ Honest(h, table[h].tokens, written)

TablesOK ==
    /\ TableOK(entries, wrote) /\ TableOK(shared, wrote) /\ TableOK(disk, wrote)
    /\ \A table \in flushing : TableOK(table, wrote)

\* What a request reads is its own; of users who are not apart, only a number.
ReadOK(a, read) ==
    /\ read \in Nat
    /\ UsersApart /\ read > 0 => \E i \in DOMAIN AskBlocks(a) : WroteOwn(a, i, read, wrote)

WalkRecord ==
    [pc : {"look", "record"}, user : {a.who : a \in setup.asks}, prompt : {a.what : a \in setup.asks},
     points : {Points(a.what) : a \in setup.asks}, left : SUBSET Nat, at : Nat, reason : Misses,
     read : Nat]

WalkOf(m, a) ==
    /\ m.user = a.who /\ m.prompt = a.what /\ m.points = Points(a.what)
    /\ m.left \subseteq DOMAIN m.points /\ m.left # {}
    /\ m.pc = "look" => m.at \in DOMAIN AskBlocks(a)
    /\ ReadOK(a, m.read)

DoneOf(m, a) == m.user = a.who /\ m.prompt = a.what /\ ReadOK(a, m.usage.read)

MeterOK(m) ==
    /\ m.pc \in {"idle", "look", "record", "done"}
    /\ m.pc \in {"look", "record"} => m \in WalkRecord /\ \E a \in setup.asks : WalkOf(m, a)
    /\ m.pc = "done" => \E a \in setup.asks : DoneOf(m, a)

MetersOK == DOMAIN meter = Meters /\ \A r \in Meters : MeterOK(meter[r])

TallyRecord == [hits : Nat, misses : Nat, expired : Nat, evicted : Nat, absent : Nat, nopoint : Nat]
TallyOK ==
    /\ tally \in TallyRecord
    /\ tally.misses = tally.expired + tally.evicted + tally.absent + tally.nopoint

CacheInv ==
    /\ setup \in Setups /\ clock \in Nat /\ CacheFits /\ TombsOK(entries, tombs)
    /\ TablesOK /\ MetersOK /\ TallyOK

-----------------------------------------------------------------------------
(* What stays true while more is written.                                   *)

LEMMA MoreWritten ==
    ASSUME wrote \subseteq wrote'
    PROVE  /\ \A table : TableOK(table, wrote) => TableOK(table, wrote')
           /\ \A h, tokens : Honest(h, tokens, wrote) => Honest(h, tokens, wrote')
  BY DEF TableOK, Honest, WroteOwn

LEMMA PointOK ==
    ASSUME setup \in Setups, NEW a \in setup.asks, NEW left \in SUBSET DOMAIN Points(a.what), left # {}
    PROVE  /\ Min(left) \in left /\ Min(left) \in DOMAIN AskBlocks(a) /\ Min(left) \in Nat \ {0}
           /\ Points(a.what)[Min(left)] \in {Short, Long} /\ TokensTo(a.what, Min(left)) \in Nat
  <1>1. DOMAIN AskBlocks(a) = 1 .. Len(AskBlocks(a)) /\ Len(AskBlocks(a)) \in Nat
    BY AskedOK
  <1>2. left \subseteq DOMAIN AskBlocks(a)
    BY PointsInside DEF AskBlocks
  <1>3. left \in SUBSET Nat
    BY <1>1, <1>2
  <1>4. Min(left) \in left
    BY <1>3, LeastOf
  <1> DEFINE i == Min(left)
  <1>5. i \in left /\ i \in DOMAIN Points(a.what) /\ i \in DOMAIN AskBlocks(a) /\ i \in Nat \ {0}
    BY <1>1, <1>2, <1>4
  <1> HIDE DEF i
  <1>6. Points(a.what)[i] \in {Short, Long} /\ TokensTo(a.what, i) \in Nat
    BY <1>5, AskedOK
  <1> QED BY <1>5, <1>6 DEF i

(* The walk goes on from breakpoint to breakpoint.                          *)
LEMMA LookingOK ==
    ASSUME CacheInv, NEW a \in setup.asks, NEW m \in WalkRecord, m.user = a.who, m.prompt = a.what,
           m.points = Points(a.what), DOMAIN m.points # {}, ReadOK(a, m.read), m.pc = "look",
           NEW left \in SUBSET DOMAIN m.points
    PROVE  MeterOK(Looking(m, left))
  <1>1. DOMAIN m.points \subseteq DOMAIN AskBlocks(a) /\ DOMAIN AskBlocks(a) \subseteq Nat
    BY AskedOK, PointsInside DEF CacheInv, AskBlocks
  <1>2. CASE left = {}
    <2> DEFINE k == [m EXCEPT !.pc = "record", !.left = DOMAIN m.points]
    <2>1. /\ k \in WalkRecord /\ k.pc = "record" /\ k.user = m.user /\ k.prompt = m.prompt
          /\ k.points = m.points /\ k.left = DOMAIN m.points /\ k.read = m.read
      BY <1>1 DEF WalkRecord
    <2> HIDE DEF k
    <2>2. WalkOf(k, a)
      BY <2>1 DEF WalkOf
    <2>3. MeterOK(k)
      BY <2>1, <2>2 DEF MeterOK
    <2> QED BY <1>2, <2>3 DEF Looking, k
  <1>3. CASE left # {}
    <2> DEFINE k == [m EXCEPT !.left = left, !.at = Min(left), !.reason = "absent"]
    <2>1. Min(left) \in DOMAIN AskBlocks(a) /\ Min(left) \in Nat
      BY <1>3, PointOK DEF CacheInv
    <2>2. /\ k \in WalkRecord /\ k.pc = "look" /\ k.user = m.user /\ k.prompt = m.prompt
          /\ k.points = m.points /\ k.left = left /\ k.at = Min(left) /\ k.read = m.read
      BY <1>1, <2>1 DEF WalkRecord, Misses
    <2> HIDE DEF k
    <2>3. WalkOf(k, a)
      BY <1>3, <2>1, <2>2 DEF WalkOf
    <2>4. MeterOK(k)
      BY <2>2, <2>3 DEF MeterOK
    <2> QED BY <1>3, <2>4 DEF Looking, k
  <1> QED BY <1>2, <1>3

(* A hit is on the asker's own prefix: whoever wrote it says the same to    *)
(* the same model from the same seed.                                       *)
LEMMA HitIsOwn ==
    ASSUME UsersApart, CacheInv, NEW a \in setup.asks, NEW i \in DOMAIN AskBlocks(a), NEW tokens,
           Honest(Prefix(a.who, a.what, i), tokens, wrote)
    PROVE  WroteOwn(a, i, tokens, wrote)
  <1>1. PICK b \in setup.asks : \E j \in DOMAIN AskBlocks(b) :
           Prefix(a.who, a.what, i) = Prefix(b.who, b.what, j) /\ WroteOwn(b, j, tokens, wrote)
    BY DEF Honest
  <1>2. PICK j \in DOMAIN AskBlocks(b) :
           Prefix(a.who, a.what, i) = Prefix(b.who, b.what, j) /\ WroteOwn(b, j, tokens, wrote)
    BY <1>1
  <1> DEFINE saysA == Says(SubSeq(AskBlocks(a), 1, i))
             saysB == Says(SubSeq(AskBlocks(b), 1, j))
  <1>3. <<SeedOf(a.who, a.what), a.what.model, saysA>> = <<SeedOf(b.who, b.what), b.what.model, saysB>>
    BY <1>2 DEF Prefix, AskBlocks
  <1> HIDE DEF saysA, saysB
  <1>4. SeedOf(a.who, a.what) = SeedOf(b.who, b.what) /\ a.what.model = b.what.model /\ saysA = saysB
    BY <1>3
  <1>5. a.who.name = b.who.name
    BY <1>4, SeedsDiffer DEF CacheInv
  <1>6. TokensTo(a.what, i) = TokensTo(b.what, j)
    BY <1>4, AskedOK DEF saysA, saysB, CacheInv
  <1>7. OwnPrefix(a, i) = OwnPrefix(b, j)
    BY <1>4, <1>5 DEF OwnPrefix, saysA, saysB
  <1> QED BY <1>2, <1>6, <1>7 DEF WroteOwn

-----------------------------------------------------------------------------
(* The parts of the invariant a step may leave alone.                       *)

LEMMA TablesStay ==
    ASSUME UNCHANGED setup, TableOK(entries', wrote'), TableOK(shared', wrote'), TableOK(disk', wrote'),
           \A table \in flushing' : TableOK(table, wrote')
    PROVE  TablesOK'
  BY DEF TablesOK, TableOK, Honest, WroteOwn

LEMMA TablesRest ==
    ASSUME TablesOK, wrote \subseteq wrote', UNCHANGED <<shared, disk, flushing, setup>>
    PROVE  /\ TableOK(shared', wrote') /\ TableOK(disk', wrote')
           /\ \A table \in flushing' : TableOK(table, wrote')
  BY MoreWritten DEF TablesOK

LEMMA MeterStays ==
    ASSUME wrote \subseteq wrote', UNCHANGED setup
    PROVE  \A m : MeterOK(m) => MeterOK(m)'
  <1>1. \A a, read : ReadOK(a, read) => ReadOK(a, read)'
    BY DEF ReadOK, WroteOwn
  <1> QED BY <1>1 DEF MeterOK, WalkRecord, WalkOf, DoneOf

LEMMA MeterMoves ==
    ASSUME MetersOK, wrote \subseteq wrote', UNCHANGED setup, NEW r \in Meters, NEW k, MeterOK(k),
           meter' = [meter EXCEPT ![r] = k]
    PROVE  MetersOK'
  <1>1. /\ DOMAIN meter' = Meters
        /\ \A q \in Meters : meter'[q] = IF q = r THEN k ELSE meter[q]
    BY DEF MetersOK
  <1>2. \A q \in Meters : MeterOK(meter[q])'
    <2> TAKE q \in Meters
    <2>1. CASE q = r
      <3>1. meter'[q] = k
        BY <1>1, <2>1
      <3>2. MeterOK(k)'
        BY MeterStays
      <3> QED BY <3>1, <3>2 DEF MeterOK, WalkRecord, WalkOf, DoneOf
    <2>2. CASE q # r
      <3>1. meter'[q] = meter[q] /\ MeterOK(meter[q])
        BY <1>1, <2>2 DEF MetersOK
      <3>2. PICK m : m = meter[q]
        OBVIOUS
      <3>3. MeterOK(m)' /\ meter'[q] = m
        BY <3>1, <3>2, MeterStays
      <3> QED BY <3>3 DEF MeterOK, WalkRecord, WalkOf, DoneOf
    <2> QED BY <2>1, <2>2
  <1> QED BY <1>1, <1>2 DEF MetersOK

LEMMA MetersRest ==
    ASSUME MetersOK, wrote \subseteq wrote', UNCHANGED <<meter, setup>>
    PROVE  MetersOK'
  <1>1. \A m : MeterOK(m) => MeterOK(m)'
    BY MeterStays
  <1> QED BY <1>1 DEF MetersOK

LEMMA CountOne ==
    ASSUME NEW t \in TallyRecord
    PROVE  /\ [t EXCEPT !.misses = @ + 1, !.nopoint = @ + 1] \in TallyRecord
           /\ [t EXCEPT !.misses = @ + 1, !.expired = @ + 1] \in TallyRecord
           /\ [t EXCEPT !.misses = @ + 1, !.evicted = @ + 1] \in TallyRecord
           /\ [t EXCEPT !.misses = @ + 1, !.absent = @ + 1] \in TallyRecord
  <1> DEFINE missed == [t EXCEPT !.misses = @ + 1]
  <1>1. missed \in TallyRecord
    BY DEF TallyRecord
  <1> HIDE DEF missed
  <1>2. /\ [missed EXCEPT !.nopoint = @ + 1] \in TallyRecord
        /\ [missed EXCEPT !.expired = @ + 1] \in TallyRecord
        /\ [missed EXCEPT !.evicted = @ + 1] \in TallyRecord
        /\ [missed EXCEPT !.absent = @ + 1] \in TallyRecord
    BY <1>1 DEF TallyRecord
  <1>3. /\ [t EXCEPT !.misses = @ + 1, !.nopoint = @ + 1] = [missed EXCEPT !.nopoint = @ + 1]
        /\ [t EXCEPT !.misses = @ + 1, !.expired = @ + 1] = [missed EXCEPT !.expired = @ + 1]
        /\ [t EXCEPT !.misses = @ + 1, !.evicted = @ + 1] = [missed EXCEPT !.evicted = @ + 1]
        /\ [t EXCEPT !.misses = @ + 1, !.absent = @ + 1] = [missed EXCEPT !.absent = @ + 1]
    BY DEF missed, TallyRecord
  <1> QED BY <1>2, <1>3

LEMMA Counts ==
    ASSUME TallyOK, NEW reason \in Misses \cup {"hit", "nopoint"}, tally' = Counted(reason)
    PROVE  TallyOK'
  <1>1. CASE reason = "hit"
    <2>1. tally' = [tally EXCEPT !.hits = @ + 1]
      BY <1>1 DEF Counted
    <2> QED BY <2>1 DEF TallyOK, TallyRecord
  <1>2. CASE reason = "nopoint"
    <2>1. tally' = [tally EXCEPT !.misses = @ + 1, !.nopoint = @ + 1]
      BY <1>2 DEF Counted
    <2>2. /\ tally'.misses = tally.misses + 1 /\ tally'.nopoint = tally.nopoint + 1
          /\ tally'.expired = tally.expired /\ tally'.evicted = tally.evicted /\ tally'.absent = tally.absent
      BY <2>1 DEF TallyOK, TallyRecord
    <2>3. tally' \in TallyRecord
      BY <2>1, CountOne DEF TallyOK
    <2> QED BY <2>2, <2>3 DEF TallyOK, TallyRecord
  <1>3. CASE reason = "expired"
    <2>1. tally' = [tally EXCEPT !.misses = @ + 1, !.expired = @ + 1]
      BY <1>3 DEF Counted
    <2>2. /\ tally'.misses = tally.misses + 1 /\ tally'.expired = tally.expired + 1
          /\ tally'.evicted = tally.evicted /\ tally'.absent = tally.absent /\ tally'.nopoint = tally.nopoint
      BY <2>1 DEF TallyOK, TallyRecord
    <2>3. tally' \in TallyRecord
      BY <2>1, CountOne DEF TallyOK
    <2> QED BY <2>2, <2>3 DEF TallyOK, TallyRecord
  <1>4. CASE reason = "evicted"
    <2>1. tally' = [tally EXCEPT !.misses = @ + 1, !.evicted = @ + 1]
      BY <1>4 DEF Counted
    <2>2. /\ tally'.misses = tally.misses + 1 /\ tally'.evicted = tally.evicted + 1
          /\ tally'.expired = tally.expired /\ tally'.absent = tally.absent /\ tally'.nopoint = tally.nopoint
      BY <2>1 DEF TallyOK, TallyRecord
    <2>3. tally' \in TallyRecord
      BY <2>1, CountOne DEF TallyOK
    <2> QED BY <2>2, <2>3 DEF TallyOK, TallyRecord
  <1>5. CASE reason = "absent"
    <2>1. tally' = [tally EXCEPT !.misses = @ + 1, !.absent = @ + 1]
      BY <1>5 DEF Counted
    <2>2. /\ tally'.misses = tally.misses + 1 /\ tally'.absent = tally.absent + 1
          /\ tally'.expired = tally.expired /\ tally'.evicted = tally.evicted /\ tally'.nopoint = tally.nopoint
      BY <2>1 DEF TallyOK, TallyRecord
    <2>3. tally' \in TallyRecord
      BY <2>1, CountOne DEF TallyOK
    <2> QED BY <2>2, <2>3 DEF TallyOK, TallyRecord
  <1> QED BY <1>1, <1>2, <1>3, <1>4, <1>5 DEF Misses

LEMMA AskKeepsMeters ==
    ASSUME CacheInv, NEW r \in Meters, NEW a \in setup.asks, AskUsage(r, a.who, a.what)
    PROVE  MetersOK' /\ TallyOK'
  <1>1. wrote \subseteq wrote' /\ UNCHANGED <<setup, wrote>>
    BY DEF AskUsage
  <1>2. CASE AskUncached(r, a.what)
    <2>1. UNCHANGED meter /\ tally' = Counted("nopoint")
      BY <1>2 DEF AskUncached
    <2> QED BY <1>1, <2>1, MetersRest, Counts DEF CacheInv
  <1>3. CASE AskCached(r, a.who, a.what)
    <2> DEFINE p == Points(a.what)
               m == [pc |-> "look", user |-> a.who, prompt |-> a.what, points |-> p, left |-> {},
                     at |-> 0, reason |-> "absent", read |-> 0]
    <2>1. m \in WalkRecord
      BY DEF WalkRecord, Misses
    <2>2. DOMAIN p # {}
      BY <1>3, PointsInside DEF AskCached
    <2>3. ReadOK(a, 0)
      BY DEF ReadOK
    <2>4. MeterOK(Looking(m, DOMAIN p))
      BY <2>1, <2>2, <2>3, LookingOK
    <2> DEFINE k == NewWalk(a.who, a.what, p)
    <2>5. MeterOK(k)
      BY <2>4 DEF NewWalk
    <2>6. meter' = [meter EXCEPT ![r] = k] /\ UNCHANGED tally
      BY <1>3 DEF AskCached
    <2> HIDE DEF k
    <2>7. MetersOK'
      BY <1>1, <2>5, <2>6, MeterMoves DEF CacheInv
    <2> QED BY <2>6, <2>7 DEF CacheInv, TallyOK
  <1> QED BY <1>2, <1>3 DEF AskUsage

LEMMA LargerOf ==
    ASSUME NEW i \in Nat, NEW j \in Nat
    PROVE  Max({i, j}) \in {i, j}
  <1>1. \E x \in {i, j} : \A y \in {i, j} : x >= y
    OBVIOUS
  <1> QED BY <1>1 DEF Max

(* Where a walk stands.                                                     *)
LEMMA WalkStands ==
    ASSUME CacheInv, NEW r \in Meters, meter[r].pc \in {"look", "record"}
    PROVE  /\ meter[r] \in WalkRecord
           /\ \E a \in setup.asks :
                 /\ WalkOf(meter[r], a)
                 /\ meter[r].left \subseteq DOMAIN Points(a.what)
                 /\ At(meter[r]) = Prefix(a.who, a.what, meter[r].at)
  BY DEF CacheInv, MetersOK, MeterOK, WalkOf, At

LEMMA FindKeepsMeters ==
    ASSUME CacheInv, NEW r \in Meters, meter[r].pc = "look", NEW tokens \in Nat,
           Honest(At(meter[r]), tokens, wrote), Found(r, tokens), UNCHANGED <<setup, wrote>>
    PROVE  MetersOK' /\ TallyOK'
  <1> DEFINE m == meter[r]
  <1>1. PICK a \in setup.asks : /\ WalkOf(m, a) /\ m.left \subseteq DOMAIN Points(a.what)
                                /\ At(m) = Prefix(a.who, a.what, m.at)
    BY WalkStands
  <1>2. m \in WalkRecord
    BY WalkStands
  <1>3. UsersApart => WroteOwn(a, m.at, tokens, wrote)
    BY <1>1, HitIsOwn DEF WalkOf
  <1> DEFINE larger == Max({m.read, tokens})
             n == [m EXCEPT !.read = larger]
             k == Looking(n, Later(n.left))
  <1>4. larger \in {m.read, tokens} /\ m.read \in Nat
    BY <1>1, LargerOf DEF WalkOf, ReadOK
  <1>5. ReadOK(a, larger)
    BY <1>1, <1>3, <1>4 DEF WalkOf, ReadOK, WroteOwn
  <1> HIDE DEF larger
  <1>6. /\ n \in WalkRecord /\ n.user = m.user /\ n.prompt = m.prompt /\ n.points = m.points
        /\ n.read = larger /\ n.pc = m.pc /\ n.left = m.left
    BY <1>2, <1>4 DEF WalkRecord
  <1>7. Later(n.left) \subseteq DOMAIN n.points /\ DOMAIN n.points # {}
    BY <1>1, <1>6 DEF WalkOf, Later
  <1>8. MeterOK(k)
    <2> HIDE DEF n
    <2> QED BY <1>1, <1>5, <1>6, <1>7, LookingOK DEF WalkOf
  <1>9. meter' = [meter EXCEPT ![r] = k] /\ tally' = Counted("hit")
    BY DEF Found, larger
  <1> HIDE DEF k
  <1>10. MetersOK'
    BY <1>8, <1>9, MeterMoves DEF CacheInv
  <1> QED BY <1>9, <1>10, Counts DEF CacheInv

LEMMA MissKeepsMeters ==
    ASSUME CacheInv, NEW r \in Meters, ProbeMiss(r)
    PROVE  MetersOK' /\ TallyOK'
  <1> DEFINE m == meter[r]
             least == Min(m.left)
  <1>1. PICK a \in setup.asks : /\ WalkOf(m, a) /\ m.left \subseteq DOMAIN Points(a.what)
                                /\ At(m) = Prefix(a.who, a.what, m.at)
    BY WalkStands DEF ProbeMiss
  <1>2. m \in WalkRecord /\ m.pc = "look" /\ Outcome(At(m)) # "hit"
    BY WalkStands DEF ProbeMiss
  <1>3. Reason(m) \in Misses
    <2>1. Outcome(At(m)) \in Misses
      BY <1>2 DEF Outcome, Misses, CacheInv, TombsOK
    <2> QED BY <1>2, <2>1 DEF Reason, WalkRecord
  <1>4. UNCHANGED <<setup, wrote>>
    BY DEF ProbeMiss
  <1>5. least \in Nat \ {0}
    BY <1>1, PointOK DEF CacheInv, WalkOf
  <1>6. LookbackStart(m.prompt, least) \in 1 .. least
    BY <1>5, LooksAtBlocks
  <1>7. CASE m.at > LookbackStart(m.prompt, least)
    <2> DEFINE why == Reason(m)
               k == [m EXCEPT !.at = @ - 1, !.reason = why]
    <2>1. meter' = [meter EXCEPT ![r] = k] /\ UNCHANGED tally
      BY <1>7 DEF ProbeMiss, CacheInv, MetersOK
    <2> HIDE DEF why
    <2>2. why \in Misses
      BY <1>3 DEF why
    <2>3. m.at - 1 \in DOMAIN AskBlocks(a) /\ m.at - 1 \in Nat
      <3>1. m.at \in 1 .. Len(AskBlocks(a)) /\ DOMAIN AskBlocks(a) = 1 .. Len(AskBlocks(a)) /\ Len(AskBlocks(a)) \in Nat
        BY <1>1, <1>2, AskedOK DEF WalkOf, CacheInv
      <3> HIDE DEF m, least
      <3> QED BY <1>5, <1>6, <1>7, <3>1
    <2>4. /\ k \in WalkRecord /\ k.pc = m.pc /\ k.user = m.user /\ k.prompt = m.prompt
          /\ k.points = m.points /\ k.left = m.left /\ k.at = m.at - 1 /\ k.read = m.read
      BY <1>2, <2>2, <2>3 DEF WalkRecord
    <2> HIDE DEF k
    <2>5. WalkOf(k, a)
      BY <1>1, <2>3, <2>4 DEF WalkOf
    <2>6. MeterOK(k)
      BY <1>2, <2>4, <2>5 DEF MeterOK
    <2>7. MetersOK'
      BY <1>4, <2>1, <2>6, MeterMoves DEF CacheInv
    <2> QED BY <2>1, <2>7 DEF CacheInv, TallyOK
  <1>8. CASE ~(m.at > LookbackStart(m.prompt, least))
    <2> DEFINE k == Looking(m, Later(m.left))
    <2>1. meter' = [meter EXCEPT ![r] = k] /\ tally' = Counted(Reason(m))
      BY <1>8 DEF ProbeMiss, CacheInv, MetersOK
    <2>2. Later(m.left) \subseteq DOMAIN m.points /\ DOMAIN m.points # {}
      BY <1>1 DEF WalkOf, Later
    <2>3. MeterOK(k)
      BY <1>1, <1>2, <2>2, LookingOK DEF WalkOf
    <2> HIDE DEF k
    <2>4. MetersOK'
      BY <1>4, <2>1, <2>3, MeterMoves DEF CacheInv
    <2> QED BY <1>3, <2>1, <2>4, Counts DEF CacheInv
  <1> QED BY <1>7, <1>8

-----------------------------------------------------------------------------
(* A table after an entry was written.                                      *)

LEMMA EntryOK ==
    ASSUME clock \in Nat, NEW tokens \in Nat, NEW ttl \in {Short, Long}
    PROVE  /\ Entry(tokens, ttl) \in [tokens : Nat, ttl : {Short, Long}, expires : Nat]
           /\ Entry(tokens, ttl).tokens = tokens
  BY CacheAssumption DEF Entry

LEMMA RecordsOK ==
    ASSUME CacheInv, NEW p, NEW tokens \in Nat, NEW ttl \in {Short, Long},
           Honest(p, tokens, wrote'), wrote \subseteq wrote', Install(Recorded(p, tokens, ttl))
    PROVE  TombsOK(entries', tombs') /\ TableOK(entries', wrote')
  <1>1. PICK x \in Recorded(p, tokens, ttl) : entries' = x.entries /\ tombs' = x.tombs
    BY DEF Install
  <1>2. /\ TombsOK(x.entries, x.tombs)
        /\ \A h \in DOMAIN x.entries :
              \/ h = p /\ x.entries[h] = Entry(tokens, ttl)
              \/ h \in DOMAIN entries /\ x.entries[h] = entries[h]
    BY RecordTidies DEF CacheInv, CacheFits
  <1>3. /\ Entry(tokens, ttl) \in [tokens : Nat, ttl : {Short, Long}, expires : Nat]
        /\ Entry(tokens, ttl).tokens = tokens
    BY EntryOK DEF CacheInv
  <1>4. TableOK(entries, wrote')
    BY MoreWritten DEF CacheInv, TablesOK
  <1>5. TableOK(x.entries, wrote')
    BY <1>2, <1>3, <1>4 DEF TableOK
  <1> QED BY <1>1, <1>2, <1>5

LEMMA WritesOK ==
    ASSUME NEW table, NEW written, TableOK(table, written), clock \in Nat,
           NEW h, NEW tokens \in Nat, NEW ttl \in {Short, Long}, Honest(h, tokens, written)
    PROVE  TableOK(Written(table, h, tokens, ttl), written)
  <1>1. /\ Entry(tokens, ttl) \in [tokens : Nat, ttl : {Short, Long}, expires : Nat]
        /\ Entry(tokens, ttl).tokens = tokens
    BY EntryOK
  <1>2. /\ DOMAIN Written(table, h, tokens, ttl) = DOMAIN table \cup {h}
        /\ \A g \in DOMAIN Written(table, h, tokens, ttl) :
             Written(table, h, tokens, ttl)[g] = IF g = h THEN Entry(tokens, ttl) ELSE table[g]
    BY DEF Written
  <1> QED BY <1>1, <1>2 DEF TableOK

LEMMA ProbeSharedKeeps ==
    ASSUME CacheInv, NEW r \in Meters, ProbeShared(r)
    PROVE  TombsOK(entries', tombs') /\ TablesOK' /\ MetersOK' /\ TallyOK'
  <1> DEFINE h == At(meter[r])
             tokens == shared[h].tokens
             ttl == meter[r].points[Min(meter[r].left)]
  <1>1. PICK a \in setup.asks : WalkOf(meter[r], a) /\ meter[r].left \subseteq DOMAIN Points(a.what)
    BY WalkStands DEF ProbeShared
  <1>2. ttl \in {Short, Long}
    BY <1>1, PointOK DEF WalkOf, CacheInv
  <1>3. h \in DOMAIN shared
    BY DEF ProbeShared, AliveIn
  <1>4. tokens \in Nat /\ Honest(h, tokens, wrote)
    BY <1>3 DEF CacheInv, TablesOK, TableOK
  <1>5. /\ UNCHANGED <<shared, disk, flushing, wrote, setup>> /\ meter[r].pc = "look"
        /\ Install(Recorded(h, tokens, ttl)) /\ Found(r, tokens)
    BY DEF ProbeShared
  <1>6. MetersOK' /\ TallyOK'
    BY <1>4, <1>5, FindKeepsMeters
  <1>7. TombsOK(entries', tombs') /\ TableOK(entries', wrote')
    BY <1>2, <1>4, <1>5, RecordsOK
  <1> QED BY <1>5, <1>6, <1>7, TablesRest, TablesStay DEF CacheInv

LEMMA ProbeHitKeeps ==
    ASSUME CacheInv, NEW r \in Meters, ProbeHit(r)
    PROVE  TombsOK(entries', tombs') /\ TablesOK' /\ MetersOK' /\ TallyOK'
  <1> DEFINE h == At(meter[r])
             tokens == entries[h].tokens
             ttl == entries[h].ttl
  <1>1. h \in DOMAIN entries
    BY DEF ProbeHit, Outcome, AliveIn, CacheInv, TombsOK, Misses
  <1>2. entries[h] \in [tokens : Nat, ttl : {Short, Long}, expires : Nat] /\ Honest(h, tokens, wrote)
    BY <1>1 DEF CacheInv, TablesOK, TableOK
  <1>3. /\ UNCHANGED <<tombs, shared, disk, flushing, wrote, setup>> /\ meter[r].pc = "look"
        /\ entries' = [entries EXCEPT ![h] = Entry(tokens, ttl)] /\ Found(r, tokens)
    BY DEF ProbeHit
  <1>4. MetersOK' /\ TallyOK'
    BY <1>2, <1>3, FindKeepsMeters
  <1>5. /\ DOMAIN entries' = DOMAIN entries
        /\ \A g \in DOMAIN entries : entries'[g] = IF g = h THEN Entry(tokens, ttl) ELSE entries[g]
    BY <1>3
  <1>6. /\ Entry(tokens, ttl) \in [tokens : Nat, ttl : {Short, Long}, expires : Nat]
        /\ Entry(tokens, ttl).tokens = tokens
    BY <1>2, EntryOK DEF CacheInv
  <1>7. TableOK(entries', wrote')
    <2>1. TableOK(entries, wrote')
      BY <1>3 DEF CacheInv, TablesOK
    <2> HIDE DEF h, tokens, ttl
    <2> QED BY <1>2, <1>3, <1>5, <1>6, <2>1 DEF TableOK
  <1>8. TombsOK(entries', tombs')
    BY <1>3, <1>5 DEF CacheInv, TombsOK
  <1> QED BY <1>3, <1>4, <1>7, <1>8, TablesRest, TablesStay DEF CacheInv

-----------------------------------------------------------------------------
LEMMA RecordPointKeeps ==
    ASSUME CacheInv, NEW r \in Meters, RecordPoint(r)
    PROVE  TombsOK(entries', tombs') /\ TablesOK' /\ MetersOK' /\ TallyOK'
  <1> DEFINE m == meter[r]
             i == Min(m.left)
             h == Prefix(m.user, m.prompt, i)
             tokens == TokensTo(m.prompt, i)
             ttl == m.points[i]
             own == <<m.user.name, m.prompt.model, Says(SubSeq(PromptBlocks(m.prompt), 1, i))>>
  <1>1. PICK a \in setup.asks : WalkOf(m, a) /\ m.left \subseteq DOMAIN Points(a.what)
    BY WalkStands DEF RecordPoint
  <1>2. m \in WalkRecord /\ m.pc = "record" /\ m.left \subseteq DOMAIN m.points
    BY <1>1, WalkStands DEF RecordPoint, WalkOf
  <1>3. /\ ttl \in {Short, Long} /\ tokens \in Nat /\ i \in DOMAIN AskBlocks(a) /\ own = OwnPrefix(a, i)
        /\ h = Prefix(a.who, a.what, i) /\ tokens = TokensTo(a.what, i)
    BY <1>1, PointOK DEF WalkOf, CacheInv, OwnPrefix, AskBlocks
  <1>4. /\ Install(Recorded(h, tokens, ttl)) /\ wrote' = wrote \cup {own}
        /\ shared' \in {shared, Written(shared, h, tokens, ttl)}
        /\ meter' = [meter EXCEPT ![r] = Wrote(m)]
        /\ UNCHANGED <<disk, flushing, tally, setup>>
    BY DEF RecordPoint
  <1>5. Honest(h, tokens, wrote')
    BY <1>3, <1>4 DEF Honest, WroteOwn
  <1>6. TombsOK(entries', tombs') /\ TableOK(entries', wrote')
    BY <1>3, <1>4, <1>5, RecordsOK
  <1>7. TableOK(shared, wrote') /\ TableOK(disk, wrote') /\ \A t \in flushing : TableOK(t, wrote')
    BY <1>4, MoreWritten DEF CacheInv, TablesOK
  <1>8. TableOK(shared', wrote')
    BY <1>3, <1>4, <1>5, <1>7, WritesOK DEF CacheInv
  <1>9. TablesOK'
    BY <1>4, <1>6, <1>7, <1>8, TablesStay
  <1>10. MeterOK(Wrote(m))
    <2>1. CASE Later(m.left) # {}
      <3> DEFINE later == Later(m.left)
                 k == [m EXCEPT !.left = later]
      <3>1. later \subseteq m.left /\ Wrote(m) = k
        BY <2>1 DEF Later, Wrote
      <3> HIDE DEF later
      <3>2. /\ k \in WalkRecord /\ k.pc = m.pc /\ k.user = m.user /\ k.prompt = m.prompt
            /\ k.points = m.points /\ k.left = later /\ k.read = m.read
        BY <1>2, <3>1 DEF WalkRecord
      <3> HIDE DEF k
      <3>3. later # {}
        BY <2>1 DEF later
      <3>4. WalkOf(k, a)
        BY <1>1, <1>2, <3>1, <3>2, <3>3 DEF WalkOf
      <3> QED BY <1>2, <3>1, <3>2, <3>4 DEF MeterOK
    <2>2. CASE ~(Later(m.left) # {})
      <3>1. Wrote(m) = [pc |-> "done", user |-> m.user, prompt |-> m.prompt, usage |-> Usage(m)]
        BY <2>2 DEF Wrote
      <3>2. Usage(m).read = m.read
        BY DEF Usage
      <3>3. DoneOf(Wrote(m), a) /\ Wrote(m).pc = "done"
        BY <1>1, <3>1, <3>2 DEF DoneOf, WalkOf
      <3> QED BY <3>3 DEF MeterOK
    <2> QED BY <2>1, <2>2
  <1>11. MetersOK'
    BY <1>4, <1>10, MeterMoves DEF CacheInv
  <1> QED BY <1>4, <1>6, <1>9, <1>11 DEF CacheInv, TallyOK

LEMMA SweepKeeps ==
    ASSUME CacheInv, Sweep
    PROVE  TombsOK(entries', tombs') /\ TablesOK' /\ MetersOK' /\ TallyOK'
  <1>1. PICK x \in ShrinkAbove(Capacity, ExpireRecords(entries, tombs)) :
          entries' = x.entries /\ tombs' = x.tombs
    BY DEF Sweep, Install
  <1>2. UNCHANGED <<shared, disk, flushing, meter, tally, wrote, setup>>
    BY DEF Sweep
  <1>3. TombsOK(entries', tombs')
    BY <1>1, SweepTidies DEF CacheInv, CacheFits, Within
  <1>4. TableOK(x.entries, wrote)
    BY SweepThins DEF CacheInv, TablesOK, TableOK, Thinned
  <1>5. TablesOK'
    BY <1>1, <1>2, <1>4, TablesRest, TablesStay DEF CacheInv
  <1> QED BY <1>2, <1>3, <1>5, MetersRest DEF CacheInv, TallyOK

LEMMA NothingOK == ASSUME NEW written PROVE TableOK(NoEntries, written)
  <1>1. DOMAIN NoEntries = {}
    BY DEF NoEntries
  <1> QED BY <1>1 DEF TableOK

LEMMA HousekeepingKeeps ==
    ASSUME CacheInv, Flush \/ Flushed \/ Restart \/ Second \/ UNCHANGED cacheVars
    PROVE  TombsOK(entries', tombs') /\ TablesOK' /\ MetersOK' /\ TallyOK'
  <1>0. /\ TombsOK(entries, tombs) /\ MetersOK /\ TallyOK /\ TableOK(entries, wrote)
        /\ TableOK(shared, wrote) /\ TableOK(disk, wrote) /\ \A t \in flushing : TableOK(t, wrote)
    BY DEF CacheInv, TablesOK
  <1>1. UNCHANGED <<shared, wrote, setup>>
    BY DEF Flush, Flushed, Restart, Second, cacheVars
  <1>2. disk' \in flushing \cup {disk, NoEntries} /\ flushing' \subseteq flushing \cup {entries}
    BY DEF Flush, Flushed, Restart, Second, cacheVars
  <1>3. CASE ~Restart
    <2>1. UNCHANGED <<entries, tombs, meter, tally>>
      BY <1>3 DEF Flush, Flushed, Second, cacheVars
    <2>2. MetersOK' /\ TallyOK'
      BY <1>0, <1>1, <2>1, MetersRest DEF TallyOK
    <2>3. TablesOK'
      BY <1>0, <1>1, <1>2, <2>1, NothingOK, TablesStay
    <2> QED BY <1>0, <2>1, <2>2, <2>3
  <1>4. CASE Restart
    <2>1. /\ entries' = KeepOf(disk', AliveIn(disk')) /\ tombs' = NoEntries
          /\ meter' = [r \in Meters |-> Unmetered] /\ tally' = NoTally /\ clock' = clock
      BY <1>4 DEF Restart
    <2> DEFINE from == disk'
    <2>2. TableOK(from, wrote)
      BY <1>0, <1>2, NothingOK
    <2>3. TableOK(KeepOf(from, AliveIn(from)), wrote)
      <3>1. AliveIn(from) \subseteq DOMAIN from
        BY DEF AliveIn
      <3> HIDE DEF from
      <3> QED BY <2>2, <3>1 DEF KeepOf, TableOK
    <2>4. TablesOK'
      BY <1>0, <1>1, <1>2, <2>1, <2>2, <2>3, TablesStay
    <2>5. MetersOK'
      <3>1. MeterOK(Unmetered)
        BY DEF Unmetered, MeterOK
      <3>2. MeterOK(Unmetered)'
        BY <1>1, <3>1, MeterStays
      <3> QED BY <2>1, <3>2 DEF MetersOK, Unmetered
    <2>6. TallyOK'
      BY <2>1 DEF TallyOK, TallyRecord, NoTally
    <2>7. TombsOK(entries', tombs')
      <3>1. DOMAIN tombs' = {}
        BY <2>1 DEF NoEntries
      <3> QED BY <3>1, FS_EmptySet, CacheAssumption DEF TombsOK
    <2> QED BY <2>4, <2>5, <2>6, <2>7
  <1> QED BY <1>3, <1>4

LEMMA CacheInvStarts == CacheInit => CacheInv
  <1> SUFFICES ASSUME CacheInit PROVE CacheInv
    OBVIOUS
  <1>1. CacheFits
    BY CacheStarts
  <1>2. TombsOK(entries, tombs)
    <2>1. DOMAIN tombs = {}
      BY DEF CacheInit, NoEntries
    <2> QED BY <2>1, FS_EmptySet, CacheAssumption DEF TombsOK
  <1>3. TablesOK
    BY NothingOK DEF CacheInit, TablesOK
  <1>4. MetersOK
    BY DEF CacheInit, MetersOK, MeterOK, Unmetered
  <1>5. TallyOK
    BY DEF CacheInit, TallyOK, TallyRecord, NoTally
  <1> QED BY <1>1, <1>2, <1>3, <1>4, <1>5 DEF CacheInv, CacheInit

LEMMA CacheInvStep == CacheInv /\ [CacheNext]_cacheVars => CacheInv'
  <1> SUFFICES ASSUME CacheInv, [CacheNext]_cacheVars PROVE CacheInv'
    OBVIOUS
  <1>1. CacheFits'
    BY CacheStep DEF CacheInv
  <1>2. ASSUME NEW r \in Meters, NEW a \in setup.asks, AskUsage(r, a.who, a.what)
        PROVE  TombsOK(entries', tombs') /\ TablesOK' /\ MetersOK' /\ TallyOK'
    <2>1. UNCHANGED <<entries, tombs, shared, disk, flushing, wrote, setup>>
      BY <1>2 DEF AskUsage
    <2>2. TablesOK'
      BY <2>1, TablesRest, TablesStay DEF CacheInv, TablesOK
    <2> QED BY <1>2, <2>1, <2>2, AskKeepsMeters DEF CacheInv
  <1>3. ASSUME NEW r \in Meters, ProbeMiss(r)
        PROVE  TombsOK(entries', tombs') /\ TablesOK' /\ MetersOK' /\ TallyOK'
    <2>1. UNCHANGED <<entries, tombs, shared, disk, flushing, wrote, setup>>
      BY <1>3 DEF ProbeMiss
    <2>2. TablesOK'
      BY <2>1, TablesRest, TablesStay DEF CacheInv, TablesOK
    <2> QED BY <1>3, <2>1, <2>2, MissKeepsMeters DEF CacheInv
  <1>4. ASSUME NEW r \in Meters, ProbeShared(r) \/ ProbeHit(r) \/ RecordPoint(r)
        PROVE  TombsOK(entries', tombs') /\ TablesOK' /\ MetersOK' /\ TallyOK'
    BY <1>4, ProbeSharedKeeps, ProbeHitKeeps, RecordPointKeeps
  <1>5. ASSUME Sweep \/ Flush \/ Flushed \/ Restart \/ Second \/ UNCHANGED cacheVars
        PROVE  TombsOK(entries', tombs') /\ TablesOK' /\ MetersOK' /\ TallyOK'
    BY <1>5, SweepKeeps, HousekeepingKeeps
  <1>6. TombsOK(entries', tombs') /\ TablesOK' /\ MetersOK' /\ TallyOK'
    BY <1>2, <1>3, <1>4, <1>5 DEF CacheNext
  <1>7. TombsOK(entries, tombs)'
    BY <1>6 DEF TombsOK
  <1>8. setup' = setup /\ clock' \in Nat
    <2>1. clock \in Nat
      BY DEF CacheInv
    <2>2. setup' = setup /\ clock' \in {clock, clock + 1}
      BY DEF CacheNext, cacheVars, AskUsage, ProbeShared, ProbeHit, ProbeMiss, RecordPoint, Sweep,
             Flush, Flushed, Restart, Second
    <2> QED BY <2>1, <2>2
  <1> QED BY <1>1, <1>6, <1>7, <1>8 DEF CacheInv

LEMMA CacheBounded == CacheInv => TableBounded
  BY DEF CacheInv, CacheFits, Within, TombsOK, TallyOK, TableBounded

(* However large the table, whoever asks, in whatever order, with walks      *)
(* under way at the same time: the table keeps its limit and the tombstones *)
(* theirs, nothing is both there and gone, and every miss has one reason    *)
(* (record_entry, note_tombstone, note_lookup).                             *)
THEOREM TableStaysBounded == CacheSpec => []TableBounded
  BY CacheInvStarts, CacheInvStep, CacheBounded, PTL DEF CacheSpec

(* Where sessions and keys belong to one user and the users of the main key *)
(* begin in words of their own: what is reported as read was written by the *)
(* same user for the same model, whatever else is renewed, evicted, shared  *)
(* or reloaded meanwhile (isolation_seed, compute_cache_usage).             *)
THEOREM HitsAreOwn ==
    ASSUME UsersApart
    PROVE  Spec => []HitsOwnPrefix
  <1>1. CacheInv => HitsOwnPrefix
    <2> SUFFICES ASSUME CacheInv, NEW r \in Meters, meter[r].pc = "done", meter[r].usage.read > 0
                 PROVE  \E i \in DOMAIN PromptBlocks(meter[r].prompt) :
                          /\ TokensTo(meter[r].prompt, i) = meter[r].usage.read
                          /\ <<meter[r].user.name, meter[r].prompt.model,
                               Says(SubSeq(PromptBlocks(meter[r].prompt), 1, i))>> \in wrote
      BY DEF HitsOwnPrefix
    <2>1. PICK a \in setup.asks : DoneOf(meter[r], a)
      BY DEF CacheInv, MetersOK, MeterOK
    <2>2. PICK i \in DOMAIN AskBlocks(a) : WroteOwn(a, i, meter[r].usage.read, wrote)
      BY <2>1 DEF DoneOf, ReadOK
    <2> QED BY <2>1, <2>2 DEF DoneOf, WroteOwn, OwnPrefix, AskBlocks
  <1>2. Init => CacheInv
    BY CacheInvStarts DEF Init
  <1>3. CacheInv /\ [Next]_<<part, convertVars, cacheVars, affinityVars, modelVars, clientVars>> => CacheInv'
    BY PartsStep, CacheInvStep
  <1> QED BY <1>1, <1>2, <1>3, PTL DEF Spec

-----------------------------------------------------------------------------
(* How far a walk may have read, and what is reported at its end.           *)

LEMMA GreatestOf ==
    ASSUME NEW n \in Nat, NEW Ends \in SUBSET (0 .. n), Ends # {}
    PROVE  Max(Ends) \in Ends /\ \A y \in Ends : y <= Max(Ends)
  <1> DEFINE T == {n - y : y \in Ends}
  <1>1. T \in SUBSET Nat /\ T # {}
    <2>1. ASSUME NEW x \in T PROVE x \in Nat
      <3> PICK y \in Ends : x = n - y OBVIOUS
      <3>1. y \in 0 .. n OBVIOUS
      <3> QED BY <3>1
    <2>2. T # {} OBVIOUS
    <2> QED BY <2>1, <2>2
  <1>2. Min(T) \in T /\ \A y \in T : Min(T) <= y BY <1>1, LeastOf
  <1> PICK x \in Ends : Min(T) = n - x BY <1>2
  <1>3. \A y \in Ends : x >= y
    <2> TAKE y \in Ends
    <2>1. n - y \in T OBVIOUS
    <2>2. n - x <= n - y BY <1>2, <2>1
    <2>3. x \in Nat /\ y \in Nat OBVIOUS
    <2> QED BY <2>2, <2>3
  <1>4. Max(Ends) \in Ends /\ \A y \in Ends : Max(Ends) >= y BY <1>3 DEF Max
  <1> QED BY <1>4

(* What a walk has read fits one of the breakpoints.                        *)
LooksOK(m) ==
    /\ m.pc = "look" => m.at <= Min(m.left)
    /\ m.pc \in {"look", "record"} =>
          m.read = 0 \/ \E i \in DOMAIN m.points : m.read <= TokensTo(m.prompt, i)
    /\ m.pc = "done" => UsageOK(m.usage)

LooksAllOK == \A r \in Meters : LooksOK(meter[r])

LEMMA PrefixSizes ==
    ASSUME CacheInv, NEW a \in setup.asks, NEW i \in DOMAIN AskBlocks(a), NEW tokens,
           Honest(Prefix(a.who, a.what, i), tokens, wrote)
    PROVE  tokens = TokensTo(a.what, i)
  <1>1. PICK b \in setup.asks : \E j \in DOMAIN AskBlocks(b) :
           Prefix(a.who, a.what, i) = Prefix(b.who, b.what, j) /\ WroteOwn(b, j, tokens, wrote)
    BY DEF Honest
  <1>2. PICK j \in DOMAIN AskBlocks(b) :
           Prefix(a.who, a.what, i) = Prefix(b.who, b.what, j) /\ WroteOwn(b, j, tokens, wrote)
    BY <1>1
  <1> DEFINE saysA == Says(SubSeq(AskBlocks(a), 1, i))
             saysB == Says(SubSeq(AskBlocks(b), 1, j))
  <1>3. <<SeedOf(a.who, a.what), a.what.model, saysA>> = <<SeedOf(b.who, b.what), b.what.model, saysB>>
    BY <1>2 DEF Prefix, AskBlocks
  <1> HIDE DEF saysA, saysB
  <1>4. saysA = saysB
    BY <1>3
  <1>5. TokensTo(a.what, i) = TokensTo(b.what, j)
    BY <1>4, AskedOK DEF saysA, saysB, CacheInv
  <1> QED BY <1>2, <1>5 DEF WroteOwn

LEMMA AskGrows ==
    ASSUME setup \in Setups, NEW a \in setup.asks, NEW i \in DOMAIN AskBlocks(a), NEW j \in DOMAIN AskBlocks(a), i <= j
    PROVE  /\ TokensTo(a.what, i) \in Nat /\ TokensTo(a.what, j) \in Nat
           /\ TokensTo(a.what, i) <= TokensTo(a.what, j)
  <1> DEFINE n == Len(AskBlocks(a))
  <1>1. n \in Nat /\ DOMAIN AskBlocks(a) = 1 .. n /\ SizeOf(a.what) \in [1 .. n -> Nat] BY AskSizes
  <1> HIDE DEF n
  <1>2. i \in 0 .. n /\ j \in 0 .. n BY <1>1
  <1> QED BY <1>1, <1>2, TokensGrow DEF AskBlocks

LEMMA LookingLooks ==
    ASSUME NEW m \in WalkRecord, m.pc = "look", NEW left,
           m.read = 0 \/ \E i \in DOMAIN m.points : m.read <= TokensTo(m.prompt, i),
           left # {} => Min(left) \in Nat
    PROVE  LooksOK(Looking(m, left))
  <1>1. CASE left = {}
    <2> DEFINE k == [m EXCEPT !.pc = "record", !.left = DOMAIN m.points]
    <2>1. k.pc = "record" /\ k.points = m.points /\ k.prompt = m.prompt /\ k.read = m.read
      BY DEF WalkRecord
    <2> HIDE DEF k
    <2>2. LooksOK(k) BY <2>1 DEF LooksOK
    <2> QED BY <1>1, <2>2 DEF Looking, k
  <1>2. CASE left # {}
    <2> DEFINE k == [m EXCEPT !.left = left, !.at = Min(left), !.reason = "absent"]
    <2>1. /\ k.pc = "look" /\ k.points = m.points /\ k.prompt = m.prompt /\ k.read = m.read
          /\ k.left = left /\ k.at = Min(left)
      BY DEF WalkRecord
    <2> HIDE DEF k
    <2>2. LooksOK(k) BY <1>2, <2>1 DEF LooksOK
    <2> QED BY <1>2, <2>2 DEF Looking, k
  <1> QED BY <1>1, <1>2

LEMMA LaterPoints ==
    ASSUME CacheInv, NEW a \in setup.asks, NEW left \in SUBSET DOMAIN Points(a.what)
    PROVE  left # {} => Min(left) \in Nat
  BY PointOK DEF CacheInv

LEMMA LooksMove ==
    ASSUME CacheInv, LooksAllOK, NEW r \in Meters, NEW k, LooksOK(k), meter' = [meter EXCEPT ![r] = k]
    PROVE  LooksAllOK'
  <1>1. \A q \in Meters : meter'[q] = IF q = r THEN k ELSE meter[q] BY DEF CacheInv, MetersOK
  <1> QED BY <1>1 DEF LooksAllOK, LooksOK, UsageOK

LEMMA AskLooks ==
    ASSUME CacheInv, LooksAllOK, NEW r \in Meters, NEW a \in setup.asks, AskUsage(r, a.who, a.what)
    PROVE  LooksAllOK'
  <1>1. CASE AskUncached(r, a.what)
    <2>1. meter' = meter BY <1>1 DEF AskUncached
    <2> QED BY <2>1 DEF LooksAllOK, LooksOK, UsageOK
  <1>2. CASE AskCached(r, a.who, a.what)
    <2> DEFINE p == Points(a.what)
               m == [pc |-> "look", user |-> a.who, prompt |-> a.what, points |-> p, left |-> {},
                     at |-> 0, reason |-> "absent", read |-> 0]
    <2>1. m \in WalkRecord BY DEF WalkRecord, Misses
    <2>2. DOMAIN p # {} => Min(DOMAIN p) \in Nat BY LaterPoints
    <2>3. m.pc = "look" /\ m.read = 0 OBVIOUS
    <2> PICK n : n = m OBVIOUS
    <2>4. LooksOK(Looking(n, DOMAIN p)) 
      <3> HIDE DEF m, p
      <3> QED BY <2>1, <2>2, <2>3, LookingLooks
    <2> PICK k : k = NewWalk(a.who, a.what, p) OBVIOUS
    <2>5. LooksOK(k) BY <2>4 DEF NewWalk
    <2>6. meter' = [meter EXCEPT ![r] = k] BY <1>2 DEF AskCached
    <2> QED BY <2>5, <2>6, LooksMove
  <1> QED BY <1>1, <1>2 DEF AskUsage

LEMMA FindLooks ==
    ASSUME CacheInv, LooksAllOK, NEW r \in Meters, meter[r].pc = "look", NEW tokens \in Nat,
           Honest(At(meter[r]), tokens, wrote), Found(r, tokens)
    PROVE  LooksAllOK'
  <1> PICK m : m = meter[r] OBVIOUS
  <1>1. PICK a \in setup.asks : /\ WalkOf(m, a) /\ m.left \subseteq DOMAIN Points(a.what)
                                /\ At(m) = Prefix(a.who, a.what, m.at)
    BY WalkStands
  <1>2. m \in WalkRecord /\ m.pc = "look" /\ LooksOK(m)
    BY WalkStands DEF LooksAllOK
  <1>3. m.at \in DOMAIN AskBlocks(a) /\ m.left # {} /\ m.points = Points(a.what) /\ m.prompt = a.what /\ m.read \in Nat
    BY <1>1, <1>2 DEF WalkOf, ReadOK
  <1> PICK i : i = Min(m.left) OBVIOUS
  <1>4. i \in DOMAIN m.points /\ i \in DOMAIN AskBlocks(a) BY <1>1, <1>3, PointOK DEF CacheInv
  <1>5. tokens <= TokensTo(m.prompt, i)
    <2>1. tokens = TokensTo(a.what, m.at) BY <1>1, <1>3, PrefixSizes
    <2>2. m.at <= i BY <1>2 DEF LooksOK
    <2> QED BY <1>3, <1>4, <2>1, <2>2, AskGrows DEF CacheInv
  <1> PICK larger : larger = Max({m.read, tokens}) OBVIOUS
  <1>6. larger \in {m.read, tokens} BY <1>3, LargerOf
  <1> DEFINE n == [m EXCEPT !.read = larger]
  <1>7. /\ n \in WalkRecord /\ n.prompt = m.prompt /\ n.points = m.points
        /\ n.read = larger /\ n.pc = "look" /\ n.left = m.left
    BY <1>2, <1>3, <1>6 DEF WalkRecord
  <1> PICK left : left = Later(n.left) OBVIOUS
  <1>8. left # {} => Min(left) \in Nat
    <2>1. left \in SUBSET DOMAIN Points(a.what) BY <1>1, <1>7 DEF Later
    <2> QED BY <2>1, LaterPoints
  <1>9. n.read = 0 \/ \E j \in DOMAIN n.points : n.read <= TokensTo(n.prompt, j)
    <2>1. m.read = 0 \/ \E j \in DOMAIN m.points : m.read <= TokensTo(m.prompt, j) BY <1>2 DEF LooksOK
    <2> QED BY <1>4, <1>5, <1>6, <1>7, <2>1
  <1> HIDE DEF n
  <1> PICK k : k = Looking(n, left) OBVIOUS
  <1>10. LooksOK(k) BY <1>7, <1>8, <1>9, LookingLooks
  <1>11. meter' = [meter EXCEPT ![r] = k] BY DEF Found, n
  <1> QED BY <1>10, <1>11, LooksMove

LEMMA MissLooks ==
    ASSUME CacheInv, LooksAllOK, NEW r \in Meters, ProbeMiss(r)
    PROVE  LooksAllOK'
  <1> PICK m : m = meter[r] OBVIOUS
  <1>1. PICK a \in setup.asks : WalkOf(m, a) /\ m.left \subseteq DOMAIN Points(a.what)
    BY WalkStands DEF ProbeMiss
  <1>2. m \in WalkRecord /\ m.pc = "look" /\ LooksOK(m)
    BY WalkStands DEF ProbeMiss, LooksAllOK
  <1>3. m.read = 0 \/ \E j \in DOMAIN m.points : m.read <= TokensTo(m.prompt, j) BY <1>2 DEF LooksOK
  <1>4. Min(m.left) \in Nat BY <1>1, PointOK DEF CacheInv, WalkOf
  <1>5. CASE m.at > LookbackStart(m.prompt, Min(m.left))
    <2> PICK why : why = Reason(m) OBVIOUS
    <2> DEFINE k == [m EXCEPT !.at = @ - 1, !.reason = why]
    <2>1. meter' = [meter EXCEPT ![r] = k]
      BY <1>5 DEF ProbeMiss, CacheInv, MetersOK
    <2>2. /\ k.pc = "look" /\ k.points = m.points /\ k.prompt = m.prompt /\ k.read = m.read
          /\ k.left = m.left /\ k.at = m.at - 1 /\ m.at \in Nat
      BY <1>2 DEF WalkRecord
    <2> HIDE DEF k
    <2>3. k.at <= Min(k.left) BY <1>2, <1>4, <2>2 DEF LooksOK
    <2>4. LooksOK(k) BY <1>3, <2>2, <2>3 DEF LooksOK
    <2> QED BY <2>1, <2>4, LooksMove
  <1>6. CASE ~(m.at > LookbackStart(m.prompt, Min(m.left)))
    <2> PICK left : left = Later(m.left) OBVIOUS
    <2>1. left # {} => Min(left) \in Nat
      <3>1. left \in SUBSET DOMAIN Points(a.what) BY <1>1 DEF Later
      <3> QED BY <3>1, LaterPoints
    <2> PICK k : k = Looking(m, left) OBVIOUS
    <2>2. LooksOK(k) BY <1>2, <1>3, <2>1, LookingLooks
    <2>3. meter' = [meter EXCEPT ![r] = k] BY <1>6 DEF ProbeMiss, CacheInv, MetersOK
    <2> QED BY <2>2, <2>3, LooksMove
  <1> QED BY <1>5, <1>6

(* What is reported when all breakpoints are written.                       *)
LEMMA UsageIs ==
    ASSUME CacheInv, NEW a \in setup.asks, NEW m \in WalkRecord, WalkOf(m, a), m.pc = "record", LooksOK(m)
    PROVE  UsageOK(Usage(m))
  <1>1. m.prompt = a.what /\ m.points = Points(a.what) /\ m.read \in Nat /\ DOMAIN m.points # {}
    BY DEF WalkOf, ReadOK
  <1> PICK n : n = Len(AskBlocks(a)) OBVIOUS
  <1>2. n \in Nat /\ DOMAIN AskBlocks(a) = 1 .. n /\ DOMAIN m.points \subseteq 1 .. n /\ n \in DOMAIN AskBlocks(a)
    <2>1. n \in Nat /\ DOMAIN AskBlocks(a) = 1 .. n BY AskedOK DEF CacheInv
    <2>2. DOMAIN m.points \subseteq 1 .. n BY <1>1, <2>1, PointsInside DEF AskBlocks
    <2> QED BY <1>1, <2>1, <2>2
  <1> PICK whole : whole = TokensTo(m.prompt, Len(PromptBlocks(m.prompt))) OBVIOUS
  <1>3. whole \in Nat /\ \A i \in DOMAIN m.points : TokensTo(m.prompt, i) \in Nat /\ TokensTo(m.prompt, i) <= whole
    <2>1. whole = TokensTo(a.what, n) BY <1>1 DEF AskBlocks
    <2>2. whole \in Nat BY <1>2, <2>1, AskedOK DEF CacheInv
    <2>3. ASSUME NEW i \in DOMAIN m.points PROVE TokensTo(m.prompt, i) \in Nat /\ TokensTo(m.prompt, i) <= whole
      <3>1. i \in DOMAIN AskBlocks(a) /\ i <= n BY <1>2
      <3> QED BY <1>1, <1>2, <2>1, <3>1, AskGrows DEF CacheInv
    <2> QED BY <2>2, <2>3
  <1> PICK w \in Nat : w = whole BY <1>3
  <1> PICK Ends : Ends = Sizes(m, {Short, Long}) OBVIOUS
  <1>4. Ends = {TokensTo(m.prompt, i) : i \in DOMAIN m.points}
    <2>1. \A i \in DOMAIN m.points : m.points[i] \in {Short, Long} BY <1>1, AskedOK DEF CacheInv
    <2> QED BY <2>1 DEF Sizes
  <1>5. Ends \in SUBSET (0 .. w) /\ Ends # {}
    <2>1. ASSUME NEW y \in Ends PROVE y \in 0 .. w
      <3>1. PICK i \in DOMAIN m.points : y = TokensTo(m.prompt, i) BY <1>4
      <3> QED BY <1>3, <3>1
    <2>2. Ends # {} BY <1>1, <1>4
    <2> QED BY <2>1, <2>2
  <1> PICK covered : covered = Max(Ends) OBVIOUS
  <1>6. covered \in Nat /\ covered <= whole /\ \A y \in Ends : y <= covered
    <2>1. Max(Ends) \in Ends /\ \A y \in Ends : y <= Max(Ends) BY <1>5, GreatestOf
    <2>2. covered \in Ends /\ \A y \in Ends : y <= covered BY <2>1
    <2>3. covered \in 0 .. w BY <1>5, <2>2
    <2>4. covered \in Nat /\ covered <= w BY <2>3
    <2> QED BY <2>2, <2>4
  <1>7. m.read <= covered
    <2>1. m.read = 0 \/ \E i \in DOMAIN m.points : m.read <= TokensTo(m.prompt, i) BY DEF LooksOK
    <2>2. ASSUME NEW i \in DOMAIN m.points, m.read <= TokensTo(m.prompt, i) PROVE m.read <= covered
      <3>1. TokensTo(m.prompt, i) \in Ends /\ TokensTo(m.prompt, i) \in Nat BY <1>3, <1>4
      <3> PICK y \in Nat : y = TokensTo(m.prompt, i) BY <3>1
      <3>2. y <= covered /\ m.read <= y BY <1>6, <2>2, <3>1
      <3> PICK x \in Nat, c \in Nat : x = m.read /\ c = covered BY <1>1, <1>6
      <3> QED BY <3>2
    <2>3. CASE m.read = 0 BY <1>6, <2>3
    <2> QED BY <2>1, <2>2, <2>3
  <1> PICK longest : longest = Max(Sizes(m, {Long}) \cup {0}) OBVIOUS
  <1>8. longest \in Nat
    <2> PICK L : L = Sizes(m, {Long}) \cup {0} OBVIOUS
    <2>1. L \in SUBSET (0 .. w) /\ L # {}
      <3>1. ASSUME NEW y \in L PROVE y \in 0 .. w
        <4>1. CASE y = 0 BY <4>1
        <4>2. CASE y # 0
          <5>1. PICK i \in DOMAIN m.points : y = TokensTo(m.prompt, i) BY <4>2 DEF Sizes
          <5> QED BY <1>3, <5>1
        <4> QED BY <4>1, <4>2
      <3> QED BY <3>1
    <2>2. Max(L) \in L BY <2>1, GreatestOf
    <2>3. longest \in L BY <2>2
    <2>4. longest \in 0 .. w BY <2>1, <2>3
    <2> QED BY <2>4
  <1> PICK long : long = Max({0, longest - m.read}) OBVIOUS
  <1>9. long \in Nat
    <2> PICK d \in Int : d = longest - m.read BY <1>1, <1>8
    <2>1. \E x \in {0, d} : \A y \in {0, d} : x >= y OBVIOUS
    <2>2. Max({0, d}) \in {0, d} /\ Max({0, d}) >= 0 BY <2>1 DEF Max
    <2> QED BY <2>2
  <1>10. Usage(m) = [read |-> m.read, covered |-> covered, whole |-> whole, long |-> long] BY DEF Usage
  <1> QED BY <1>1, <1>3, <1>6, <1>7, <1>9, <1>10 DEF UsageOK

LEMMA RecordLooks ==
    ASSUME CacheInv, LooksAllOK, NEW r \in Meters, RecordPoint(r)
    PROVE  LooksAllOK'
  <1> PICK m : m = meter[r] OBVIOUS
  <1>1. PICK a \in setup.asks : WalkOf(m, a) BY WalkStands DEF RecordPoint
  <1>2. m \in WalkRecord /\ m.pc = "record" /\ LooksOK(m) BY WalkStands DEF RecordPoint, LooksAllOK
  <1>3. LooksOK(Wrote(m))
    <2>1. CASE Later(m.left) # {}
      <3> PICK later : later = Later(m.left) OBVIOUS
      <3> PICK k : k = [m EXCEPT !.left = later] OBVIOUS
      <3>1. k = Wrote(m) BY <2>1 DEF Wrote
      <3>2. k.pc = "record" /\ k.points = m.points /\ k.prompt = m.prompt /\ k.read = m.read
        BY <1>2 DEF WalkRecord
      <3>3. LooksOK(k) BY <1>2, <3>2 DEF LooksOK
      <3> QED BY <3>1, <3>3
    <2>2. CASE ~(Later(m.left) # {})
      <3> PICK u : u = Usage(m) OBVIOUS
      <3>1. Wrote(m) = [pc |-> "done", user |-> m.user, prompt |-> m.prompt, usage |-> u] BY <2>2 DEF Wrote
      <3>2. UsageOK(u) BY <1>1, <1>2, UsageIs
      <3> QED BY <3>1, <3>2 DEF LooksOK
    <2> QED BY <2>1, <2>2
  <1> PICK k : k = Wrote(m) OBVIOUS
  <1>4. meter' = [meter EXCEPT ![r] = k] BY DEF RecordPoint
  <1> QED BY <1>3, <1>4, LooksMove

LEMMA LooksStep ==
    ASSUME CacheInv, LooksAllOK, [CacheNext]_cacheVars
    PROVE  LooksAllOK'
  <1>1. ASSUME NEW r \in Meters, ProbeShared(r) PROVE LooksAllOK'
    <2> PICK h : h = At(meter[r]) OBVIOUS
    <2> PICK tokens : tokens = shared[h].tokens OBVIOUS
    <2>1. h \in DOMAIN shared BY <1>1 DEF ProbeShared, AliveIn
    <2>2. tokens \in Nat /\ Honest(h, tokens, wrote) BY <2>1 DEF CacheInv, TablesOK, TableOK
    <2>3. meter[r].pc = "look" /\ Found(r, tokens) BY <1>1 DEF ProbeShared
    <2> QED BY <2>2, <2>3, FindLooks
  <1>2. ASSUME NEW r \in Meters, ProbeHit(r) PROVE LooksAllOK'
    <2> PICK h : h = At(meter[r]) OBVIOUS
    <2> PICK tokens : tokens = entries[h].tokens OBVIOUS
    <2>1. h \in DOMAIN entries BY <1>2 DEF ProbeHit, Outcome, AliveIn, CacheInv, TombsOK, Misses
    <2>2. tokens \in Nat /\ Honest(h, tokens, wrote) BY <2>1 DEF CacheInv, TablesOK, TableOK
    <2>3. meter[r].pc = "look" /\ Found(r, tokens) BY <1>2 DEF ProbeHit
    <2> QED BY <2>2, <2>3, FindLooks
  <1>3. CASE Restart
    <2>1. meter' = [r \in Meters |-> Unmetered] BY <1>3 DEF Restart
    <2> QED BY <2>1 DEF LooksAllOK, LooksOK, Unmetered
  <1>4. CASE Sweep \/ Flush \/ Flushed \/ Second \/ UNCHANGED cacheVars
    <2>1. meter' = meter BY <1>4 DEF Sweep, Flush, Flushed, Second, cacheVars
    <2> QED BY <2>1 DEF LooksAllOK, LooksOK, UsageOK
  <1> QED BY <1>1, <1>2, <1>3, <1>4, AskLooks, MissLooks, RecordLooks DEF CacheNext

-----------------------------------------------------------------------------
(* The lookups that are left, and those that are counted.                   *)

(* The lookups that the requests m still have before them.                  *)
LeftOf(m) == [q \in Meters |-> Remaining(m[q])]
Looks(m) == Cardinality(Units(LeftOf(m), Meters))

(* All but one the same.                                                    *)
OneMoved(m, n, r) ==
    /\ \A q \in Meters : Remaining(m[q]) \in Nat
    /\ Remaining(n[r]) \in Nat /\ \A q \in Meters : q # r => Remaining(n[q]) = Remaining(m[q])

LEMMA LooksMoved ==
    ASSUME NEW m, NEW n, NEW r \in Meters, OneMoved(m, n, r)
    PROVE  /\ Looks(m) \in Nat /\ Looks(n) \in Nat
           /\ Looks(n) + Remaining(m[r]) = Looks(m) + Remaining(n[r])
  <1> PICK f : f = LeftOf(m) OBVIOUS
  <1> PICK g : g = LeftOf(n) OBVIOUS
  <1>0. IsFiniteSet(Meters) BY CacheAssumption
  <1> USE DEF OneMoved
  <1>1. \A q \in Meters : Remaining(n[q]) \in Nat
    <2> TAKE q \in Meters
    <2>1. CASE q = r BY <2>1
    <2>2. CASE q # r BY <2>2
    <2> QED BY <2>1, <2>2
  <1>2. f \in [Meters -> Nat] /\ g \in [Meters -> Nat] /\ f[r] = Remaining(m[r]) /\ g[r] = Remaining(n[r])
    BY <1>1 DEF LeftOf
  <1> PICK X : X = Units(f, Meters \ {r}) OBVIOUS
  <1>3. X = Units(g, Meters \ {r})
    <2>1. \A q \in Meters \ {r} : f[q] = g[q] BY DEF LeftOf
    <2> QED BY <2>1 DEF Units
  <1>4. Looks(m) = Cardinality(Units(f, Meters)) BY DEF Looks
  <1>5. Looks(n) = Cardinality(Units(g, Meters)) BY DEF Looks
  <1>6. Cardinality(Units(f, Meters)) = f[r] + Cardinality(Units(f, Meters \ {r})) BY <1>0, <1>2, UnitsWithout
  <1>7. Cardinality(Units(g, Meters)) = g[r] + Cardinality(Units(g, Meters \ {r})) BY <1>0, <1>2, UnitsWithout
  <1>8. Cardinality(X) \in Nat
    <2> PICK t \in SUBSET Meters : t = Meters \ {r} OBVIOUS
    <2> QED BY <1>0, <1>2, UnitsFinite
  <1> PICK x \in Nat, y \in Nat, z \in Nat : x = f[r] /\ y = g[r] /\ z = Cardinality(X) BY <1>2, <1>8
  <1>9. Looks(m) = x + z /\ Looks(n) = y + z BY <1>3, <1>4, <1>5, <1>6, <1>7
  <1> QED BY <1>2, <1>9

LEMMA LooksOfNone ==
    ASSUME NEW m, \A q \in Meters : Remaining(m[q]) = 0
    PROVE  Looks(m) = 0
  <1>1. Units(LeftOf(m), Meters) = {} BY DEF Units, LeftOf
  <1> QED BY <1>1, FS_EmptySet DEF Looks

LEMMA LooksSame ==
    ASSUME NEW m, \A q \in Meters : Remaining(m[q]) \in Nat
    PROVE  Looks(m) \in Nat
  <1> PICK f : f = LeftOf(m) OBVIOUS
  <1>1. f \in [Meters -> Nat] BY DEF LeftOf
  <1> QED BY <1>1, CacheAssumption, UnitsFinite DEF Looks

(* The lookups are accounted for.                                           *)
CountsOK == owed \in Nat /\ tally.hits + tally.misses + Looks(meter) = owed

LEMMA PointsFinite ==
    ASSUME setup \in Setups, NEW a \in setup.asks, NEW left \in SUBSET DOMAIN Points(a.what)
    PROVE  IsFiniteSet(left) /\ Cardinality(left) \in Nat
  <1> PICK n : n = Len(AskBlocks(a)) OBVIOUS
  <1>1. n \in Nat /\ DOMAIN AskBlocks(a) = 1 .. n BY AskedOK
  <1>2. left \subseteq 1 .. n BY <1>1, PointsInside DEF AskBlocks
  <1>3. IsFiniteSet(1 .. n) BY <1>1, FS_Interval
  <1> QED BY <1>2, <1>3, FS_Subset, FS_CardinalityType

LEMMA RemainingOK ==
    ASSUME CacheInv, NEW r \in Meters
    PROVE  Remaining(meter[r]) \in Nat
  <1>1. CASE meter[r].pc = "look"
    <2>1. PICK a \in setup.asks : meter[r].left \subseteq DOMAIN Points(a.what) BY <1>1, WalkStands
    <2> QED BY <1>1, <2>1, PointsFinite DEF Remaining, CacheInv
  <1>2. CASE meter[r].pc # "look" BY <1>2 DEF Remaining
  <1> QED BY <1>1, <1>2

LEMMA LooksAreSum ==
    ASSUME CacheInv
    PROVE  MapThenSumSet(LAMBDA r : Remaining(meter[r]), Meters) = Looks(meter)
  <1> PICK f : f = LeftOf(meter) OBVIOUS
  <1>1. f \in [Meters -> Nat] /\ \A r \in Meters : f[r] = Remaining(meter[r]) BY RemainingOK DEF LeftOf
  <1> QED BY <1>1, CacheAssumption, RemainingSum DEF Looks

LEMMA LookingRemains ==
    ASSUME NEW m \in WalkRecord, m.pc = "look", NEW left
    PROVE  Remaining(Looking(m, left)) = Cardinality(left)
  <1>1. CASE left = {}
    <2> DEFINE k == [m EXCEPT !.pc = "record", !.left = DOMAIN m.points]
    <2>1. k.pc = "record" BY DEF WalkRecord
    <2>2. Looking(m, left) = k BY <1>1 DEF Looking
    <2> HIDE DEF k
    <2>3. Remaining(k) = 0 BY <2>1 DEF Remaining
    <2> QED BY <1>1, <2>2, <2>3, FS_EmptySet
  <1>2. CASE left # {}
    <2> DEFINE k == [m EXCEPT !.left = left, !.at = Min(left), !.reason = "absent"]
    <2>1. k.pc = "look" /\ k.left = left BY DEF WalkRecord
    <2>2. Looking(m, left) = k BY <1>2 DEF Looking
    <2> HIDE DEF k
    <2> QED BY <2>1, <2>2 DEF Remaining
  <1> QED BY <1>1, <1>2

LEMMA LaterRemains ==
    ASSUME CacheInv, NEW a \in setup.asks, NEW left \in SUBSET DOMAIN Points(a.what), left # {}
    PROVE  Cardinality(left) \in Nat /\ Cardinality(Later(left)) \in Nat
           /\ Cardinality(Later(left)) + 1 = Cardinality(left)
  <1>1. IsFiniteSet(left) /\ Cardinality(left) \in Nat BY PointsFinite DEF CacheInv
  <1> PICK x : x = Min(left) OBVIOUS
  <1>2. x \in left BY PointOK DEF CacheInv
  <1>3. IsFiniteSet(left \ {x}) /\ Cardinality(left \ {x}) = Cardinality(left) - 1
    BY <1>1, <1>2, FS_RemoveElement
  <1>4. IsFiniteSet(Later(left)) BY <1>3 DEF Later
  <1>5. Cardinality(Later(left)) = Cardinality(left) - 1 BY <1>3 DEF Later
  <1>6. Cardinality(Later(left)) \in Nat BY <1>4, FS_CardinalityType
  <1> QED BY <1>1, <1>5, <1>6

LEMMA CountedIs ==
    ASSUME TallyOK, NEW reason \in Misses \cup {"hit", "nopoint"}
    PROVE  Counted(reason).hits + Counted(reason).misses = tally.hits + tally.misses + 1
  <1>1. tally.hits \in Nat /\ tally.misses \in Nat BY DEF TallyOK, TallyRecord
  <1>2. CASE reason = "hit"
    <2>1. Counted(reason) = [tally EXCEPT !.hits = @ + 1] BY <1>2 DEF Counted
    <2>2. Counted(reason).hits = tally.hits + 1 /\ Counted(reason).misses = tally.misses
      BY <2>1 DEF TallyOK, TallyRecord
    <2> QED BY <1>1, <2>2
  <1>3. ASSUME reason # "hit", reason \in {"nopoint", "expired", "evicted", "absent"}
        PROVE  Counted(reason).hits = tally.hits /\ Counted(reason).misses = tally.misses + 1
    <2>1. CASE reason = "nopoint"
      <3>1. Counted(reason) = [tally EXCEPT !.misses = @ + 1, !.nopoint = @ + 1] BY <2>1 DEF Counted
      <3> QED BY <3>1 DEF TallyOK, TallyRecord
    <2>2. CASE reason = "expired"
      <3>1. Counted(reason) = [tally EXCEPT !.misses = @ + 1, !.expired = @ + 1] BY <2>2 DEF Counted
      <3> QED BY <3>1 DEF TallyOK, TallyRecord
    <2>3. CASE reason = "evicted"
      <3>1. Counted(reason) = [tally EXCEPT !.misses = @ + 1, !.evicted = @ + 1] BY <2>3 DEF Counted
      <3> QED BY <3>1 DEF TallyOK, TallyRecord
    <2>4. CASE reason = "absent"
      <3>1. Counted(reason) = [tally EXCEPT !.misses = @ + 1, !.absent = @ + 1] BY <2>4 DEF Counted
      <3> QED BY <3>1 DEF TallyOK, TallyRecord
    <2> QED BY <1>3, <2>1, <2>2, <2>3, <2>4
  <1> QED BY <1>1, <1>2, <1>3 DEF Misses

(* One request's walk moves on; of what it had before it, some is counted.  *)
LEMMA MoveCounts ==
    ASSUME CacheInv, CountsOK, NEW r \in Meters, NEW k, meter' = [meter EXCEPT ![r] = k],
           Remaining(k) \in Nat, owed' \in Nat, tally'.hits \in Nat, tally'.misses \in Nat,
           tally'.hits + tally'.misses + Remaining(k) - owed'
               = tally.hits + tally.misses + Remaining(meter[r]) - owed
    PROVE  CountsOK'
  <1>1. \A q \in Meters : meter'[q] = IF q = r THEN k ELSE meter[q] BY DEF CacheInv, MetersOK
  <1>2. \A q \in Meters : Remaining(meter[q]) \in Nat BY RemainingOK
  <1> PICK m, n : m = meter /\ n = meter' OBVIOUS
  <1>3. n[r] = k /\ \A q \in Meters : q # r => Remaining(n[q]) = Remaining(m[q]) BY <1>1
  <1>4. /\ Looks(m) \in Nat /\ Looks(n) \in Nat
        /\ Looks(n) + Remaining(m[r]) = Looks(m) + Remaining(n[r])
    <2>1. \A q \in Meters : Remaining(m[q]) \in Nat BY <1>2
    <2>2. Remaining(n[r]) \in Nat BY <1>3
    <2>3. \A q \in Meters : q # r => Remaining(n[q]) = Remaining(m[q]) BY <1>3
    <2>4. OneMoved(m, n, r) BY <2>1, <2>2, <2>3 DEF OneMoved
    <2> QED BY <2>4, LooksMoved
  <1> PICK x \in Nat, y \in Nat, a \in Nat, b \in Nat :
        x = Looks(meter) /\ y = Looks(meter') /\ a = Remaining(meter[r]) /\ b = Remaining(k)
    BY <1>2, <1>4
  <1>5. y + a = x + b BY <1>3, <1>4
  <1>6. tally.hits \in Nat /\ tally.misses \in Nat BY DEF CacheInv, TallyOK, TallyRecord
  <1> PICK h \in Nat, s \in Nat, t \in Nat, u \in Nat, o \in Nat, p \in Nat :
        h = tally.hits /\ s = tally.misses /\ t = tally'.hits /\ u = tally'.misses /\ o = owed /\ p = owed'
    BY <1>6 DEF CountsOK
  <1>7. h + s + x = o BY DEF CountsOK
  <1>8. t + u + b - p = h + s + a - o OBVIOUS
  <1>9. t + u + y = p BY <1>5, <1>7, <1>8
  <1>10. tally'.hits + tally'.misses + Looks(meter') = owed' BY <1>9
  <1> QED BY <1>10 DEF CountsOK, Looks, LeftOf, Units, Remaining

LEMMA NothingMoves ==
    ASSUME CountsOK, UNCHANGED <<tally, meter, owed>>
    PROVE  CountsOK'
  BY DEF CountsOK, Looks, LeftOf, Units, Remaining

LEMMA TallyNumbers ==
    ASSUME TallyOK
    PROVE  tally.hits \in Nat /\ tally.misses \in Nat
  BY DEF TallyOK, TallyRecord

LEMMA AskCounts ==
    ASSUME CacheInv, CountsOK, TallyOK', NEW r \in Meters, NEW a \in setup.asks, AskUsage(r, a.who, a.what)
    PROVE  CountsOK'
  <1>0. tally'.hits \in Nat /\ tally'.misses \in Nat /\ tally.hits \in Nat /\ tally.misses \in Nat /\ owed \in Nat
    BY DEF CacheInv, TallyOK, TallyRecord, CountsOK
  <1>1. CASE AskUncached(r, a.what)
    <2>1. tally' = Counted("nopoint") /\ owed' = owed + 1 /\ meter' = meter BY <1>1 DEF AskUncached
    <2>2. tally'.hits + tally'.misses = tally.hits + tally.misses + 1
      BY <2>1, CountedIs DEF CacheInv
    <2>3. Looks(meter) \in Nat BY RemainingOK, LooksSame
    <2>4. tally.hits + tally.misses + Looks(meter) = owed BY DEF CountsOK
    <2>5. tally'.hits + tally'.misses + Looks(meter) = owed' BY <1>0, <2>1, <2>2, <2>3, <2>4
    <2>6. Looks(meter)' = Looks(meter) BY <2>1 DEF Looks, LeftOf, Units, Remaining
    <2> QED BY <1>0, <2>1, <2>5, <2>6 DEF CountsOK
  <1>2. CASE AskCached(r, a.who, a.what)
    <2> PICK p : p = Points(a.what) OBVIOUS
    <2> DEFINE m == [pc |-> "look", user |-> a.who, prompt |-> a.what, points |-> p, left |-> {},
                     at |-> 0, reason |-> "absent", read |-> 0]
    <2>1. m \in WalkRecord /\ m.pc = "look" BY DEF WalkRecord, Misses
    <2> PICK n : n = m OBVIOUS
    <2> PICK k : k = NewWalk(a.who, a.what, p) OBVIOUS
    <2>2. k = Looking(n, DOMAIN p) BY DEF NewWalk
    <2>3. Remaining(k) = Cardinality(DOMAIN p)
      <3> HIDE DEF m
      <3> QED BY <2>1, <2>2, LookingRemains
    <2>4. Cardinality(DOMAIN p) \in Nat BY PointsFinite DEF CacheInv
    <2>5. meter' = [meter EXCEPT ![r] = k] /\ tally' = tally /\ owed' = owed + Cardinality(DOMAIN p)
      BY <1>2 DEF AskCached
    <2>6. Remaining(meter[r]) = 0 BY DEF AskUsage, Remaining
    <2>7. /\ Remaining(k) \in Nat /\ owed' \in Nat
          /\ tally'.hits + tally'.misses + Remaining(k) - owed'
               = tally.hits + tally.misses + Remaining(meter[r]) - owed
      <3> PICK x \in Nat : x = Cardinality(DOMAIN p) BY <2>4
      <3> QED BY <1>0, <2>3, <2>5, <2>6
    <2> QED BY <1>0, <2>5, <2>7, MoveCounts
  <1> QED BY <1>1, <1>2 DEF AskUsage

(* A breakpoint is settled: one lookup less is left, one more is counted.   *)
LEMMA SettledCounts ==
    ASSUME CacheInv, CountsOK, TallyOK', NEW r \in Meters, NEW m, m = meter[r], m.pc = "look",
           NEW n \in WalkRecord, n.pc = "look", n.left = m.left, NEW reason \in Misses \cup {"hit", "nopoint"},
           tally' = Counted(reason), meter' = [meter EXCEPT ![r] = Looking(n, Later(n.left))], owed' = owed
    PROVE  CountsOK'
  <1>0. tally'.hits \in Nat /\ tally'.misses \in Nat /\ tally.hits \in Nat /\ tally.misses \in Nat /\ owed \in Nat
    BY DEF CacheInv, TallyOK, TallyRecord, CountsOK
  <1>1. PICK a \in setup.asks : WalkOf(m, a) /\ m.left \subseteq DOMAIN Points(a.what)
    BY WalkStands
  <1>2. /\ Cardinality(m.left) \in Nat /\ Cardinality(Later(m.left)) \in Nat
        /\ Cardinality(Later(m.left)) + 1 = Cardinality(m.left)
    <2> PICK left \in SUBSET DOMAIN Points(a.what) : left = m.left /\ left # {} BY <1>1 DEF WalkOf
    <2> QED BY LaterRemains
  <1> PICK k : k = Looking(n, Later(n.left)) OBVIOUS
  <1>3. Remaining(k) = Cardinality(Later(m.left))
    <2> PICK left : left = Later(n.left) OBVIOUS
    <2>1. Remaining(Looking(n, left)) = Cardinality(left) BY LookingRemains
    <2> QED BY <2>1
  <1>4. Remaining(meter[r]) = Cardinality(m.left) BY DEF Remaining
  <1>5. tally'.hits + tally'.misses = tally.hits + tally.misses + 1 BY CountedIs DEF CacheInv
  <1>6. tally'.hits + tally'.misses + Remaining(k) - owed'
            = tally.hits + tally.misses + Remaining(meter[r]) - owed
    <2> PICK x \in Nat, y \in Nat : x = Cardinality(m.left) /\ y = Cardinality(Later(m.left)) BY <1>2
    <2>1. Remaining(k) = y /\ Remaining(meter[r]) = x /\ y + 1 = x BY <1>2, <1>3, <1>4
    <2> QED BY <1>0, <1>5, <2>1
  <1>7. Remaining(k) \in Nat BY <1>2, <1>3
  <1>8. meter' = [meter EXCEPT ![r] = k] /\ owed' \in Nat BY <1>0
  <1> QED BY <1>0, <1>6, <1>7, <1>8, MoveCounts

LEMMA FindCounts ==
    ASSUME CacheInv, CountsOK, TallyOK', NEW r \in Meters, meter[r].pc = "look", NEW tokens \in Nat,
           Found(r, tokens), owed' = owed
    PROVE  CountsOK'
  <1> PICK m : m = meter[r] OBVIOUS
  <1>1. m \in WalkRecord /\ m.read \in Nat BY WalkStands DEF WalkRecord
  <1> PICK larger : larger = Max({m.read, tokens}) OBVIOUS
  <1>2. larger \in Nat BY <1>1, LargerOf
  <1> DEFINE n == [m EXCEPT !.read = larger]
  <1>3. n \in WalkRecord /\ n.pc = "look" /\ n.left = m.left BY <1>1, <1>2 DEF WalkRecord
  <1>4. meter' = [meter EXCEPT ![r] = Looking(n, Later(n.left))] /\ tally' = Counted("hit") BY DEF Found
  <1> HIDE DEF n
  <1> PICK o : o = n OBVIOUS
  <1>5. "hit" \in Misses \cup {"hit", "nopoint"} OBVIOUS
  <1> QED BY <1>3, <1>4, <1>5, SettledCounts

LEMMA MissCounts ==
    ASSUME CacheInv, CountsOK, TallyOK', NEW r \in Meters, ProbeMiss(r)
    PROVE  CountsOK'
  <1> PICK m : m = meter[r] OBVIOUS
  <1>1. m \in WalkRecord /\ m.pc = "look" /\ Outcome(At(m)) # "hit" /\ owed' = owed
    BY WalkStands DEF ProbeMiss
  <1>2. CASE m.at > LookbackStart(m.prompt, Min(m.left))
    <2> PICK why : why = Reason(m) OBVIOUS
    <2> DEFINE k == [m EXCEPT !.at = @ - 1, !.reason = why]
    <2>1. meter' = [meter EXCEPT ![r] = k] /\ tally' = tally
      BY <1>2 DEF ProbeMiss, CacheInv, MetersOK
    <2>2. k.pc = "look" /\ k.left = m.left BY <1>1 DEF WalkRecord
    <2> HIDE DEF k
    <2>3. Remaining(k) = Remaining(meter[r]) BY <1>1, <2>2 DEF Remaining
    <2>4. Remaining(k) \in Nat BY <2>3, RemainingOK
    <2>5. tally.hits \in Nat /\ tally.misses \in Nat /\ owed \in Nat BY TallyNumbers DEF CacheInv, CountsOK
    <2> QED BY <1>1, <2>1, <2>3, <2>4, <2>5, MoveCounts
  <1>3. CASE ~(m.at > LookbackStart(m.prompt, Min(m.left)))
    <2> PICK why : why = Reason(m) OBVIOUS
    <2>1. why \in Misses
      <3>1. Outcome(At(m)) \in Misses
        BY <1>1 DEF Outcome, Misses, CacheInv, TombsOK
      <3> QED BY <1>1, <3>1 DEF Reason, WalkRecord
    <2>2. meter' = [meter EXCEPT ![r] = Looking(m, Later(m.left))] /\ tally' = Counted(why)
      BY <1>3 DEF ProbeMiss, CacheInv, MetersOK
    <2>3. why \in Misses \cup {"hit", "nopoint"} BY <2>1
    <2> QED BY <1>1, <2>2, <2>3, SettledCounts
  <1> QED BY <1>2, <1>3

LEMMA RecordCounts ==
    ASSUME CacheInv, CountsOK, NEW r \in Meters, RecordPoint(r)
    PROVE  CountsOK'
  <1> PICK m : m = meter[r] OBVIOUS
  <1>1. m \in WalkRecord /\ m.pc = "record" /\ tally' = tally /\ owed' = owed
    BY WalkStands DEF RecordPoint
  <1> PICK k : k = Wrote(m) OBVIOUS
  <1>2. Remaining(k) = 0
    <2>1. CASE Later(m.left) # {}
      <3> PICK later : later = Later(m.left) OBVIOUS
      <3>1. k = [m EXCEPT !.left = later] BY <2>1 DEF Wrote
      <3>2. k.pc = "record" BY <1>1, <3>1 DEF WalkRecord
      <3> QED BY <3>2 DEF Remaining
    <2>2. CASE ~(Later(m.left) # {})
      <3>1. k.pc = "done" BY <2>2 DEF Wrote
      <3> QED BY <3>1 DEF Remaining
    <2> QED BY <2>1, <2>2
  <1>3. Remaining(meter[r]) = 0 BY <1>1 DEF Remaining
  <1>4. meter' = [meter EXCEPT ![r] = k] BY DEF RecordPoint
  <1>5. tally.hits \in Nat /\ tally.misses \in Nat /\ owed \in Nat BY TallyNumbers DEF CacheInv, CountsOK
  <1>6. /\ Remaining(k) \in Nat
        /\ tally'.hits + tally'.misses + Remaining(k) - owed'
             = tally.hits + tally.misses + Remaining(meter[r]) - owed
    BY <1>1, <1>2, <1>3, <1>5
  <1> QED BY <1>1, <1>4, <1>5, <1>6, MoveCounts

LEMMA CountsStep ==
    ASSUME CacheInv, CacheInv', CountsOK, [CacheNext]_cacheVars
    PROVE  CountsOK'
  <1>0. TallyOK' BY DEF CacheInv
  <1>1. ASSUME NEW r \in Meters, ProbeShared(r) PROVE CountsOK'
    <2> PICK h : h = At(meter[r]) OBVIOUS
    <2> PICK tokens : tokens = shared[h].tokens OBVIOUS
    <2>1. h \in DOMAIN shared BY <1>1 DEF ProbeShared, AliveIn
    <2>2. tokens \in Nat BY <2>1 DEF CacheInv, TablesOK, TableOK
    <2>3. meter[r].pc = "look" /\ Found(r, tokens) /\ owed' = owed BY <1>1 DEF ProbeShared
    <2> QED BY <1>0, <2>2, <2>3, FindCounts
  <1>2. ASSUME NEW r \in Meters, ProbeHit(r) PROVE CountsOK'
    <2> PICK h : h = At(meter[r]) OBVIOUS
    <2> PICK tokens : tokens = entries[h].tokens OBVIOUS
    <2>1. h \in DOMAIN entries BY <1>2 DEF ProbeHit, Outcome, AliveIn, CacheInv, TombsOK, Misses
    <2>2. tokens \in Nat BY <2>1 DEF CacheInv, TablesOK, TableOK
    <2>3. meter[r].pc = "look" /\ Found(r, tokens) /\ owed' = owed BY <1>2 DEF ProbeHit
    <2> QED BY <1>0, <2>2, <2>3, FindCounts
  <1>3. CASE Restart
    <2>1. meter' = [r \in Meters |-> Unmetered] /\ tally' = NoTally /\ owed' = 0 BY <1>3 DEF Restart
    <2>2. Looks(meter') = 0
      <3>1. \A q \in Meters : Remaining(meter'[q]) = 0 BY <2>1 DEF Unmetered, Remaining
      <3> PICK n : n = meter' OBVIOUS
      <3> QED BY <3>1, LooksOfNone
    <2>3. tally'.hits = 0 /\ tally'.misses = 0 BY <2>1 DEF NoTally
    <2>4. tally'.hits + tally'.misses + Looks(meter') = owed' BY <2>1, <2>2, <2>3
    <2> QED BY <2>1, <2>4 DEF CountsOK, Looks, LeftOf, Units, Remaining
  <1>4. CASE Sweep \/ Flush \/ Flushed \/ Second \/ UNCHANGED cacheVars
    <2>1. UNCHANGED <<tally, meter, owed>> BY <1>4 DEF Sweep, Flush, Flushed, Second, cacheVars
    <2> QED BY <2>1, NothingMoves
  <1> QED BY <1>0, <1>1, <1>2, <1>3, <1>4, AskCounts, MissCounts, RecordCounts DEF CacheNext

LEMMA CountsStart == CacheInit => CountsOK /\ LooksAllOK
  <1> SUFFICES ASSUME CacheInit PROVE CountsOK /\ LooksAllOK
    OBVIOUS
  <1>1. meter = [r \in Meters |-> Unmetered] /\ tally = NoTally /\ owed = 0 BY DEF CacheInit
  <1>2. Looks(meter) = 0
    <2>1. \A q \in Meters : Remaining(meter[q]) = 0 BY <1>1 DEF Unmetered, Remaining
    <2> QED BY <2>1, LooksOfNone
  <1>3. CountsOK BY <1>1, <1>2 DEF CountsOK, NoTally
  <1>4. LooksAllOK BY <1>1 DEF LooksAllOK, LooksOK, Unmetered
  <1> QED BY <1>3, <1>4

LEMMA AccountsAre == CacheInv /\ CountsOK /\ LooksAllOK => CacheAccounted
  <1> SUFFICES ASSUME CacheInv, CountsOK, LooksAllOK PROVE CacheAccounted
    OBVIOUS
  <1>1. LookupsAccounted BY LooksAreSum DEF CountsOK, LookupsAccounted
  <1>2. UsageAddsUp
    <2> SUFFICES ASSUME NEW u \in Usages, NEW total \in Totals, NEW percent \in Percents
                 PROVE  LET parts == Split(u, total, percent)
                        IN  /\ parts.input + parts.created + parts.read = total
                            /\ parts.created >= 0 /\ parts.read >= 0 /\ (total > 0 => parts.input >= 1)
                            /\ parts.read * 100 <= total * percent
                            /\ parts.created = Split(u, total, 100).created
                            /\ (u.read = 0 => parts.read = 0)
                            /\ LongPart(u, parts.created) \in 0 .. parts.created
                            /\ (u.long = 0 => LongPart(u, parts.created) = 0)
      BY DEF UsageAddsUp
    <2>1. UsageOK(u) BY DEF Usages, LooksAllOK, LooksOK
    <2> QED BY <2>1, UsageAdds
  <1> QED BY <1>1, <1>2 DEF CacheAccounted

(* However many requests are metered at a time, whatever the table holds,   *)
(* forgets or takes over from the shared store: every breakpoint of every    *)
(* request is counted as a hit or a miss, once, and what is reported of a    *)
(* request adds up to its real size, with a token of input at least, within  *)
(* the limit on what is read, and with a 1h part that is part of what was    *)
(* written (note_lookup, split_against_total, creation_breakdown).           *)
THEOREM LookupsAndUsageAdd == Spec => []CacheAccounted
  <1> DEFINE Inv == CacheInv /\ CountsOK /\ LooksAllOK
  <1>1. Init => Inv
    BY CacheInvStarts, CountsStart DEF Init
  <1>2. Inv /\ [Next]_<<part, convertVars, cacheVars, affinityVars, modelVars, clientVars>> => Inv'
    BY PartsStep, CacheInvStep, CountsStep, LooksStep
  <1>3. Inv => CacheAccounted
    BY AccountsAre
  <1> HIDE DEF Inv
  <1> QED BY <1>1, <1>2, <1>3, PTL DEF Spec

-----------------------------------------------------------------------------
(* The snapshot on disk.                                                    *)

LiveAt(table, now) == {h \in DOMAIN table : table[h].expires > now}
Agree(t, u, now) == LiveAt(t, now) = LiveAt(u, now) /\ \A h \in LiveAt(t, now) : t[h] = u[h]

SnapshotOK ==
    setup.disk /\ ~dirty =>
        /\ flushing = {} => Agree(disk, entries, clock)
        /\ \A table \in flushing : Agree(table, entries, clock)

LEMMA AgreeLater ==
    ASSUME NEW t, NEW u, NEW written, TableOK(t, written), TableOK(u, written), clock \in Nat,
           NEW now \in Nat, now >= clock, Agree(t, u, clock)
    PROVE  Agree(t, u, now)
  <1>1. \A h \in DOMAIN t : t[h].expires \in Nat
    BY DEF TableOK
  <1>2. \A h \in DOMAIN u : u[h].expires \in Nat
    BY DEF TableOK
  <1>3. LiveAt(t, now) \subseteq LiveAt(t, clock) /\ LiveAt(u, now) \subseteq LiveAt(u, clock)
    BY <1>1, <1>2 DEF LiveAt
  <1> QED BY <1>3 DEF Agree, LiveAt

LEMMA SnapshotStarts == CacheInit => SnapshotOK
  BY DEF CacheInit, SnapshotOK, Agree, LiveAt

LEMMA SnapshotStep ==
    ASSUME "write" \notin CacheFaults, CacheInv, SnapshotOK, [CacheNext]_cacheVars
    PROVE  SnapshotOK'
  <1>0. UNCHANGED setup
    BY DEF CacheNext, cacheVars, AskUsage, ProbeShared, ProbeHit, ProbeMiss, RecordPoint, Sweep,
           Flush, Flushed, Restart, Second
  <1>1. ASSUME NEW r \in Meters, ProbeShared(r) \/ ProbeHit(r) \/ RecordPoint(r) \/ Sweep PROVE SnapshotOK'
    <2>1. dirty' = TRUE
      BY <1>1 DEF ProbeShared, ProbeHit, RecordPoint, Sweep, Found
    <2> QED BY <2>1 DEF SnapshotOK
  <1>2. CASE \/ UNCHANGED cacheVars
             \/ \E r \in Meters : ProbeMiss(r) \/ \E a \in setup.asks : AskUsage(r, a.who, a.what)
    <2>1. UNCHANGED <<entries, disk, flushing, dirty, clock>>
      BY <1>2 DEF cacheVars, ProbeMiss, AskUsage
    <2> QED BY <1>0, <2>1 DEF SnapshotOK
  <1>3. CASE Sweep
    BY <1>3 DEF Sweep, SnapshotOK
  <1>4. CASE Flush
    <2>1. flushing' = {entries} /\ UNCHANGED <<entries, disk, clock>>
      BY <1>4 DEF Flush
    <2> QED BY <1>0, <2>1 DEF SnapshotOK, Agree
  <1>5. CASE Flushed
    <2>1. disk' \in flushing /\ flushing' = {} /\ UNCHANGED <<entries, dirty, clock>>
      BY <1>5 DEF Flushed
    <2> QED BY <1>0, <2>1 DEF SnapshotOK
  <1>6. CASE Restart
    <2>1. entries' = KeepOf(disk', AliveIn(disk')) /\ flushing' = {} /\ clock' = clock
      BY <1>6 DEF Restart
    <2>2. \A t : Agree(t, KeepOf(t, AliveIn(t)), clock)
      BY DEF Agree, LiveAt, KeepOf, AliveIn, Alive
    <2> QED BY <2>1, <2>2 DEF SnapshotOK
  <1>7. CASE Second
    <2>1. clock' = clock + 1 /\ UNCHANGED <<entries, disk, flushing, dirty>>
      BY <1>7 DEF Second
    <2>2. \A t : TableOK(t, wrote) /\ Agree(t, entries, clock) => Agree(t, entries, clock')
      BY <2>1, AgreeLater DEF CacheInv, TablesOK
    <2> QED BY <1>0, <2>1, <2>2 DEF SnapshotOK, CacheInv, TablesOK
  <1> QED BY <1>1, <1>2, <1>3, <1>4, <1>5, <1>6, <1>7 DEF CacheNext

LEMMA SnapshotIs == SnapshotOK => SnapshotCurrent
  <1> SUFFICES ASSUME SnapshotOK, setup.disk, ~dirty, flushing = {}
               PROVE  KeepOf(disk, AliveIn(disk)) = KeepOf(entries, AliveIn(entries))
    BY DEF SnapshotCurrent
  <1>1. AliveIn(disk) = LiveAt(disk, clock) /\ AliveIn(entries) = LiveAt(entries, clock)
    BY DEF AliveIn, LiveAt, Alive
  <1>2. LiveAt(disk, clock) = LiveAt(entries, clock) /\ \A h \in LiveAt(disk, clock) : disk[h] = entries[h]
    BY DEF SnapshotOK, Agree
  <1> QED BY <1>1, <1>2 DEF KeepOf

-----------------------------------------------------------------------------
(* Of all tables at once.  Where no write fails (what a failed write loses  *)
(* waits for the next change), the next start finds what is alive unless    *)
(* something waits to be written; the tables of prefixes, tombstones,       *)
(* conversations and clients keep their capacity, every client but the      *)
(* global proxy's waits for its eviction once, and the models of a          *)
(* credential are locked by one fetch at a time (flush_to_disk,             *)
(* SessionAffinityCache::bind, ClientCache, model_refresh_lock).            *)
THEOREM TablesStayKept ==
    ASSUME "write" \notin CacheFaults
    PROVE  Spec => []TablesKept
  <1> DEFINE Inv == /\ CacheInv /\ SnapshotOK /\ AffinityInv
                    /\ ModelInv /\ ListsNamed /\ ClientInv
  <1>1. Init => Inv
    BY CacheInvStarts, SnapshotStarts, AffinityStarts, ModelStarts, ListsStart, ClientStarts DEF Init
  <1>2. Inv /\ [Next]_<<part, convertVars, cacheVars, affinityVars, modelVars, clientVars>> => Inv'
    BY PartsStep, CacheInvStep, SnapshotStep, AffinityStep, ModelStep, ListsStayNamed, ClientStep
  <1>3. Inv => TablesKept
    BY SnapshotIs, CacheBounded, ListsTyped, ClientsAre DEF TablesKept, AffinityInv
  <1> HIDE DEF Inv
  <1> QED BY <1>1, <1>2, <1>3, PTL DEF Spec

=============================================================================
