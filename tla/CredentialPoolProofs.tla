------------------------ MODULE CredentialPoolProofs ------------------------
(***************************************************************************)
(* For every set of credentials and requests, every threshold and every    *)
(* environment: the pool stays well typed, no enabled credential stands at *)
(* a threshold, the self-healing budget bounds the failures spent on a     *)
(* dead credential, no window holds more calls than the RPM limit, and     *)
(* without a shared credential file request traffic never overrules why a  *)
(* credential is out.                                                      *)
(*                                                                         *)
(* The records are independent, so the argument is about one record: each  *)
(* operator that a handler applies keeps it in Good, and each action only  *)
(* applies such operators.                                                 *)
(***************************************************************************)
EXTENDS CredentialPool, FiniteSetTheorems, TLAPS

Good(e) == e \in Entry /\ EntryHealthy(e)

PoolGood == cred \in [Creds -> Entry] /\ PoolHealthy

ReqOK ==
    /\ req \in [Requests -> Request]
    /\ \A r \in Requests :
          req[r].pc \in {"sticky", "chosen", "token", "record", "call", "stream"}
            => req[r].cred \in Creds

SweepOK == sweep \in Sweep /\ (sweep.left # {} => sweep.why # "None")

Inv == PoolGood /\ ReqOK /\ currentId \in Creds \cup {0} /\ SweepOK

-----------------------------------------------------------------------------
(* Products of naturals grow with either factor. *)
LEMMA ProductGrows ==
    ASSUME NEW a \in Nat, NEW b \in Nat, NEW c \in Nat, a <= b
    PROVE  /\ c * a <= c * b
           /\ c * a \in Nat
           /\ c * (a + 1) = c * a + c
  OBVIOUS

(* Counting a failure below the threshold stays within the healing budget. *)
LEMMA BudgetStep ==
    ASSUME NEW e, e \in Entry, EntryHealthy(e), ~e.disabled, MaxHealRounds > 0
    PROVE  /\ e.burnt + 1 <= MaxFailures * e.rounds + (e.fails + 1)
           /\ e.burnt + 1 <= MaxFailures * (MaxHealRounds + 1)
  <1>1. /\ e.rounds \in Nat /\ e.burnt \in Nat /\ e.fails \in 0..MaxFailures
        /\ MaxFailures \in Nat \ {0} /\ MaxHealRounds \in Nat
    BY LimitsAssumption DEF Entry
  <1>2. /\ e.reason = "None" /\ e.fails < MaxFailures /\ e.rounds <= MaxHealRounds
        /\ e.burnt <= MaxFailures * e.rounds + e.fails
    BY DEF EntryHealthy, BudgetKept
  <1>3. /\ MaxFailures * e.rounds <= MaxFailures * MaxHealRounds
        /\ MaxFailures * e.rounds \in Nat
        /\ MaxFailures * MaxHealRounds \in Nat
        /\ MaxFailures * (MaxHealRounds + 1) = MaxFailures * MaxHealRounds + MaxFailures
    BY <1>1, <1>2, ProductGrows
  <1> DEFINE p == MaxFailures * e.rounds
             q == MaxFailures * MaxHealRounds
             t == MaxFailures * (MaxHealRounds + 1)
  <1>4. p \in Nat /\ q \in Nat /\ p <= q /\ t = q + MaxFailures /\ e.burnt <= p + e.fails
    BY <1>2, <1>3
  <1> HIDE DEF p, q, t
  <1>5. e.burnt + 1 <= p + (e.fails + 1) /\ e.burnt + 1 <= t
    BY <1>1, <1>2, <1>4
  <1> QED  BY <1>5 DEF p, t

(* A healing round turns a full count of failures into one more round. *)
LEMMA BudgetHeal ==
    ASSUME NEW e, e \in Entry, EntryHealthy(e), e.reason = "TooManyFailures",
           MaxHealRounds > 0, e.rounds < MaxHealRounds
    PROVE  e.burnt <= MaxFailures * (e.rounds + 1)
  <1>1. /\ e.rounds \in Nat /\ e.burnt \in Nat /\ e.fails \in 0..MaxFailures
        /\ MaxFailures \in Nat
    BY LimitsAssumption DEF Entry
  <1>2. e.burnt <= MaxFailures * e.rounds + e.fails
    BY DEF EntryHealthy, BudgetKept
  <1>3. MaxFailures * (e.rounds + 1) = MaxFailures * e.rounds + MaxFailures
        /\ MaxFailures * e.rounds \in Nat
    BY <1>1, ProductGrows
  <1> DEFINE p == MaxFailures * e.rounds
             t == MaxFailures * (e.rounds + 1)
  <1>4. p \in Nat /\ t = p + MaxFailures /\ e.burnt <= p + e.fails
    BY <1>2, <1>3
  <1> HIDE DEF p, t
  <1>5. e.burnt <= t
    BY <1>1, <1>4
  <1> QED  BY <1>5 DEF t

LEMMA BudgetZero ==
    ASSUME NEW n \in Nat
    PROVE  0 <= MaxFailures * n
  BY LimitsAssumption, ProductGrows
-----------------------------------------------------------------------------
(* What each operator on one record keeps. *)

(* Fields that health does not depend on may change. *)
LEMMA SameHealth ==
    ASSUME NEW e, NEW f, Good(e), f \in Entry,
           f.disabled = e.disabled, f.reason = e.reason, f.fails = e.fails,
           f.refreshFails \in {e.refreshFails, 0},
           f.rounds = e.rounds, f.burnt = e.burnt
    PROVE  Good(f)
  BY LimitsAssumption DEF Good, EntryHealthy, BudgetKept

(* A record with no evidence against it. *)
LEMMA CleanRecord ==
    ASSUME NEW f, f \in Entry, ~f.disabled, f.reason = "None",
           f.fails = 0, f.refreshFails = 0, f.burnt = 0,
           MaxHealRounds > 0 => f.rounds <= MaxHealRounds
    PROVE  Good(f)
  <1>1. /\ f.rounds \in Nat
        /\ MaxHealRounds \in Nat /\ MaxFailures \in Nat \ {0}
    BY LimitsAssumption DEF Entry
  <1>2. 0 <= MaxFailures * f.rounds /\ 0 <= MaxFailures * (MaxHealRounds + 1)
        /\ MaxFailures * f.rounds \in Nat
    BY <1>1, BudgetZero, ProductGrows
  <1>3. f.burnt <= MaxFailures * f.rounds + f.fails
    BY <1>2
  <1> QED  BY <1>1, <1>2, <1>3 DEF Good, EntryHealthy, BudgetKept

(* Out for a reason that healing does not touch: only the totals matter. *)
LEMMA OutRecord ==
    ASSUME NEW e, NEW f, Good(e), f \in Entry, f.disabled,
           f.reason \in Reasons \ {"TooManyFailures"},
           f.rounds = 0, f.burnt = e.burnt
    PROVE  Good(f)
  <1>1. f.disabled <=> f.reason # "None"
    BY DEF Reasons
  <1>2. f.reason \notin {"None", "TooManyFailures"}
    BY DEF Reasons
  <1> QED  BY <1>1, <1>2, LimitsAssumption DEF Good, EntryHealthy, BudgetKept

-----------------------------------------------------------------------------
(* What each operator on one record keeps. *)

LEMMA CountRange == 0 \in 0..MaxFailures /\ MaxFailures \in 0..MaxFailures
  BY LimitsAssumption

LEMMA ClearStreakFields ==
    ASSUME NEW e \in Entry
    PROVE  /\ ClearStreak(e) \in Entry
           /\ ClearStreak(e).disabled = e.disabled /\ ClearStreak(e).reason = e.reason
           /\ ClearStreak(e).fails = e.fails
           /\ ClearStreak(e).refreshFails = e.refreshFails
           /\ ClearStreak(e).rounds = 0 /\ ClearStreak(e).burnt = e.burnt
  BY DEF Entry, ClearStreak

LEMMA EnableFields ==
    ASSUME NEW e \in Entry
    PROVE  /\ Enable(e) \in Entry
           /\ ~Enable(e).disabled /\ Enable(e).reason = "None" /\ Enable(e).fails = 0
           /\ Enable(e).rounds = e.rounds /\ Enable(e).burnt = e.burnt
           /\ Enable(e).refreshFails = e.refreshFails
  BY CountRange DEF Entry, Enable

LEMMA DisableFields ==
    ASSUME NEW e \in Entry, NEW why \in Reasons
    PROVE  /\ DisableFor(e, why) \in Entry
           /\ DisableFor(e, why).disabled /\ DisableFor(e, why).reason = why
           /\ DisableFor(e, why).fails = e.fails
           /\ DisableFor(e, why).rounds = e.rounds /\ DisableFor(e, why).burnt = e.burnt
           /\ DisableFor(e, why).refreshFails = e.refreshFails
  BY DEF Entry, DisableFor

LEMMA DisabledGood ==
    ASSUME NEW e, Good(e), NEW why \in Reasons \ {"TooManyFailures"}
    PROVE  /\ Good(ClearStreak(DisableFor(e, why)))
           /\ Good([ClearStreak(DisableFor(e, why)) EXCEPT !.fails = MaxFailures])
  <1> DEFINE f == ClearStreak(DisableFor(e, why))
             g == [f EXCEPT !.fails = MaxFailures]
  <1>1. f \in Entry /\ f.disabled /\ f.reason = why /\ f.rounds = 0 /\ f.burnt = e.burnt
    BY DisableFields, ClearStreakFields DEF Good
  <1> HIDE DEF f
  <1>2. g \in Entry /\ g.disabled = f.disabled /\ g.reason = f.reason
        /\ g.rounds = f.rounds /\ g.burnt = f.burnt
    BY <1>1, CountRange DEF Entry
  <1> HIDE DEF g
  <1>3. Good(f) /\ Good(g)
    BY <1>1, <1>2, OutRecord
  <1> QED  BY <1>3 DEF f, g

LEMMA TerminalGood ==
    ASSUME NEW e, Good(e), NEW why \in {"QuotaExceeded", "Suspended"}
    PROVE  Good(OnTerminal(e, why))
  BY DisabledGood DEF OnTerminal, Reasons

LEMMA TokenInvalidGood ==
    ASSUME NEW e, Good(e)
    PROVE  Good(OnTokenInvalid(e))
  BY DisabledGood DEF OnTokenInvalid, Reasons

LEMMA RevivedGood ==
    ASSUME NEW e, Good(e)
    PROVE  /\ Good(ResetHealth(e))
           /\ Good([ClearStreak(Enable(e)) EXCEPT
                        !.refreshFails = 0, !.throttled = FALSE, !.burnt = 0])
           /\ Good(OnReload(e))
  <1> DEFINE d == Enable(e)
             c == ClearStreak(d)
             f == [c EXCEPT !.refreshFails = 0, !.throttled = FALSE, !.window = 0, !.burnt = 0]
             g == [c EXCEPT !.refreshFails = 0, !.throttled = FALSE, !.burnt = 0]
             h == [d EXCEPT !.refreshFails = 0, !.burnt = 0]
  <1>1. d \in Entry /\ ~d.disabled /\ d.reason = "None" /\ d.fails = 0 /\ d.rounds = e.rounds
    BY EnableFields DEF Good
  <1> HIDE DEF d
  <1>2. c \in Entry /\ ~c.disabled /\ c.reason = "None" /\ c.fails = 0 /\ c.rounds = 0
    BY <1>1, ClearStreakFields
  <1> HIDE DEF c
  <1>3. /\ f \in Entry /\ f.disabled = c.disabled /\ f.reason = c.reason
        /\ f.fails = c.fails /\ f.refreshFails = 0 /\ f.burnt = 0 /\ f.rounds = c.rounds
    BY <1>2, CountRange DEF Entry
  <1>4. /\ g \in Entry /\ g.disabled = c.disabled /\ g.reason = c.reason
        /\ g.fails = c.fails /\ g.refreshFails = 0 /\ g.burnt = 0 /\ g.rounds = c.rounds
    BY <1>2, CountRange DEF Entry
  <1>5. /\ h \in Entry /\ h.disabled = d.disabled /\ h.reason = d.reason
        /\ h.fails = d.fails /\ h.refreshFails = 0 /\ h.burnt = 0 /\ h.rounds = d.rounds
    BY <1>1, CountRange DEF Entry
  <1>6. MaxHealRounds > 0 => e.rounds <= MaxHealRounds
    BY DEF Good, EntryHealthy, BudgetKept
  <1> HIDE DEF f, g, h
  <1>7. Good(f) /\ Good(g) /\ Good(h)
    BY <1>1, <1>2, <1>3, <1>4, <1>5, <1>6, CleanRecord, LimitsAssumption
  <1> QED  BY <1>7 DEF f, g, h, c, d, ResetHealth, OnReload

LEMMA HealGood ==
    ASSUME NEW e, Good(e), NEW model \in Models \cup {NoModel},
           e.reason = "TooManyFailures",
           MaxHealRounds > 0 => e.rounds < MaxHealRounds
    PROVE  Good(OnHeal(e, model))
  <1> DEFINE d == Enable(e)
             f == [d EXCEPT !.rounds = @ + 1, !.cooling = TRUE, !.healModel = model]
  <1>1. /\ d \in Entry /\ ~d.disabled /\ d.reason = "None" /\ d.fails = 0
        /\ d.rounds = e.rounds /\ d.refreshFails = e.refreshFails /\ d.burnt = e.burnt
    BY EnableFields DEF Good
  <1> HIDE DEF d
  <1>a. d.rounds \in Nat /\ d.rounds + 1 \in Nat
    BY <1>1 DEF Entry
  <1>2. /\ f \in Entry /\ f.disabled = d.disabled /\ f.reason = d.reason
        /\ f.fails = d.fails /\ f.refreshFails = d.refreshFails
        /\ f.rounds = d.rounds + 1 /\ f.burnt = d.burnt
    BY <1>1, <1>a DEF Entry
  <1> HIDE DEF f
  <1>3. /\ e.rounds \in Nat /\ MaxFailures \in Nat \ {0} /\ MaxHealRounds \in Nat
    BY LimitsAssumption DEF Good, Entry
  <1>4. e.refreshFails < MaxFailures
    BY DEF Good, EntryHealthy
  <1>5. ASSUME MaxHealRounds > 0
        PROVE  BudgetKept(f)
    <2>1. /\ f.rounds <= MaxHealRounds /\ f.rounds \in Nat /\ f.fails = 0
          /\ f.rounds = e.rounds + 1
      BY <1>1, <1>2, <1>3, <1>5
    <2>2. f.burnt <= MaxFailures * (e.rounds + 1)
      BY <1>1, <1>2, <1>3, <1>5, BudgetHeal DEF Good
    <2>3. f.burnt <= MaxFailures * f.rounds + f.fails
      BY <2>1, <2>2, <1>3, ProductGrows
    <2>4. f.burnt <= MaxFailures * (MaxHealRounds + 1)
      BY <1>1, <1>2, <1>5 DEF Good, EntryHealthy, BudgetKept
    <2> QED  BY <2>1, <2>3, <2>4 DEF BudgetKept
  <1>6. Good(f)
    BY <1>1, <1>2, <1>3, <1>4, <1>5 DEF Good, EntryHealthy
  <1> QED  BY <1>6 DEF f, d, OnHeal

LEMMA SuccessGood ==
    ASSUME NEW e, Good(e), NEW model
    PROVE  Good(OnSuccess(e, model))
  <1> DEFINE f == [e EXCEPT !.fails = 0, !.refreshFails = 0,
                            !.throttled = FALSE, !.burnt = 0]
  <1>1. /\ f \in Entry /\ f.disabled = e.disabled /\ f.reason = e.reason /\ f.fails = 0
        /\ f.refreshFails = 0 /\ f.rounds = e.rounds /\ f.burnt = 0
    BY CountRange DEF Good, Entry
  <1> HIDE DEF f
  <1>2. /\ f.rounds \in Nat /\ MaxFailures \in Nat \ {0} /\ MaxHealRounds \in Nat
        /\ MaxHealRounds > 0 => f.rounds <= MaxHealRounds
    BY <1>1, LimitsAssumption DEF Good, Entry, EntryHealthy, BudgetKept
  <1>3. ASSUME NEW g \in Entry, g.disabled = f.disabled, g.reason = f.reason, g.fails = 0,
               g.refreshFails = 0, g.burnt = 0, g.rounds \in Nat, g.rounds <= f.rounds
        PROVE  Good(g)
    <2>1. 0 <= MaxFailures * g.rounds /\ 0 <= MaxFailures * (MaxHealRounds + 1)
          /\ MaxFailures * g.rounds \in Nat
      BY <1>2, <1>3, BudgetZero, ProductGrows
    <2>2. g.burnt <= MaxFailures * g.rounds + g.fails
      BY <2>1, <1>3
    <2>3. g.disabled <=> g.reason # "None"
      BY <1>1, <1>3 DEF Good, EntryHealthy
    <2> QED  BY <1>2, <1>3, <2>1, <2>2, <2>3 DEF Good, EntryHealthy, BudgetKept
  <1>4. Good(f) /\ Good(ClearStreak(f))
    BY <1>1, <1>2, <1>3, ClearStreakFields
  <1> QED  BY <1>4 DEF OnSuccess, f

LEMMA FailureGood ==
    ASSUME NEW e, Good(e)
    PROVE  Good(OnFailure(e))
  <1> DEFINE f == [e EXCEPT !.fails = @ + 1, !.burnt = @ + 1]
  <1>1. CASE e.disabled
    BY <1>1 DEF OnFailure
  <1>2. CASE ~e.disabled
    <2>1. /\ e.fails \in 0..MaxFailures /\ e.burnt \in Nat /\ MaxFailures \in Nat \ {0}
          /\ e.fails < MaxFailures /\ e.reason = "None" /\ e.refreshFails < MaxFailures
      BY <1>2, LimitsAssumption DEF Good, Entry, EntryHealthy
    <2>2. e.fails + 1 \in 0..MaxFailures /\ e.burnt + 1 \in Nat
      BY <2>1
    <2>3. /\ f \in Entry /\ f.disabled = e.disabled /\ f.reason = e.reason
          /\ f.fails = e.fails + 1 /\ f.burnt = e.burnt + 1
          /\ f.refreshFails = e.refreshFails /\ f.rounds = e.rounds
      BY <2>2 DEF Good, Entry
    <2>4. OnFailure(e) = IF f.fails >= MaxFailures THEN DisableFor(f, "TooManyFailures") ELSE f
      BY <1>2 DEF OnFailure
    <2> HIDE DEF f
    <2>5. ASSUME NEW g \in Entry, g.fails = f.fails, g.burnt = f.burnt, g.rounds = f.rounds,
                 MaxHealRounds > 0
          PROVE  BudgetKept(g)
      <3>1. /\ e.burnt + 1 <= MaxFailures * e.rounds + (e.fails + 1)
            /\ e.burnt + 1 <= MaxFailures * (MaxHealRounds + 1)
        BY <1>2, <2>5, BudgetStep DEF Good
      <3>2. e.rounds <= MaxHealRounds
        BY <2>5 DEF Good, EntryHealthy, BudgetKept
      <3>3. g.fails = e.fails + 1 /\ g.burnt = e.burnt + 1 /\ g.rounds = e.rounds
        BY <2>3, <2>5
      <3> QED  BY <3>1, <3>2, <3>3 DEF BudgetKept
    <2>6. CASE f.fails >= MaxFailures
      <3> DEFINE g == DisableFor(f, "TooManyFailures")
      <3>1. /\ g \in Entry /\ g.disabled /\ g.reason = "TooManyFailures" /\ g.fails = f.fails
            /\ g.rounds = f.rounds /\ g.burnt = f.burnt /\ g.refreshFails = f.refreshFails
        BY <2>3, DisableFields DEF Reasons
      <3> HIDE DEF g
      <3>2. MaxHealRounds > 0 => BudgetKept(g)
        BY <2>5, <3>1
      <3>3. Good(g)
        BY <2>1, <2>3, <3>1, <3>2 DEF Good, EntryHealthy
      <3> QED  BY <2>4, <2>6, <3>3 DEF g
    <2>7. CASE ~(f.fails >= MaxFailures)
      <3>1. f.fails < MaxFailures
        BY <2>1, <2>3, <2>7
      <3>2. MaxHealRounds > 0 => BudgetKept(f)
        BY <2>3, <2>5
      <3>3. Good(f)
        BY <1>2, <2>1, <2>3, <3>1, <3>2 DEF Good, EntryHealthy
      <3> QED  BY <2>4, <2>7, <3>3
    <2> QED  BY <2>6, <2>7
  <1> QED  BY <1>1, <1>2

LEMMA RefreshFailureGood ==
    ASSUME NEW e, Good(e)
    PROVE  Good(OnRefreshFailure(e))
  <1> DEFINE f == [e EXCEPT !.refreshFails = @ + 1]
  <1>1. CASE e.disabled
    BY <1>1 DEF OnRefreshFailure
  <1>2. CASE ~e.disabled
    <2>1. /\ e.refreshFails \in 0..MaxFailures /\ MaxFailures \in Nat \ {0}
          /\ e.reason = "None" /\ e.refreshFails < MaxFailures
      BY <1>2, LimitsAssumption DEF Good, Entry, EntryHealthy
    <2>2. e.refreshFails + 1 \in 0..MaxFailures
      BY <2>1
    <2>3. /\ f \in Entry /\ f.disabled = e.disabled /\ f.reason = e.reason
          /\ f.fails = e.fails /\ f.burnt = e.burnt
          /\ f.refreshFails = e.refreshFails + 1 /\ f.rounds = e.rounds
      BY <2>2 DEF Good, Entry
    <2>4. OnRefreshFailure(e) =
            IF f.refreshFails >= MaxFailures
            THEN ClearStreak(DisableFor(f, "TooManyRefreshFailures")) ELSE f
      BY <1>2 DEF OnRefreshFailure
    <2> HIDE DEF f
    <2>5. CASE f.refreshFails >= MaxFailures
      <3> DEFINE g == ClearStreak(DisableFor(f, "TooManyRefreshFailures"))
      <3>1. /\ g \in Entry /\ g.disabled /\ g.reason = "TooManyRefreshFailures"
            /\ g.rounds = 0 /\ g.burnt = e.burnt
        BY <2>3, DisableFields, ClearStreakFields DEF Reasons
      <3> HIDE DEF g
      <3>2. Good(g)
        BY <3>1, OutRecord DEF Reasons
      <3> QED  BY <2>4, <2>5, <3>2 DEF g
    <2>6. CASE ~(f.refreshFails >= MaxFailures)
      <3>1. f.refreshFails < MaxFailures
        BY <2>1, <2>3, <2>6
      <3>2. Good(f)
        BY <1>2, <2>3, <3>1 DEF Good, EntryHealthy, BudgetKept
      <3> QED  BY <2>4, <2>6, <3>2
    <2> QED  BY <2>5, <2>6
  <1> QED  BY <1>1, <1>2

(* The handlers that touch a field health does not depend on. *)
LEMMA NeutralGood ==
    ASSUME NEW e, Good(e), NEW b \in BOOLEAN, NEW n \in Nat
    PROVE  /\ Good([e EXCEPT !.refreshFails = 0])
           /\ Good([e EXCEPT !.throttled = b])
           /\ Good([e EXCEPT !.cooling = b])
           /\ Good([e EXCEPT !.window = n])
  <1> DEFINE f == [e EXCEPT !.refreshFails = 0]
             g == [e EXCEPT !.throttled = b]
             h == [e EXCEPT !.cooling = b]
             w == [e EXCEPT !.window = n]
  <1>1. /\ f \in Entry /\ f.disabled = e.disabled /\ f.reason = e.reason
        /\ f.fails = e.fails /\ f.refreshFails = 0
        /\ f.rounds = e.rounds /\ f.burnt = e.burnt
    BY CountRange DEF Good, Entry
  <1>2. ASSUME NEW k \in {g, h, w}
        PROVE  /\ k \in Entry /\ k.disabled = e.disabled /\ k.reason = e.reason
               /\ k.fails = e.fails /\ k.refreshFails = e.refreshFails
               /\ k.rounds = e.rounds /\ k.burnt = e.burnt
    BY DEF Good, Entry
  <1> HIDE DEF f, g, h, w
  <1>3. Good(f) /\ Good(g) /\ Good(h) /\ Good(w)
    BY <1>1, <1>2, SameHealth
  <1> QED  BY <1>3 DEF f, g, h, w

-----------------------------------------------------------------------------
(* What an action does to the four variables, in the shapes they share. *)

LEMMA PoolStays ==
    ASSUME PoolGood, UNCHANGED cred
    PROVE  PoolGood'
  BY DEF PoolGood, PoolHealthy

LEMMA RecordGood ==
    ASSUME PoolGood, NEW c \in Creds
    PROVE  Good(cred[c])
  BY DEF PoolGood, PoolHealthy, Good

LEMMA OneRecord ==
    ASSUME PoolGood, NEW c \in Creds, NEW e, Good(e), cred' = [cred EXCEPT ![c] = e]
    PROVE  PoolGood'
  BY DEF PoolGood, PoolHealthy, Good

LEMMA OneLiveRecord ==
    ASSUME PoolGood, NEW c \in Creds, NEW e, Good(e), UpdateLive(c, e)
    PROVE  PoolGood'
  BY OneRecord DEF PoolGood, PoolHealthy, UpdateLive

LEMMA CurrentStays ==
    ASSUME currentId \in Creds \cup {0}, NEW S \in SUBSET Creds,
           SwitchCurrentTo(S) \/ UNCHANGED currentId
    PROVE  currentId' \in Creds \cup {0}
  BY DEF SwitchCurrentTo

LEMMA FinishedOK ==
    ASSUME ReqOK, NEW r \in Requests,
           NEW result \in {"none", "noToken", "limited", "exhausted", "served", "failed"},
           req' = Finished(r, result)
    PROVE  ReqOK'
  <1> DEFINE q == Idle(req[r].scope, result)
  <1>1. q \in Request /\ q.pc = "idle"
    BY DEF ReqOK, Idle, Request
  <1> HIDE DEF q
  <1>2. req' = [req EXCEPT ![r] = q]
    BY DEF Finished, q
  <1> QED  BY <1>1, <1>2 DEF ReqOK

LEMMA NewRequest ==
    ASSUME ReqOK, NEW r \in Requests, NEW q \in Request, req' = [req EXCEPT ![r] = q],
           q.pc \in {"sticky", "chosen", "token", "record", "call", "stream"}
             => q.cred \in Creds
    PROVE  ReqOK'
  BY DEF ReqOK

LEMMA RetriedOK ==
    ASSUME ReqOK, NEW r \in Requests, req' = Retried(r)
    PROVE  ReqOK'
  <1> DEFINE q == [req[r] EXCEPT !.pc = "select", !.cred = 0, !.guard = FALSE]
  <1>1. q \in Request /\ q.pc = "select"
    BY DEF ReqOK, Request
  <1>2. req' = [req EXCEPT ![r] = q]
    BY DEF ReqOK, Retried, Request
  <1> HIDE DEF q
  <1> QED  BY <1>1, <1>2, NewRequest

LEMMA NextAttemptOK ==
    ASSUME ReqOK, NEW r \in Requests, req' = NextAttempt(r)
    PROVE  ReqOK'
  <1>1. CASE req[r].left > 1
    <2>1. req[r].left \in Nat /\ req[r].left - 1 \in Nat
      BY <1>1 DEF ReqOK, Request
    <2> QED  BY <1>1, <2>1 DEF ReqOK, NextAttempt, Request
  <1>2. CASE ~(req[r].left > 1)
    BY <1>2, FinishedOK DEF NextAttempt
  <1> QED  BY <1>1, <1>2

(* A request that moves on with the credential it holds. *)
LEMMA MovedOK ==
    ASSUME ReqOK, NEW r \in Requests, req[r].cred \in Creds,
           NEW pc \in {"chosen", "token", "record", "call", "stream"},
           req' = [req EXCEPT ![r].pc = pc]
    PROVE  ReqOK'
  BY DEF ReqOK, Request

-----------------------------------------------------------------------------
(* The actions. *)

LEMMA InitHolds == Init => Inv
  <1> SUFFICES ASSUME Init PROVE Inv
    OBVIOUS
  <1>1. ASSUME NEW d \in BOOLEAN, NEW why \in Reasons \cup {"None"},
               NEW n \in LoadedRounds \cup {0}, NEW m \in Models \cup {NoModel},
               d <=> why # "None"
        PROVE  Good(LoadedEntry(d, why, n, m))
    <2> DEFINE e == LoadedEntry(d, why, n, m)
    <2>1. n \in Nat /\ MaxFailures \in Nat \ {0} /\ MaxHealRounds \in Nat
          /\ (MaxHealRounds > 0 => n <= MaxHealRounds)
      BY LimitsAssumption
    <2>2. e \in Entry /\ e.disabled = d /\ e.reason = why /\ e.fails = 0
          /\ e.refreshFails = 0 /\ e.rounds = n /\ e.burnt = 0
      BY <2>1, CountRange DEF LoadedEntry, Entry
    <2> HIDE DEF e
    <2>3. 0 <= MaxFailures * n /\ 0 <= MaxFailures * (MaxHealRounds + 1)
          /\ MaxFailures * n \in Nat
      BY <2>1, BudgetZero, ProductGrows
    <2>4. e.burnt <= MaxFailures * e.rounds + e.fails
      BY <2>2, <2>3
    <2>5. Good(e)
      BY <1>1, <2>1, <2>2, <2>3, <2>4 DEF Good, EntryHealthy, BudgetKept
    <2> QED  BY <2>5 DEF e
  <1>2. \A e \in LoadedEntries : Good(e)
    <2>1. LoadedReasons \subseteq Reasons
      BY LimitsAssumption
    <2>2. Good(LoadedEntry(FALSE, "None", 0, NoModel))
      BY <1>1
    <2>3. \A why \in LoadedReasons : Good(LoadedEntry(TRUE, why, 0, NoModel))
      BY <1>1, <2>1 DEF Reasons
    <2>4. \A s \in LoadedStreaks : Good(LoadedEntry(FALSE, "None", s.rounds, s.model))
      BY <1>1 DEF LoadedStreaks
    <2>5. \A s \in LoadedStreaks :
             Good(LoadedEntry(TRUE, "TooManyFailures", s.rounds, s.model))
      BY <1>1 DEF LoadedStreaks, Reasons
    <2> DEFINE A == {LoadedEntry(TRUE, why, 0, NoModel) : why \in LoadedReasons}
               B == {LoadedEntry(FALSE, "None", s.rounds, s.model) : s \in LoadedStreaks}
               C == {LoadedEntry(TRUE, "TooManyFailures", s.rounds, s.model) :
                        s \in LoadedStreaks}
    <2>6. \A e \in A : Good(e)
      BY <2>3
    <2>7. \A e \in B : Good(e)
      BY <2>4
    <2>8. \A e \in C : Good(e)
      BY <2>5
    <2>9. LoadedEntries = {LoadedEntry(FALSE, "None", 0, NoModel)} \cup A \cup B \cup C
      BY DEF LoadedEntries
    <2> HIDE DEF A, B, C
    <2> QED  BY <2>2, <2>6, <2>7, <2>8, <2>9
  <1>3. PoolGood
    BY <1>2 DEF Init, PoolGood, PoolHealthy, Good
  <1>4. ReqOK
    BY DEF Init, ReqOK, Request, Idle
  <1> QED  BY <1>3, <1>4 DEF Inv, Init, InitialCurrent, SweepOK, Sweep, NoSweep

LEMMA BeginHolds ==
    ASSUME Inv, NEW r \in Requests, NEW scope \in Scopes, Begin(r, scope)
    PROVE  Inv'
  <1> DEFINE S == {c \in Creds : cred[c].live /\ InGroup(c, scope)}
             total == Cardinality(S)
             left == IF total = 0 THEN 1 ELSE total * MaxFailures
             q == [pc |-> "select", scope |-> scope, cred |-> 0, guard |-> FALSE,
                   left |-> left, result |-> "none"]
  <1>1. total \in Nat
    <2>1. IsFiniteSet(S)
      BY CredsAssumption, FS_Subset
    <2> QED  BY <2>1, FS_CardinalityType
  <1>2. req' = [req EXCEPT ![r] = q] /\ UNCHANGED <<cred, currentId, sweep>>
    BY DEF Begin
  <1> HIDE DEF total
  <1>3. left \in Nat
    BY <1>1, LimitsAssumption
  <1> HIDE DEF left
  <1>4. q \in Request /\ q.pc = "select"
    BY <1>3 DEF Request
  <1> HIDE DEF q
  <1>5. ReqOK'
    BY <1>2, <1>4 DEF Inv, ReqOK, SweepOK
  <1> QED  BY <1>2, <1>5, PoolStays DEF Inv, SweepOK

LEMMA SelectHolds ==
    ASSUME Inv, NEW r \in Requests, Select(r)
    PROVE  Inv'
  <1> USE DEF Inv, SweepOK
  <1>1. AvailableFor(cred, req[r].scope) \subseteq Creds
    BY DEF AvailableFor, EnabledFor
  <1>2. CASE PickSticky(r)
    <2>1. PICK c \in Creds : req' = [req EXCEPT ![r].pc = "sticky", ![r].cred = c]
      BY <1>1, <1>2 DEF PickSticky
    <2> DEFINE q == [req[r] EXCEPT !.pc = "sticky", !.cred = c]
    <2>2. q \in Request /\ q.cred = c
      BY DEF ReqOK, Request
    <2>3. req' = [req EXCEPT ![r] = q]
      BY <2>1 DEF ReqOK, Request
    <2> HIDE DEF q
    <2>4. ReqOK'
      BY <2>2, <2>3, NewRequest
    <2> QED  BY <1>2, <2>4, PoolStays DEF PickSticky
  <1>3. CASE ClaimSticky(r)
    <2>1. req[r].cred \in Creds
      BY <1>3 DEF ClaimSticky, ReqOK
    <2>2. cred[req[r].cred].live \in BOOLEAN
      BY <2>1 DEF PoolGood, Entry
    <2> DEFINE live == cred[req[r].cred].live
               q == [req[r] EXCEPT !.pc = "chosen", !.guard = live]
    <2>3. q \in Request /\ q.cred = req[r].cred
      BY <2>2 DEF ReqOK, Request
    <2>4. req' = [req EXCEPT ![r] = q]
      <3>1. req' = [req EXCEPT ![r].pc = "chosen", ![r].guard = live]
        BY <1>3 DEF ClaimSticky
      <3> HIDE DEF live
      <3> QED  BY <3>1 DEF ReqOK, Request
    <2> HIDE DEF q
    <2>5. ReqOK'
      BY <2>1, <2>3, <2>4, NewRequest
    <2> QED  BY <1>3, <2>5, PoolStays DEF ClaimSticky
  <1>4. CASE Pick(r)
    <2>1. PICK c \in Creds :
            req' = [req EXCEPT ![r].pc = "chosen", ![r].cred = c, ![r].guard = TRUE]
      BY <1>1, <1>4 DEF Pick
    <2> DEFINE q == [req[r] EXCEPT !.pc = "chosen", !.cred = c, !.guard = TRUE]
    <2>2. q \in Request /\ q.cred = c
      BY DEF ReqOK, Request
    <2>3. req' = [req EXCEPT ![r] = q]
      BY <2>1 DEF ReqOK, Request
    <2> HIDE DEF q
    <2>4. ReqOK'
      BY <2>2, <2>3, NewRequest
    <2> QED  BY <1>4, <2>4, PoolStays DEF Pick
  <1>5. CASE PickNone(r)
    <2>1. ReqOK'
      BY <1>5 DEF PickNone, ReqOK, Request
    <2> QED  BY <1>5, <2>1, PoolStays DEF PickNone
  <1>6. CASE Heal(r)
    <2>1. req[r].scope.model \in Models \cup {NoModel}
      BY ScopesAssumption DEF ReqOK, Request, AnyScope
    <2>2. ASSUME NEW c \in Creds, Healable(c, req[r].scope)
          PROVE  Good(OnHeal(cred[c], req[r].scope.model))
      <3>1. Good(cred[c])
        BY RecordGood
      <3> QED  BY <2>1, <2>2, <3>1, HealGood DEF Healable
    <2>3. cred' = [c \in Creds |->
                     IF HealEnabled /\ Healable(c, req[r].scope)
                     THEN OnHeal(cred[c], req[r].scope.model) ELSE cred[c]]
      BY <1>6 DEF Heal
    <2>4. PoolGood'
      BY <2>2, <2>3, RecordGood DEF PoolGood, PoolHealthy, Good
    <2>5. ReqOK'
      BY <1>6 DEF Heal, ReqOK, Request
    <2> QED  BY <1>6, <2>4, <2>5 DEF Heal
  <1>7. CASE GiveUp(r)
    <2>1. ReqOK'
      BY <1>7, FinishedOK DEF GiveUp
    <2> QED  BY <1>7, <2>1, PoolStays DEF GiveUp
  <1>8. CASE Choose(r)
    <2>1. req[r].cred \in Creds
      BY <1>8 DEF Choose, ReqOK
    <2>2. ReqOK'
      BY <1>8, <2>1, MovedOK DEF Choose
    <2> QED  BY <1>8, <2>1, <2>2, PoolStays DEF Choose
  <1> QED  BY <1>2, <1>3, <1>4, <1>5, <1>6, <1>7, <1>8 DEF Select

(* A report on the credential a request holds: `e` is the report's verdict. *)
LEMMA ReportHolds ==
    ASSUME Inv, NEW r \in Requests, req[r].cred \in Creds,
           NEW e, Good(e), TokenReport(r, e) \/ CallReport(r, e)
    PROVE  Inv'
  <1> USE DEF Inv, SweepOK
  <1>1. AvailableFor(cred', req[r].scope) \in SUBSET Creds /\ AllEnabled(cred') \in SUBSET Creds
    BY DEF AvailableFor, EnabledFor, AllEnabled
  <1>2. CASE TokenReport(r, e)
    <2>1. PoolGood'
      BY <1>2, OneLiveRecord DEF TokenReport
    <2>2. ReqOK'
      BY <1>2, FinishedOK, NextAttemptOK DEF TokenReport
    <2>3. currentId' \in Creds \cup {0}
      BY <1>1, <1>2, CurrentStays DEF TokenReport
    <2> QED  BY <1>2, <2>1, <2>2, <2>3 DEF TokenReport
  <1>3. CASE CallReport(r, e)
    <2>1. PoolGood'
      BY <1>3, OneLiveRecord DEF CallReport
    <2>2. ReqOK'
      BY <1>3, FinishedOK DEF CallReport
    <2>3. currentId' \in Creds \cup {0}
      BY <1>1, <1>3, CurrentStays DEF CallReport
    <2> QED  BY <1>3, <2>1, <2>2, <2>3 DEF CallReport
  <1> QED  BY <1>2, <1>3

LEMMA TokenHolds ==
    ASSUME Inv, NEW r \in Requests, Token(r)
    PROVE  Inv'
  <1> USE DEF Inv, SweepOK
  <1>1. req[r].cred \in Creds
    BY DEF Token, TokenReady, TokenSuperseded, TokenLimited, TokenFailed, TokenInvalid,
           TokenReloaded, TokenReport, Record, ReqOK
  <1> DEFINE e == cred[req[r].cred]
  <1>2. Good(e)
    BY <1>1, RecordGood
  <1>3. CASE TokenReady(r)
    <2>1. Good([e EXCEPT !.refreshFails = 0])
      BY <1>2, NeutralGood
    <2>2. PoolGood'
      BY <1>1, <1>3, <2>1, OneLiveRecord DEF TokenReady
    <2>3. ReqOK'
      BY <1>1, <1>3, MovedOK DEF TokenReady
    <2> QED  BY <1>3, <2>2, <2>3 DEF TokenReady
  <1>4. CASE TokenSuperseded(r)
    BY <1>4, NextAttemptOK, PoolStays DEF TokenSuperseded
  <1>5. CASE TokenLimited(r)
    BY <1>5, FinishedOK, PoolStays DEF TokenLimited
  <1>6. CASE TokenFailed(r)
    BY <1>1, <1>2, <1>6, RefreshFailureGood, ReportHolds DEF TokenFailed
  <1>7. CASE TokenInvalid(r)
    BY <1>1, <1>2, <1>7, TokenInvalidGood, ReportHolds DEF TokenInvalid
  <1>8. CASE TokenReloaded(r)
    <2>1. PoolGood'
      BY <1>1, <1>2, <1>8, RevivedGood, OneLiveRecord DEF TokenReloaded
    <2> QED  BY <1>8, <2>1, RetriedOK DEF TokenReloaded
  <1>9. CASE Record(r)
    <2> DEFINE slots == IF RpmLimit = 0 THEN 0 ELSE e.window + 1
    <2>1. slots \in Nat
      BY <1>2 DEF Good, Entry
    <2>2. Good([e EXCEPT !.window = slots])
      BY <1>2, <2>1, NeutralGood
    <2>3. PoolGood'
      BY <1>1, <1>9, <2>2, OneRecord, PoolStays DEF Record
    <2>4. ReqOK'
      BY <1>1, <1>9, MovedOK, RetriedOK DEF Record
    <2> QED  BY <1>9, <2>3, <2>4 DEF Record
  <1> QED  BY <1>3, <1>4, <1>5, <1>6, <1>7, <1>8, <1>9 DEF Token

LEMMA CallHolds ==
    ASSUME Inv, NEW r \in Requests, Call(r)
    PROVE  Inv'
  <1> USE DEF Inv, SweepOK
  <1>1. req[r].cred \in Creds
    BY DEF Call, CallSucceeds, StreamEnds, CallFails, CallQuota, CallSuspended,
           CallThrottled, CallRefreshed, CallOther, CallReport, ReqOK
  <1> DEFINE e == cred[req[r].cred]
  <1>2. Good(e)
    BY <1>1, RecordGood
  <1>3. CASE CallSucceeds(r)
    <2>1. PoolGood'
      BY <1>1, <1>2, <1>3, SuccessGood, OneLiveRecord DEF CallSucceeds
    <2>2. ReqOK'
      BY <1>1, <1>3, MovedOK DEF CallSucceeds
    <2> QED  BY <1>3, <2>1, <2>2 DEF CallSucceeds
  <1>4. CASE StreamEnds(r)
    BY <1>4, FinishedOK, PoolStays DEF StreamEnds
  <1>5. CASE CallFails(r)
    BY <1>1, <1>2, <1>5, FailureGood, ReportHolds DEF CallFails
  <1>6. CASE CallQuota(r)
    BY <1>1, <1>2, <1>6, TerminalGood, ReportHolds DEF CallQuota
  <1>7. CASE CallSuspended(r)
    BY <1>1, <1>2, <1>7, TerminalGood, ReportHolds DEF CallSuspended
  <1>8. CASE CallThrottled(r)
    BY <1>1, <1>2, <1>8, NeutralGood, ReportHolds DEF CallThrottled
  <1>9. CASE CallRefreshed(r)
    BY <1>1, <1>2, <1>9, NeutralGood, ReportHolds DEF CallRefreshed
  <1>10. CASE CallOther(r)
    BY <1>1, <1>2, <1>10, ReportHolds DEF CallOther
  <1> QED  BY <1>3, <1>4, <1>5, <1>6, <1>7, <1>8, <1>9, <1>10 DEF Call

LEMMA SweepBegins ==
    ASSUME Inv, NEW S \in SUBSET Creds, NEW why \in {"Manual", "QuotaExceeded"},
           SweepBegin(S, why)
    PROVE  Inv'
  <1>1. SweepOK'
    BY DEF SweepBegin, Sweep, SweepOK, Inv
  <1> QED  BY <1>1, PoolStays DEF SweepBegin, Inv, ReqOK, SweepOK

LEMMA BulkHolds ==
    ASSUME Inv, BulkDisable \/ SweepEnd
    PROVE  Inv'
  <1> USE DEF Inv, SweepOK
  <1>1. CASE BulkDisable
    <2>1. AllEnabled(cred) \in SUBSET Creds
      BY DEF AllEnabled
    <2> QED  BY <1>1, <2>1, SweepBegins DEF BulkDisable
  <1>2. CASE SweepEnd
    <2>1. AllEnabled(cred) \ {currentId} \in SUBSET Creds
      BY DEF AllEnabled
    <2>2. currentId' \in Creds \cup {0}
      BY <1>2, <2>1, CurrentStays DEF SweepEnd
    <2>3. SweepOK'
      BY <1>2 DEF SweepEnd, Sweep, SweepOK, NoSweep
    <2> QED  BY <1>2, <2>2, <2>3, PoolStays DEF SweepEnd, ReqOK
  <1> QED  BY <1>1, <1>2

LEMMA AdminHolds ==
    ASSUME Inv, NEW c \in Creds, Admin(c)
    PROVE  Inv'
  <1> USE DEF Inv, SweepOK
  <1>1. Good(cred[c])
    BY RecordGood
  <1>2. AllEnabled(cred') \in SUBSET Creds /\ AllEnabled(cred') \ {c} \in SUBSET Creds
    BY DEF AllEnabled
  <1>3. ASSUME NEW e, Good(e), SetEntry(c, e)
        PROVE  Inv'
    <2>1. PoolGood'
      BY <1>3, OneRecord DEF SetEntry
    <2> QED  BY <1>3, <2>1 DEF SetEntry, ReqOK
  <1>4. CASE AdminDisable(c)
    BY <1>4, SweepBegins DEF AdminDisable
  <1>5. CASE AdminEnable(c)
    BY <1>1, <1>3, <1>5, RevivedGood DEF AdminEnable
  <1>6. CASE AdminReset(c)
    BY <1>1, <1>3, <1>6, RevivedGood DEF AdminReset
  <1>7. CASE AdminRelogin(c)
    <2>1. PoolGood'
      BY <1>1, <1>7, RevivedGood, OneRecord DEF AdminRelogin
    <2>2. currentId' \in Creds \cup {0}
      BY <1>2, <1>7, CurrentStays DEF AdminRelogin
    <2> QED  BY <1>7, <2>1, <2>2 DEF AdminRelogin, ReqOK
  <1>8. CASE AdminSetToken(c)
    BY <1>1, <1>3, <1>8, NeutralGood DEF AdminSetToken
  <1>9. CASE AdminClearThrottle(c)
    BY <1>1, <1>3, <1>9, NeutralGood DEF AdminClearThrottle
  <1>10. CASE RecoverQuota(c)
    BY <1>1, <1>3, <1>10, RevivedGood DEF RecoverQuota
  <1>11. CASE SweepStep(c)
    <2>1. sweep \in Sweep /\ sweep.why \in Reasons \ {"TooManyFailures"}
      BY <1>11 DEF SweepStep, SweepOK, Sweep, Reasons
    <2>2. PoolGood'
      BY <1>1, <1>11, <2>1, DisabledGood, OneLiveRecord DEF SweepStep
    <2>3. SweepOK'
      BY <1>11, <2>1 DEF SweepStep, SweepOK, Sweep
    <2> QED  BY <1>11, <2>2, <2>3 DEF SweepStep, ReqOK
  <1>12. CASE AdminDelete(c)
    <2> DEFINE e == [LoadedEntry(FALSE, "None", 0, NoModel) EXCEPT !.live = FALSE]
    <2>1. /\ e \in Entry /\ ~e.disabled /\ e.reason = "None" /\ e.fails = 0
          /\ e.refreshFails = 0 /\ e.burnt = 0 /\ e.rounds = 0
      BY CountRange DEF Entry, LoadedEntry
    <2>2. cred' = [cred EXCEPT ![c] = e]
      BY <1>12 DEF AdminDelete
    <2> HIDE DEF e
    <2>3. Good(e)
      BY <2>1, CleanRecord, LimitsAssumption
    <2>4. PoolGood'
      BY <2>2, <2>3, OneRecord
    <2>5. currentId' \in Creds \cup {0}
      BY <1>2, <1>12, CurrentStays DEF AdminDelete
    <2> QED  BY <1>12, <2>4, <2>5 DEF AdminDelete, ReqOK
  <1> QED  BY <1>4, <1>5, <1>6, <1>7, <1>8, <1>9, <1>10, <1>11, <1>12 DEF Admin

LEMMA ClockHolds ==
    ASSUME Inv, NEW c \in Creds, Clock(c)
    PROVE  Inv'
  <1> USE DEF Inv, SweepOK
  <1>1. Good(cred[c])
    BY RecordGood
  <1>2. PICK e : Good(e) /\ SetEntry(c, e)
    <2>1. CASE ThrottleEnds(c)
      BY <1>1, <2>1, NeutralGood DEF ThrottleEnds
    <2>2. CASE HealIntervalElapses(c)
      BY <1>1, <2>2, NeutralGood DEF HealIntervalElapses
    <2>3. CASE WindowSlides(c)
      <3>1. cred[c].window - 1 \in Nat
        BY <1>1, <2>3 DEF WindowSlides, Good, Entry
      <3>2. Good([cred[c] EXCEPT !.window = cred[c].window - 1])
        BY <1>1, <3>1, NeutralGood
      <3> QED  BY <2>3, <3>2 DEF WindowSlides
    <2> QED  BY <2>1, <2>2, <2>3 DEF Clock
  <1>3. PoolGood'
    BY <1>2, OneRecord DEF SetEntry
  <1> QED  BY <1>2, <1>3 DEF SetEntry, ReqOK

LEMMA AuditHolds ==
    ASSUME Inv, NEW S \in SUBSET Creds, AuditSuspend(S)
    PROVE  Inv'
  <1> USE DEF Inv, SweepOK
  <1>1. \A c \in Creds :
           Good([ClearStreak(DisableFor(cred[c], "Suspended")) EXCEPT !.fails = MaxFailures])
    BY RecordGood, DisabledGood DEF Reasons
  <1>2. PoolGood'
    BY <1>1, RecordGood DEF AuditSuspend, PoolGood, PoolHealthy, Good
  <1>3. AvailableFor(cred', [model |-> NoModel, group |-> NoGroup]) \in SUBSET Creds
    BY DEF AvailableFor, EnabledFor
  <1>4. currentId' \in Creds \cup {0}
    BY <1>3, CurrentStays DEF AuditSuspend
  <1> QED  BY <1>2, <1>4 DEF AuditSuspend, ReqOK

LEMMA StepHolds == Inv /\ [Next]_vars => Inv'
  <1> SUFFICES ASSUME Inv, [Next]_vars PROVE Inv'
    OBVIOUS
  <1>1. CASE \E r \in Requests : RequestStep(r) \/ \E scope \in Scopes : Begin(r, scope)
    BY <1>1, BeginHolds, SelectHolds, TokenHolds, CallHolds DEF RequestStep
  <1>2. CASE \E c \in Creds : Admin(c) \/ Clock(c)
    BY <1>2, AdminHolds, ClockHolds
  <1>3. CASE BulkDisable \/ SweepEnd
    BY <1>3, BulkHolds
  <1>4. CASE \E S \in SUBSET Creds : AuditSuspend(S)
    BY <1>4, AuditHolds
  <1>5. CASE UNCHANGED vars
    BY <1>5, PoolStays DEF vars, Inv, ReqOK, SweepOK
  <1> QED  BY <1>1, <1>2, <1>3, <1>4, <1>5 DEF Next

THEOREM Invariance == Spec => []Inv
  BY InitHolds, StepHolds, PTL DEF Spec

-----------------------------------------------------------------------------
(* The pool stays well typed, whatever is reported and whoever administers. *)
THEOREM TypeCorrect == Spec => []TypeOK
  <1>1. Inv => TypeOK
    BY DEF Inv, PoolGood, ReqOK, SweepOK, TypeOK
  <1> QED  BY <1>1, Invariance, PTL

(* Every record keeps its health invariant: report_*, try_self_heal, the   *)
(* reload from the file and the Admin handlers agree on what they leave.    *)
THEOREM PoolStaysHealthy == Spec => []PoolHealthy
  <1>1. Inv => PoolHealthy
    BY DEF Inv, PoolGood
  <1> QED  BY <1>1, Invariance, PTL

(* No way back into the pool leaves a count at its threshold. *)
THEOREM EnabledCredentialsBelowThreshold == Spec => []EnabledBelowThreshold
  <1>1. Inv => EnabledBelowThreshold
    BY DEF Inv, PoolGood, PoolHealthy, EntryHealthy, EnabledBelowThreshold
  <1> QED  BY <1>1, Invariance, PTL

(* Self-healing spends a bounded number of failures on a dead credential,   *)
(* for any number of concurrent requests, models and late reports.          *)
THEOREM HealingIsBounded == Spec => []HealBudget
  <1>1. Inv => HealBudget
    BY DEF Inv, PoolGood, PoolHealthy, EntryHealthy, BudgetKept, HealBudget
  <1> QED  BY <1>1, Invariance, PTL

-----------------------------------------------------------------------------
(* Late reports and the reason a credential is out for. *)

LEMMA ReportsKeepReason ==
    ASSUME NEW e \in Entry, e.disabled, NEW model, NEW why
    PROVE  /\ OnFailure(e).reason = e.reason
           /\ OnTerminal(e, why).reason = e.reason
           /\ OnRefreshFailure(e).reason = e.reason
           /\ OnTokenInvalid(e).reason = e.reason
           /\ OnSuccess(e, model).reason = e.reason
           /\ [e EXCEPT !.throttled = TRUE].reason = e.reason
           /\ [e EXCEPT !.refreshFails = 0].reason = e.reason
  <1>1. OnFailure(e) = e /\ OnTerminal(e, why) = e
        /\ OnRefreshFailure(e) = e /\ OnTokenInvalid(e) = e
    BY DEF OnFailure, OnTerminal, OnRefreshFailure, OnTokenInvalid
  <1>2. OnSuccess(e, model).reason = e.reason
    BY CountRange DEF OnSuccess, ClearStreak, Entry
  <1> QED  BY <1>1, <1>2 DEF Entry

LEMMA LiveUpdateKeepsReason ==
    ASSUME PoolGood, NEW c \in Creds, NEW e, UpdateLive(c, e),
           cred[c].disabled => e.reason = cred[c].reason,
           NEW d \in Creds, cred[d].disabled
    PROVE  cred'[d].reason = cred[d].reason
  BY DEF PoolGood, UpdateLive

LEMMA TrafficStep ==
    ASSUME Inv, ~HasFile, NEW r \in Requests, RequestStep(r),
           NEW d \in Creds, cred[d].disabled, cred[d].reason # "TooManyFailures"
    PROVE  cred'[d].reason = cred[d].reason
  <1> USE DEF Inv, SweepOK
  <1> DEFINE c == req[r].cred
             e == cred[c]
  <1>1. cred \in [Creds -> Entry]
    BY DEF PoolGood
  <1>2. CASE Select(r)
    <2>1. CASE Heal(r)
      <3>1. ~Healable(d, req[r].scope)
        BY DEF Healable
      <3> QED  BY <2>1, <3>1 DEF Heal
    <2>2. CASE ~Heal(r)
      BY <1>2, <2>2 DEF Select, PickSticky, ClaimSticky, Pick, PickNone, GiveUp, Choose
    <2> QED  BY <2>1, <2>2
  <1>3. CASE Token(r)
    <2>1. c \in Creds /\ e \in Entry
      BY <1>1, <1>3
      DEF Token, TokenReady, TokenSuperseded, TokenLimited, TokenFailed, TokenInvalid,
          TokenReloaded, TokenReport, Record, ReqOK
    <2>2. CASE TokenReady(r)
      BY <2>1, <2>2, ReportsKeepReason, LiveUpdateKeepsReason DEF TokenReady
    <2>3. CASE TokenFailed(r)
      BY <2>1, <2>3, ReportsKeepReason, LiveUpdateKeepsReason DEF TokenFailed, TokenReport
    <2>4. CASE TokenInvalid(r)
      BY <2>1, <2>4, ReportsKeepReason, LiveUpdateKeepsReason DEF TokenInvalid, TokenReport
    <2>5. CASE Record(r)
      BY <1>1, <2>1, <2>5 DEF Record, Entry
    <2>6. CASE TokenSuperseded(r) \/ TokenLimited(r)
      BY <2>6 DEF TokenSuperseded, TokenLimited
    <2> QED  BY <1>3, <2>2, <2>3, <2>4, <2>5, <2>6 DEF Token, TokenReloaded
  <1>4. CASE Call(r)
    <2>1. c \in Creds /\ e \in Entry
      BY <1>1, <1>4
      DEF Call, CallSucceeds, StreamEnds, CallFails, CallQuota, CallSuspended,
          CallThrottled, CallRefreshed, CallOther, CallReport, ReqOK
    <2>2. CASE CallSucceeds(r)
      BY <2>1, <2>2, ReportsKeepReason, LiveUpdateKeepsReason DEF CallSucceeds
    <2>3. CASE StreamEnds(r)
      BY <2>3 DEF StreamEnds
    <2>4. CASE CallFails(r)
      BY <2>1, <2>4, ReportsKeepReason, LiveUpdateKeepsReason DEF CallFails, CallReport
    <2>5. CASE CallQuota(r)
      BY <2>1, <2>5, ReportsKeepReason, LiveUpdateKeepsReason DEF CallQuota, CallReport
    <2>6. CASE CallSuspended(r)
      BY <2>1, <2>6, ReportsKeepReason, LiveUpdateKeepsReason DEF CallSuspended, CallReport
    <2>7. CASE CallThrottled(r)
      BY <2>1, <2>7, ReportsKeepReason, LiveUpdateKeepsReason DEF CallThrottled, CallReport
    <2>8. CASE CallRefreshed(r)
      BY <2>1, <2>8, ReportsKeepReason, LiveUpdateKeepsReason DEF CallRefreshed, CallReport
    <2>9. CASE CallOther(r)
      BY <2>1, <2>9, LiveUpdateKeepsReason DEF CallOther, CallReport
    <2> QED  BY <1>4, <2>2, <2>3, <2>4, <2>5, <2>6, <2>7, <2>8, <2>9 DEF Call
  <1> QED  BY <1>2, <1>3, <1>4 DEF RequestStep

(* Without a shared credential file, the reason a credential is out for is  *)
(* only ever overruled by an administrator or the quota scheduler.          *)
THEOREM TrafficNeverOverrules == ~HasFile /\ Spec => TrafficKeepsReasons
  <1> SUFFICES ASSUME ~HasFile PROVE Spec => TrafficKeepsReasons
    OBVIOUS
  <1>1. Inv /\ [Next]_vars => [ReasonsKept]_vars
    <2> SUFFICES ASSUME Inv, Next, req' # req,
                        NEW c \in Creds, cred[c].disabled,
                        cred[c].reason # "TooManyFailures"
                 PROVE  cred'[c].reason = cred[c].reason
      BY DEF ReasonsKept
    <2>1. CASE \E r \in Requests : RequestStep(r)
      BY <2>1, TrafficStep
    <2>2. CASE \E r \in Requests : \E scope \in Scopes : Begin(r, scope)
      BY <2>2 DEF Begin
    <2>3. CASE \E d \in Creds : Admin(d) \/ Clock(d)
      BY <2>3
      DEF Admin, AdminDisable, AdminEnable, AdminReset, AdminRelogin, AdminSetToken,
          AdminClearThrottle, RecoverQuota, SweepBegin, SweepStep, AdminDelete, SetEntry,
          Clock, ThrottleEnds, HealIntervalElapses, WindowSlides
    <2>4. CASE BulkDisable \/ SweepEnd \/ \E S \in SUBSET Creds : AuditSuspend(S)
      BY <2>4 DEF BulkDisable, SweepBegin, SweepEnd, AuditSuspend
    <2> QED  BY <2>1, <2>2, <2>3, <2>4 DEF Next
  <1> QED  BY <1>1, Invariance, PTL DEF Spec, TrafficKeepsReasons

-----------------------------------------------------------------------------
(* The window of a credential.  Only record_request fills it, and it looks   *)
(* before it does.                                                          *)

LEMMA OperatorsKeepWindow ==
    ASSUME NEW e \in Entry, NEW why
    PROVE  /\ ClearStreak(e).window = e.window
           /\ DisableFor(e, why).window = e.window
           /\ Enable(e).window = e.window
           /\ [e EXCEPT !.throttled = TRUE].window = e.window
           /\ [e EXCEPT !.throttled = FALSE].window = e.window
           /\ [e EXCEPT !.refreshFails = 0].window = e.window
           /\ [e EXCEPT !.cooling = FALSE].window = e.window
  BY DEF ClearStreak, DisableFor, Enable, Entry

LEMMA ReportsKeepWindow ==
    ASSUME NEW e \in Entry, NEW model, NEW why \in Reasons
    PROVE  /\ OnFailure(e).window = e.window
           /\ OnTerminal(e, why).window = e.window
           /\ OnRefreshFailure(e).window = e.window
           /\ OnTokenInvalid(e).window = e.window
           /\ OnSuccess(e, model).window = e.window
           /\ OnReload(e).window = e.window
           /\ OnHeal(e, model).window = e.window
  <1>1. OnFailure(e).window = e.window
    BY DEF OnFailure, DisableFor, Entry
  <1>2. OnTerminal(e, why).window = e.window
    BY DEF OnTerminal, DisableFor, ClearStreak, Entry
  <1>3. OnRefreshFailure(e).window = e.window
    BY DEF OnRefreshFailure, DisableFor, ClearStreak, Entry
  <1>4. OnTokenInvalid(e).window = e.window
    BY DEF OnTokenInvalid, DisableFor, ClearStreak, Entry
  <1>5. OnSuccess(e, model).window = e.window
    BY DEF OnSuccess, ClearStreak, Entry
  <1>6. OnReload(e).window = e.window /\ OnHeal(e, model).window = e.window
    BY DEF OnReload, OnHeal, Enable, Entry
  <1> QED  BY <1>1, <1>2, <1>3, <1>4, <1>5, <1>6

(* Administrators and reset quotas empty a window or leave it alone. *)
LEMMA AdminKeepsWindow ==
    ASSUME NEW e \in Entry, NEW why \in Reasons
    PROVE  /\ ResetHealth(e).window = 0
           /\ [ClearStreak(Enable(e)) EXCEPT
                   !.refreshFails = 0, !.throttled = FALSE, !.burnt = 0].window = e.window
           /\ ClearStreak(DisableFor(e, why)).window = e.window
           /\ [ClearStreak(DisableFor(e, why)) EXCEPT !.fails = MaxFailures].window = e.window
  BY DEF ResetHealth, ClearStreak, Enable, DisableFor, Entry

\* What a step may do to the window of a credential.
WindowOK(d) == cred'[d].window <= cred[d].window \/ cred'[d].window <= RpmLimit

LEMMA OneWindow ==
    ASSUME PoolGood, NEW c \in Creds, NEW e,
           cred' = [cred EXCEPT ![c] = e] \/ UNCHANGED cred,
           e.window = cred[c].window \/ e.window <= RpmLimit,
           NEW d \in Creds
    PROVE  WindowOK(d)
  BY DEF PoolGood, WindowOK, Entry

LEMMA WindowStep ==
    ASSUME Inv, RpmLimit > 0, [Next]_vars, NEW d \in Creds
    PROVE  WindowOK(d)
  <1> USE DEF Inv, SweepOK
  <1>1. cred \in [Creds -> Entry] /\ RpmLimit \in Nat
    BY LimitsAssumption DEF PoolGood
  <1>2. ASSUME UNCHANGED cred PROVE WindowOK(d)
    BY <1>1, <1>2 DEF WindowOK, Entry
  <1>3. ASSUME NEW c \in Creds, NEW e, UpdateLive(c, e) \/ SetEntry(c, e),
               e.window = cred[c].window \/ e.window <= RpmLimit
        PROVE  WindowOK(d)
    BY <1>3, OneWindow DEF UpdateLive, SetEntry
  <1>4. ASSUME NEW r \in Requests, RequestStep(r) PROVE WindowOK(d)
    <2> DEFINE c == req[r].cred
               e == cred[c]
    <2>1. CASE Heal(r)
      <3>1. cred'[d] = cred[d] \/ cred'[d] = OnHeal(cred[d], req[r].scope.model)
        BY <2>1 DEF Heal
      <3>2. cred[d] \in Entry /\ "Manual" \in Reasons
        BY <1>1 DEF Reasons
      <3> DEFINE h == OnHeal(cred[d], req[r].scope.model)
      <3>3. h.window = cred[d].window
        BY <3>2, ReportsKeepWindow
      <3>4. cred'[d] = cred[d] \/ cred'[d] = h
        BY <3>1
      <3> HIDE DEF h
      <3>5. cred[d].window \in Nat
        BY <3>2 DEF Entry
      <3> QED  BY <3>3, <3>4, <3>5 DEF WindowOK
    <2>2. CASE PickSticky(r) \/ ClaimSticky(r) \/ Pick(r) \/ PickNone(r) \/ GiveUp(r) \/ Choose(r)
      BY <1>2, <2>2 DEF PickSticky, ClaimSticky, Pick, PickNone, GiveUp, Choose
    <2>3. CASE TokenSuperseded(r) \/ TokenLimited(r) \/ StreamEnds(r)
      BY <1>2, <2>3 DEF TokenSuperseded, TokenLimited, StreamEnds
    <2>4. CASE Token(r) \/ Call(r)
      <3>1. c \in Creds /\ e \in Entry
        BY <1>1, <2>4
        DEF Token, TokenReady, TokenSuperseded, TokenLimited, TokenFailed, TokenInvalid,
            TokenReloaded, TokenReport, Record, Call, CallSucceeds, StreamEnds, CallFails,
            CallQuota, CallSuspended, CallThrottled, CallRefreshed, CallOther, CallReport, ReqOK
      <3>2. {"Manual", "QuotaExceeded", "Suspended"} \subseteq Reasons
        BY DEF Reasons
      <3>3. CASE TokenReady(r)
        BY <1>3, <3>1, <3>3, <3>2, OperatorsKeepWindow DEF TokenReady
      <3>4. CASE TokenFailed(r) \/ TokenInvalid(r) \/ TokenReloaded(r)
        BY <1>3, <3>1, <3>2, <3>4, ReportsKeepWindow
           DEF TokenFailed, TokenInvalid, TokenReport, TokenReloaded
      <3>5. CASE Record(r)
        <4> DEFINE w == e.window + 1
        <4>1. RpmExceeded(e) \/ (e.window \in Nat /\ w <= RpmLimit)
          BY <1>1, <3>1 DEF RpmExceeded, Entry
        <4>2. UNCHANGED cred \/ (~RpmExceeded(e) /\ cred' = [cred EXCEPT ![c].window = w])
          <5> DEFINE slots == IF RpmLimit = 0 THEN 0 ELSE w
          <5>1. UNCHANGED cred \/ (~RpmExceeded(e) /\ cred' = [cred EXCEPT ![c].window = slots])
            BY <3>5 DEF Record
          <5>2. slots = w
            BY <1>1
          <5> HIDE DEF slots
          <5> QED  BY <5>1, <5>2
        <4>3. ASSUME cred' = [cred EXCEPT ![c].window = w], w <= RpmLimit PROVE WindowOK(d)
          <5>1. cred' = [cred EXCEPT ![c] = [e EXCEPT !.window = w]]
            BY <1>1, <3>1, <4>3
          <5>2. [e EXCEPT !.window = w].window <= RpmLimit
            BY <3>1, <4>3 DEF Entry
          <5> DEFINE f == [e EXCEPT !.window = w]
          <5>3. cred' = [cred EXCEPT ![c] = f] /\ f.window <= RpmLimit
            BY <5>1, <5>2
          <5> HIDE DEF f
          <5> QED  BY <3>1, <5>3, OneWindow
        <4> QED  BY <1>2, <4>1, <4>2, <4>3
      <3>6. CASE CallSucceeds(r)
        BY <1>3, <3>1, <3>2, <3>6, ReportsKeepWindow DEF CallSucceeds
      <3>7. CASE CallFails(r) \/ CallQuota(r) \/ CallSuspended(r)
        BY <1>3, <3>1, <3>2, <3>7, ReportsKeepWindow
           DEF CallFails, CallQuota, CallSuspended, CallReport
      <3>8. CASE CallThrottled(r) \/ CallRefreshed(r) \/ CallOther(r)
        BY <1>3, <3>1, <3>2, <3>8, OperatorsKeepWindow
           DEF CallThrottled, CallRefreshed, CallOther, CallReport
      <3> QED  BY <2>3, <2>4, <3>3, <3>4, <3>5, <3>6, <3>7, <3>8 DEF Token, Call
    <2> QED  BY <1>4, <2>1, <2>2, <2>4 DEF RequestStep, Select
  <1>5. ASSUME NEW c \in Creds, Admin(c) PROVE WindowOK(d)
    <2>1. cred[c] \in Entry /\ "Manual" \in Reasons
      BY <1>1 DEF Reasons
    <2>2. CASE AdminDisable(c)
      BY <1>2, <2>2 DEF AdminDisable, SweepBegin
    <2>3. CASE AdminEnable(c) \/ RecoverQuota(c)
      BY <1>3, <2>1, <2>3, AdminKeepsWindow DEF AdminEnable, RecoverQuota
    <2>4. CASE AdminReset(c)
      BY <1>1, <1>3, <2>1, <2>4, AdminKeepsWindow DEF AdminReset
    <2>5. CASE AdminRelogin(c)
      <3>1. ResetHealth(cred[c]).window <= RpmLimit
        BY <1>1, <2>1, AdminKeepsWindow
      <3>2. cred' = [cred EXCEPT ![c] = ResetHealth(cred[c])]
        BY <2>5 DEF AdminRelogin
      <3> QED  BY <3>1, <3>2, OneWindow
    <2>6. CASE AdminSetToken(c) \/ AdminClearThrottle(c)
      BY <1>3, <2>1, <2>6, OperatorsKeepWindow DEF AdminSetToken, AdminClearThrottle
    <2>7. CASE SweepStep(c)
      <3>1. sweep.why \in Reasons
        BY <2>7 DEF SweepStep, Sweep, Reasons
      <3> QED  BY <1>3, <2>1, <2>7, <3>1, AdminKeepsWindow DEF SweepStep
    <2>8. CASE AdminDelete(c)
      <3> DEFINE e == [LoadedEntry(FALSE, "None", 0, NoModel) EXCEPT !.live = FALSE]
      <3>1. e.window = 0 /\ cred' = [cred EXCEPT ![c] = e]
        BY <2>8 DEF AdminDelete, LoadedEntry
      <3> HIDE DEF e
      <3>2. e.window <= RpmLimit
        BY <1>1, <3>1
      <3> QED  BY <3>1, <3>2, OneWindow
    <2> QED  BY <1>5, <2>2, <2>3, <2>4, <2>5, <2>6, <2>7, <2>8 DEF Admin
  <1>6. ASSUME NEW c \in Creds, Clock(c) PROVE WindowOK(d)
    <2>1. CASE ThrottleEnds(c) \/ HealIntervalElapses(c)
      BY <1>1, <1>3, <2>1, OperatorsKeepWindow DEF ThrottleEnds, HealIntervalElapses
    <2>2. CASE WindowSlides(c)
      BY <1>1, <2>2 DEF WindowSlides, SetEntry, WindowOK, Entry
    <2> QED  BY <1>6, <2>1, <2>2 DEF Clock
  <1>7. ASSUME NEW S \in SUBSET Creds, AuditSuspend(S) PROVE WindowOK(d)
    <2>1. cred'[d] = cred[d] \/
            cred'[d] = [ClearStreak(DisableFor(cred[d], "Suspended")) EXCEPT !.fails = MaxFailures]
      BY <1>7 DEF AuditSuspend
    <2>2. cred'[d].window = cred[d].window /\ cred[d].window \in Nat
      BY <1>1, <2>1, AdminKeepsWindow DEF Reasons, Entry
    <2> QED  BY <2>2 DEF WindowOK
  <1>8. CASE UNCHANGED vars \/ BulkDisable \/ SweepEnd
                \/ \E r \in Requests : \E scope \in Scopes : Begin(r, scope)
    BY <1>2, <1>8 DEF vars, BulkDisable, SweepBegin, SweepEnd, Begin
  <1> QED  BY <1>4, <1>5, <1>6, <1>7, <1>8 DEF Next

(* However many requests were shown the same free slot before their tokens  *)
(* arrived, the calls of a credential in its window never pass the limit:   *)
(* whoever finds the window full when it records its call goes back to the  *)
(* selection (record_request).                                              *)
THEOREM RpmLimitHolds == Spec => []RpmRespected
  <1>1. Init => RpmRespected
    <2>1. \A e \in LoadedEntries : e.window = 0
      BY DEF LoadedEntries, LoadedEntry
    <2> QED  BY <2>1, LimitsAssumption DEF Init, RpmRespected
  <1>2. Inv /\ Inv' /\ RpmRespected /\ [Next]_vars => RpmRespected'
    <2> SUFFICES ASSUME Inv, Inv', RpmRespected, [Next]_vars, RpmLimit > 0, NEW c \in Creds
                 PROVE  cred'[c].window <= RpmLimit
      BY DEF RpmRespected
    <2>1. cred[c].window <= RpmLimit /\ WindowOK(c)
      BY WindowStep DEF RpmRespected
    <2>2. cred[c].window \in Nat /\ cred'[c].window \in Nat /\ RpmLimit \in Nat
      BY LimitsAssumption DEF Inv, PoolGood, Entry
    <2> QED  BY <2>1, <2>2 DEF WindowOK
  <1> QED  BY <1>1, <1>2, Invariance, PTL DEF Spec

=============================================================================
