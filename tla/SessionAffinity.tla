--------------------------- MODULE SessionAffinity ---------------------------
(***************************************************************************)
(* Which credential served a conversation last                             *)
(* (src/kiro/session_affinity.rs): a bounded table whose entries expire,   *)
(* written by every request that succeeds.  A request reads the clock      *)
(* before it takes the table's lock.                                       *)
(***************************************************************************)
EXTENDS Integers, FiniteSets

CONSTANTS
    Sessions, Servers,       \* conversations and credentials
    Binders,                 \* requests in their last step
    SessionCap,              \* CAPACITY
    Lifetimes,               \* values of ttl_secs an administrator sets
    LastTick                 \* bound: how far time runs

ASSUME AffinityAssumption ==
    /\ IsFiniteSet(Sessions)
    /\ SessionCap \in Nat \ {0} /\ Lifetimes \subseteq Nat \ {0} /\ Lifetimes # {}
    /\ LastTick \in Nat

VARIABLES
    bindings,        \* session -> credential and expiry
    tick,            \* Instant::now
    lifetime,        \* ttl_secs
    sticky,          \* enabled
    binder           \* bind under way: what it read

affinityVars == <<bindings, tick, lifetime, sticky, binder>>

NoBind == [pc |-> "idle", session |-> 0, server |-> 0, now |-> 0, until |-> 0]

AffinityInit ==
    /\ bindings = <<>>
    /\ tick = 0
    /\ lifetime = CHOOSE t \in Lifetimes : TRUE
    /\ sticky = TRUE
    /\ binder = [b \in Binders |-> NoBind]

Live(t, now) == {s \in DOMAIN t : t[s].until > now}
Keep(t, sessions) == [s \in DOMAIN t \cap sessions |-> t[s]]

Tick ==
    /\ tick < LastTick
    /\ tick' = tick + 1
    /\ UNCHANGED <<bindings, lifetime, sticky, binder>>

\* set_session_affinity_config; the entries keep the lifetime they have.
SetAffinity ==
    /\ lifetime' \in Lifetimes /\ sticky' \in BOOLEAN
    /\ UNCHANGED <<bindings, tick, binder>>

\* lookup removes an expired entry it meets; evict_expired all of them.
Forget ==
    /\ \E gone \in {{s} : s \in Sessions} \cup {Sessions} :
         bindings' = Keep(bindings, Live(bindings, tick) \cup (Sessions \ gone))
    /\ UNCHANGED <<tick, lifetime, sticky, binder>>

\* bind: the clock and the expiry ...
StartBind(b, s, c) ==
    /\ binder[b].pc = "idle" /\ sticky
    /\ binder' = [binder EXCEPT ![b] =
           [pc |-> "bind", session |-> s, server |-> c, now |-> tick, until |-> tick + lifetime]]
    /\ UNCHANGED <<bindings, tick, lifetime, sticky>>

Full(t) == Cardinality(DOMAIN t) >= SessionCap

Put(t, b) ==
    [s \in DOMAIN t \cup {binder[b].session} |->
        IF s = binder[b].session THEN [server |-> binder[b].server, until |-> binder[b].until] ELSE t[s]]

\* Slip: only what has expired goes.
MakeRoomExpired(now) ==
    {IF Full(bindings) THEN Keep(bindings, Live(bindings, now)) ELSE bindings}

\* Slip: the entry that expires last goes.
MakeRoomNewest(now) ==
    LET alive == IF Full(bindings) THEN Keep(bindings, Live(bindings, now)) ELSE bindings
    IN IF Full(alive)
       THEN {Keep(alive, DOMAIN alive \ {s}) :
               s \in {s \in DOMAIN alive : \A r \in DOMAIN alive : alive[s].until >= alive[r].until}}
       ELSE {alive}

\* First what has expired goes; if the table is still full, one of those
\* that expire first.
MakeRoom(now) ==
    LET alive == IF Full(bindings) THEN Keep(bindings, Live(bindings, now)) ELSE bindings
    IN IF Full(alive)
       THEN {Keep(alive, DOMAIN alive \ {s}) :
               s \in {s \in DOMAIN alive : \A r \in DOMAIN alive : alive[s].until <= alive[r].until}}
       ELSE {alive}

\* ... and the table.
Bind(b) ==
    /\ binder[b].pc = "bind"
    /\ IF binder[b].session \in DOMAIN bindings THEN bindings' = Put(bindings, b)
       ELSE \E t \in MakeRoom(binder[b].now) : bindings' = Put(t, b)
    /\ binder' = [binder EXCEPT ![b] = NoBind]
    /\ UNCHANGED <<tick, lifetime, sticky>>

AffinityNext ==
    \/ Tick \/ SetAffinity \/ Forget
    \/ \E b \in Binders : Bind(b) \/ \E s \in Sessions, c \in Servers : StartBind(b, s, c)

AffinitySpec == AffinityInit /\ [][AffinityNext]_affinityVars

-----------------------------------------------------------------------------
(* Properties.                                                              *)

\* Types, and the capacity: however many conversations renew and expire, the
\* table never holds more than CAPACITY.
AffinityTypeOK ==
    /\ DOMAIN bindings \subseteq Sessions
    /\ \A s \in DOMAIN bindings : bindings[s].server \in Servers /\ bindings[s].until \in Nat
    /\ Cardinality(DOMAIN bindings) <= SessionCap
    /\ tick \in Nat /\ lifetime \in Lifetimes /\ sticky \in BOOLEAN
    /\ \A b \in Binders : binder[b].pc = "bind" =>
           binder[b].session \in Sessions /\ binder[b].server \in Servers
               /\ binder[b].now \in Nat /\ binder[b].until \in Nat

\* A conversation that has not expired loses its credential only to a full
\* table in which nothing had expired when the evicting request read the
\* clock (bind), and then it is one of those that expire first.
EvictsFairly ==
    [][\A s \in Live(bindings, tick) \ DOMAIN bindings' :
          /\ Full(bindings)
          /\ \A r \in DOMAIN bindings : bindings[s].until <= bindings[r].until
          /\ \E b \in Binders : binder[b].pc = "bind" /\ DOMAIN bindings = Live(bindings, binder[b].now)
      ]_affinityVars

=============================================================================
