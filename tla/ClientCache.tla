---------------------------- MODULE ClientCache ----------------------------
(***************************************************************************)
(* The HTTP clients the provider keeps, one per effective proxy            *)
(* (ClientCache in src/kiro/provider.rs): the client of the global proxy   *)
(* stays, the others are evicted in the order they came.                   *)
(***************************************************************************)
EXTENDS Integers, FiniteSets, SequencesExt

CONSTANTS
    Proxies,         \* proxy configurations, and
    Direct,          \* no proxy
    ClientCap        \* CLIENT_CACHE_CAP

ASSUME ClientAssumption == Direct \notin Proxies /\ ClientCap \in Nat \ {0}

VARIABLES
    globalProxy,     \* MultiTokenManager.proxy
    clients,         \* the keys of map
    order,           \* the evictable keys, oldest first
    protected        \* the key that is not evicted

clientVars == <<globalProxy, clients, order, protected>>

ProxyKeys == Proxies \cup {Direct}

ClientInit ==
    /\ globalProxy = Direct /\ protected = Direct
    /\ clients = {Direct} /\ order = <<>>

\* The administrator sets the global proxy; the cache hears of it later.
SetGlobalProxy(p) ==
    /\ globalProxy' = p
    /\ UNCHANGED <<clients, order, protected>>

\* Slip: the old global client stays in the map.
FollowKeeping(p) ==
    [protected |-> p, order |-> RemoveFirst(order, p), clients |-> clients]

\* ClientCache::set_global_proxy: what is kept and in which order (a key waits
\* once, so that retain drops one).
Follow(p) ==
    IF p = protected THEN [protected |-> protected, order |-> order, clients |-> clients]
    ELSE [protected |-> p, order |-> RemoveFirst(order, p), clients |-> clients \ {protected}]

\* ClientCache::insert.
Insert(c, key) ==
    IF key = c.protected \/ key \in c.clients THEN [c EXCEPT !.clients = @ \cup {key}]
    ELSE LET out == IF Len(c.order) >= ClientCap THEN Len(c.order) - ClientCap + 1 ELSE 0
         IN [c EXCEPT !.order = Append(SubSeq(@, out + 1, Len(@)), key),
                      !.clients = (@ \ {c.order[i] : i \in 1..out}) \cup {key}]

\* client_for, one section of the cache's lock; the client may fail to be
\* built.  A credential goes direct, has a proxy of its own, or uses the
\* global one (effective_proxy).
ClientFor(own) ==
    LET c == Follow(globalProxy)
        key == IF own = "global" THEN globalProxy ELSE own
    IN \E after \in {c, IF key \in c.clients THEN c ELSE Insert(c, key)} :
         /\ clients' = after.clients /\ order' = after.order /\ protected' = after.protected
         /\ UNCHANGED globalProxy

ClientNext ==
    \/ \E p \in ProxyKeys : SetGlobalProxy(p)
    \/ \E own \in ProxyKeys \cup {"global"} : ClientFor(own)

ClientSpec == ClientInit /\ [][ClientNext]_clientVars

-----------------------------------------------------------------------------
(* Properties.                                                              *)

\* Types; and every client but the global proxy's waits for eviction once, and
\* the global proxy's does not, wherever its key came from (set_global_proxy):
\* the cache never grows past its capacity and the one client kept for good.
ClientsAccounted ==
    /\ {globalProxy, protected} \subseteq ProxyKeys /\ clients \subseteq ProxyKeys
    /\ order \in Seq(ProxyKeys) /\ IsInjective(order)
    /\ clients \ {protected} = ToSet(order) /\ protected \notin ToSet(order)
    /\ Cardinality(clients) <= ClientCap + 1

=============================================================================
