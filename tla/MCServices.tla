---------------------------- MODULE MCServices -----------------------------
(***************************************************************************)
(* What administrators change while the API serves: client keys, groups,   *)
(* settings, proxies and the executable itself; and the counters of the    *)
(* credentials on disk.  They share no state: each is checked on its own   *)
(* (part says which one moves).                                            *)
(***************************************************************************)
EXTENDS ClientKeys, AccountGroups, RuntimeConfig, ProxyPool, StatsSaver, BinaryUpdate, TLC

VARIABLE part

\* The proxies begin in one way where they do not move.
Init ==
    /\ part \in {"keys", "groups", "config", "proxies", "stats", "update"}
    /\ KeyInit /\ GroupInit /\ ConfigInit /\ ProxyInit /\ StatsInit /\ UpdateInit
    /\ part # "proxies" =>
          /\ egress = [c \in Egresses |-> Setting(0, "direct")] /\ globalProxy = "none"
          /\ ~rotating.rotate

Rest(p) ==
    /\ p # "keys" => UNCHANGED keyVars
    /\ p # "groups" => UNCHANGED groupVars
    /\ p # "config" => UNCHANGED configVars
    /\ p # "proxies" => UNCHANGED proxyVars
    /\ p # "stats" => UNCHANGED statsVars
    /\ p # "update" => UNCHANGED updateVars

Next ==
    /\ UNCHANGED part
    /\ \/ part = "keys" /\ KeyNext
       \/ part = "groups" /\ GroupNext
       \/ part = "config" /\ ConfigNext
       \/ part = "proxies" /\ ProxyNext
       \/ part = "stats" /\ StatsNext
       \/ part = "update" /\ UpdateNext
    /\ Rest(part)

Spec ==
    Init /\ [][Next]_<<part, keyVars, groupVars, configVars, proxyVars, statsVars, updateVars>>

\* The type invariants of the parts.
ServicesTypeOK == KeyTypeOK /\ GroupTypeOK /\ ConfigTypeOK /\ StatsTypeOK

\* What a client key is worth: its limit, its own requests and its secret, and
\* exactly the accounts its group was given (ClientKeyManager, GroupManager).
ClientRightsKept == KeysKept /\ GroupsKept

\* Requests are alike.
Perms == Permutations(Visits)

=============================================================================
