----------------------------- MODULE ProxyPool -----------------------------
(***************************************************************************)
(* The proxies administrators keep, and the copies of them the credentials *)
(* carry: probes that disable and enable proxies, rotations that replace   *)
(* the proxy of a credential, edits that reach the credentials linked to a *)
(* proxy, and the alignment of the links after a rotation and at a start.  *)
(*                                                                         *)
(* One administrator, whose operations are several steps, works beside the *)
(* checker.  Each step holds one lock; reads of different locks with       *)
(* nothing decided in between are one step.  A failed write of the pool or *)
(* of the credentials takes the change back: a first step has then not     *)
(* happened, a later one leaves the earlier ones standing.                 *)
(***************************************************************************)
EXTENDS Integers, FiniteSets, SequencesExt

CONSTANTS
    Addresses,      \* endpoints with their authentication
    Egresses,       \* the credentials
    MaxProxies,     \* bound: entries the pool ever had
    MaxAsked,       \* bound: operations of the administrator
    ProbeFailures   \* MAX_PROXY_PROBE_FAILURES

ASSUME ProxyAssumption ==
    /\ {MaxProxies, MaxAsked} \subseteq Nat /\ ProbeFailures \in Nat \ {0}
    /\ Addresses # {} /\ Addresses \cap {"direct", "global", "none"} = {}
    /\ IsFiniteSet(Egresses) /\ "global" \notin Egresses

VARIABLES
    proxies,        \* id -> entry
    nextProxy,
    egress,         \* the proxy fields of each credential
    globalProxy,    \* an address or "none"
    moved,          \* credentials and "global": generations that moved since the checker read them
    checker,        \* check_all_proxies of the background task
    admin,          \* the administrator's operation under way
    asked,          \* how many there were
    rotating        \* proxy_auto_rotate_enabled and proxy_direct_fallback_enabled

proxyVars == <<proxies, nextProxy, egress, globalProxy, moved, checker, admin, asked, rotating>>

(* manual, seen and behind are history: disabled by the administrator while *)
(* in service; the address the last verdict was about; an edit whose write  *)
(* of the linked credentials failed.                                        *)
FreshProxy(a, found) ==
    [at |-> a, on |-> TRUE, auto |-> FALSE, health |-> "unknown", fails |-> 0,
     detected |-> found, manual |-> FALSE, seen |-> "none", behind |-> FALSE]

Only(x, e) == [y \in {x} |-> e]

Setting(link, url) == [link |-> link, url |-> url, temp |-> FALSE, assigned |-> FALSE]

CheckerIdle == [pc |-> "idle"]
AdminIdle == [pc |-> "idle"]

ProxyInit ==
    /\ LET a == CHOOSE x \in Addresses : TRUE      \* addresses are alike
       IN  /\ proxies = Only(1, FreshProxy(a, FALSE))
           /\ egress \in [Egresses -> {Setting(1, a), Setting(0, "global"), Setting(0, "direct")}]
    /\ nextProxy = 2
    /\ globalProxy \in Addresses \cup {"none"}
    /\ moved = {} /\ checker = CheckerIdle /\ admin = AdminIdle /\ asked = 0
    /\ rotating \in {[rotate |-> FALSE, direct |-> FALSE], [rotate |-> TRUE, direct |-> FALSE],
                     [rotate |-> TRUE, direct |-> TRUE]}

Listed == {proxies[i].at : i \in DOMAIN proxies}
IdOf(p, a) == CHOOSE i \in DOMAIN p : p[i].at = a

\* The pool with new entries, n the first id, while the bound leaves room.
Room(n, as) == n + Cardinality(as) - 1 <= MaxProxies
Grown(n, as, found) ==
    LET new == SetToSeq(as)
    IN  [i \in DOMAIN proxies \cup n..(n + Len(new) - 1) |->
            IF i \in DOMAIN proxies THEN proxies[i] ELSE FreshProxy(new[i - n + 1], found)]

-----------------------------------------------------------------------------
(* What the pool says of an address (availability_for_proxy, assignable_urls): *)
(* a detected address counts only once it was probed.                       *)

Unproved(e) == e.detected /\ e.health = "unknown" /\ (e.on \/ e.auto)
Assignable(e) == e.on /\ e.health # "unhealthy" /\ ~Unproved(e)

Available(a) == \E i \in DOMAIN proxies : proxies[i].at = a /\ Assignable(proxies[i])
Unavailable(a) ==
    \E i \in DOMAIN proxies :
        proxies[i].at = a /\ ~Unproved(proxies[i]) /\ ~Assignable(proxies[i])

\* The proxy a credential uses: its own, else the global one.
InUse(s, g) ==
    CASE s.temp \/ s.url = "direct" -> "none"
      [] ~s.temp /\ s.url = "global" -> g
      [] OTHER -> s.url
Configured(s, g) == IF s.url = "global" THEN g ELSE s.url

\* Slip: any entry is disabled by failures, one an administrator disabled included.
ProbedCarelessly(e, at, ok) ==
    LET fails == IF e.fails < ProbeFailures THEN e.fails + 1 ELSE e.fails
    IN  IF ok
        THEN [e EXCEPT !.health = "healthy", !.fails = 0, !.on = @ \/ e.auto,
                       !.auto = FALSE, !.seen = at]
        ELSE [e EXCEPT !.health = "unhealthy", !.fails = fails,
                       !.on = @ /\ fails < ProbeFailures,
                       !.auto = @ \/ fails >= ProbeFailures, !.seen = at]

(* apply_probe_result.  The count of failures stops at the limit: only      *)
(* whether it is reached matters.                                           *)
Probed(e, at, ok) ==
    LET fails == IF e.fails < ProbeFailures THEN e.fails + 1 ELSE e.fails
        trips == fails >= ProbeFailures /\ e.on
    IN  IF ok
        THEN [e EXCEPT !.health = "healthy", !.fails = 0, !.on = @ \/ e.auto,
                       !.auto = FALSE, !.seen = at]
        ELSE [e EXCEPT !.health = "unhealthy", !.fails = fails, !.on = @ /\ ~trips,
                       !.auto = @ \/ trips, !.seen = at]

\* Results are written back only where the address is still the one probed.
Updated(targets, good) ==
    [i \in DOMAIN proxies |->
        IF i \in DOMAIN targets /\ targets[i] = proxies[i].at
        THEN Probed(proxies[i], targets[i], i \in good) ELSE proxies[i]]

-----------------------------------------------------------------------------
(* Credentials take bindings (write_credential_proxies): by hand they also  *)
(* leave the care of the rotation.                                          *)

Rebound(s, b, manual) ==
    IF s.url = b.url /\ s.link = b.link /\ ~(manual /\ (s.assigned \/ s.temp)) THEN s
    ELSE [s EXCEPT !.link = b.link, !.url = b.url, !.temp = @ /\ ~manual,
                   !.assigned = @ /\ ~manual]

\* Slip: alignments do not move the generations.
BindSilently(bindings, manual) ==
    LET new == [c \in Egresses |-> IF c \in DOMAIN bindings
                                   THEN Rebound(egress[c], bindings[c], manual) ELSE egress[c]]
    IN  egress' = new /\ moved' = moved

Bind(bindings, manual) ==
    LET new == [c \in Egresses |-> IF c \in DOMAIN bindings
                                   THEN Rebound(egress[c], bindings[c], manual) ELSE egress[c]]
    IN  /\ egress' = new
        /\ moved' = moved \cup {c \in Egresses : new[c] # egress[c]}

Binding(i) == [link |-> i, url |-> proxies[i].at]

(* migrate_credential_proxies: what the links become.  An address that is   *)
(* not in the pool joins it; a linked copy follows the pool.                *)
Stray(settings) ==
    {c \in Egresses : /\ settings[c].url \in Addresses
                      /\ settings[c].link \notin DOMAIN proxies}
Joining(settings) == {settings[c].url : c \in Stray(settings)} \ Listed

Fixes(settings, p) ==
    LET fix(c) ==
            LET s == settings[c]
            IN  CASE s.url \notin Addresses -> [link |-> 0, url |-> s.url]
                  [] s.url \in Addresses /\ s.link \in DOMAIN proxies ->
                         [link |-> s.link, url |-> proxies[s.link].at]
                  [] OTHER -> [link |-> IdOf(p, s.url), url |-> s.url]
        known == {c \in Egresses : c \in Stray(settings) => \E i \in DOMAIN p : p[i].at = settings[c].url}
        wrong == {c \in known : fix(c) # [link |-> settings[c].link, url |-> settings[c].url]}
    IN  [c \in wrong |-> fix(c)]

\* The pool after an alignment that finds room for every address, or for none.
Joined(n, settings) ==
    IF Room(n, Joining(settings)) THEN Grown(n, Joining(settings), FALSE) ELSE proxies
NextId(n, p) == n + Cardinality(DOMAIN p) - Cardinality(DOMAIN proxies)

-----------------------------------------------------------------------------
(* The administrator. *)

Asks == admin = AdminIdle /\ asked < MaxAsked /\ asked' = asked + 1

AddProxy(a) ==
    /\ Asks /\ a \notin Listed /\ Room(nextProxy, {a})
    /\ proxies' = Grown(nextProxy, {a}, FALSE) /\ nextProxy' = nextProxy + 1
    /\ UNCHANGED <<egress, globalProxy, moved, checker, admin, rotating>>

\* A new address knows nothing of the old one's health.
EditProxy(i, a) ==
    /\ Asks /\ a \notin Listed
    /\ proxies' = [proxies EXCEPT ![i].at = a, ![i].health = "unknown", ![i].fails = 0,
                                  ![i].on = @ \/ proxies[i].auto, ![i].auto = FALSE]
    /\ admin' = [pc |-> "sync", id |-> i, at |-> a]
    /\ UNCHANGED <<nextProxy, egress, globalProxy, moved, checker, rotating>>

\* The linked credentials are read, then written.
SyncLinked ==
    /\ admin.pc = "sync"
    /\ LET linked == {c \in Egresses : egress[c].link = admin.id}
       IN  admin' = [pc |-> "write", then |-> "none", sync |-> admin.id,
                     bindings |-> [c \in linked |-> [link |-> admin.id, url |-> admin.at]]]
    /\ UNCHANGED <<proxies, nextProxy, egress, globalProxy, moved, checker, asked, rotating>>

\* A proxy is deleted when no credential was linked to it a moment ago.
AskDelete(i) ==
    /\ Asks /\ \A c \in Egresses : egress[c].link # i
    /\ admin' = [pc |-> "delete", id |-> i]
    /\ UNCHANGED <<proxies, nextProxy, egress, globalProxy, moved, checker, rotating>>

DeleteProxy ==
    /\ admin.pc = "delete" /\ admin' = AdminIdle
    /\ proxies' = [i \in DOMAIN proxies \ {admin.id} |-> proxies[i]]
    /\ UNCHANGED <<nextProxy, egress, globalProxy, moved, checker, asked, rotating>>

SetEnabled(i, on) ==
    /\ Asks
    /\ proxies' = [proxies EXCEPT ![i].on = on, ![i].auto = @ /\ ~on,
                                  ![i].fails = IF on THEN 0 ELSE @,
                                  ![i].manual = ~on /\ (@ \/ ~proxies[i].auto)]
    /\ UNCHANGED <<nextProxy, egress, globalProxy, moved, checker, admin, rotating>>

(* The choice of a credential's proxy is resolved, then written: an enabled *)
(* entry or the one it has, the global proxy, none, or an address of its    *)
(* own that joins the pool afterwards.                                      *)
Choose(c) ==
    /\ Asks
    /\ \/ \E i \in DOMAIN proxies :
             /\ proxies[i].on \/ egress[c].link = i
             /\ admin' = [pc |-> "write", then |-> "none", sync |-> 0,
                          bindings |-> Only(c, Binding(i))]
       \/ \E url \in {"global", "direct"} :
             admin' = [pc |-> "write", then |-> "none", sync |-> 0,
                       bindings |-> Only(c, [link |-> 0, url |-> url])]
       \/ \E a \in Addresses :
             admin' = [pc |-> "write", then |-> "adopt", sync |-> 0,
                       bindings |-> Only(c, [link |-> 0, url |-> a])]
    /\ UNCHANGED <<proxies, nextProxy, egress, globalProxy, moved, checker, rotating>>

\* assign_proxies_round_robin: enabled entries not found unhealthy, in turn.
RoundRobin ==
    LET able == SetToSeq({i \in DOMAIN proxies : proxies[i].on /\ proxies[i].health # "unhealthy"})
        cs == SetToSeq(Egresses)
        nth(c) == CHOOSE k \in 1..Len(cs) : cs[k] = c
    IN  /\ Asks /\ able # <<>>
        /\ admin' = [pc |-> "write", then |-> "none", sync |-> 0,
                     bindings |-> [c \in Egresses |-> Binding(able[((nth(c) - 1) % Len(able)) + 1])]]
        /\ UNCHANGED <<proxies, nextProxy, egress, globalProxy, moved, checker, rotating>>

WriteChoice ==
    /\ admin.pc = "write"
    /\ \/ /\ Bind(admin.bindings, TRUE)
          /\ admin' = IF admin.then = "adopt"
                      THEN [pc |-> "adopt", bindings |-> admin.bindings] ELSE AdminIdle
          /\ UNCHANGED proxies
       \/ /\ admin' = AdminIdle /\ UNCHANGED <<egress, moved>>
          /\ proxies' = [i \in DOMAIN proxies |->
                [proxies[i] EXCEPT !.behind = @ \/ i = admin.sync]]
    /\ UNCHANGED <<nextProxy, globalProxy, checker, asked, rotating>>

\* adopt_custom_proxy: a failure is left to the next start.
Adoption ==
    LET c == CHOOSE x \in DOMAIN admin.bindings : TRUE
        a == admin.bindings[c].url
        new == {a} \ Listed
        p == IF Room(nextProxy, new) THEN Grown(nextProxy, new, FALSE) ELSE proxies
    IN  /\ admin.pc = "adopt"
        /\ proxies' = p /\ nextProxy' = NextId(nextProxy, p)
        /\ admin' = IF \E i \in DOMAIN p : p[i].at = a
                    THEN [pc |-> "write", then |-> "none", sync |-> 0,
                          bindings |-> Only(c, [link |-> IdOf(p, a), url |-> a])]
                    ELSE AdminIdle
        /\ UNCHANGED <<egress, globalProxy, moved, checker, asked, rotating>>

SetGlobal(g) ==
    /\ Asks
    /\ globalProxy' = g /\ moved' = moved \cup {"global"}
    /\ UNCHANGED <<proxies, nextProxy, egress, checker, admin, rotating>>

\* check_one: any entry may be probed, a disabled one too.
AskProbe(i) ==
    /\ Asks
    /\ admin' = [pc |-> "probe", targets |-> Only(i, proxies[i].at)]
    /\ UNCHANGED <<proxies, nextProxy, egress, globalProxy, moved, checker, rotating>>

ProbeAnswers ==
    /\ admin.pc = "probe" /\ admin' = AdminIdle
    /\ \E good \in SUBSET DOMAIN admin.targets : proxies' = Updated(admin.targets, good)
    /\ UNCHANGED <<nextProxy, egress, globalProxy, moved, checker, asked, rotating>>

AdminNext ==
    \/ \E a \in Addresses : AddProxy(a)
    \/ \E i \in DOMAIN proxies :
          \/ \E a \in Addresses : EditProxy(i, a)
          \/ AskDelete(i) \/ AskProbe(i)
          \/ \E on \in BOOLEAN : SetEnabled(i, on)
    \/ \E c \in Egresses : Choose(c)
    \/ \E g \in Addresses \cup {"none"} : SetGlobal(g)
    \/ SyncLinked \/ DeleteProxy \/ RoundRobin \/ WriteChoice \/ Adoption \/ ProbeAnswers

-----------------------------------------------------------------------------
(* The checker: detect, probe, rotate, align. *)

\* Addresses in use join the pool; entries in service or taken out by probes
\* are probed.
Detect ==
    LET used == ({globalProxy} \cup {InUse(egress[c], globalProxy) : c \in Egresses}
                   \cup {Configured(egress[c], globalProxy) : c \in {d \in Egresses : egress[d].temp}})
                  \cap Addresses
        new == used \ Listed
        p == IF Room(nextProxy, new) THEN Grown(nextProxy, new, TRUE) ELSE proxies
        probed == {i \in DOMAIN p : p[i].on \/ p[i].auto}
    IN  /\ checker = CheckerIdle
        /\ proxies' = p /\ nextProxy' = NextId(nextProxy, p)
        /\ checker' = [pc |-> "probe", targets |-> [i \in probed |-> p[i].at]]
        /\ UNCHANGED <<egress, globalProxy, moved, admin, asked, rotating>>

Probes ==
    /\ checker.pc = "probe"
    /\ \E good \in SUBSET DOMAIN checker.targets : proxies' = Updated(checker.targets, good)
    /\ checker' = IF rotating.rotate THEN [pc |-> "rotate"] ELSE CheckerIdle
    /\ UNCHANGED <<nextProxy, egress, globalProxy, moved, admin, asked, rotating>>

\* The available proxies and the global one are read with its generation.
ReadGlobal ==
    /\ checker.pc = "rotate"
    /\ checker' = [pc |-> "judge", global |-> globalProxy,
                   able |-> {proxies[i].at : i \in {j \in DOMAIN proxies : Assignable(proxies[j])}}]
    /\ moved' = moved \ {"global"}
    /\ UNCHANGED <<proxies, nextProxy, egress, globalProxy, admin, asked, rotating>>

(* What the rotation makes of a setting: nothing, or one of the targets.    *)
(* (The code takes the available addresses in turn.)                        *)
Targets(s, g, able) ==
    LET uses == InUse(s, g)
    IN  IF uses = "none"
        THEN CASE s.temp /\ Available(Configured(s, g)) -> {"restore"}
               [] ~(s.temp /\ Available(Configured(s, g)))
                    /\ (s.temp \/ s.url = "direct") /\ s.assigned -> able
               [] OTHER -> {}
        ELSE CASE ~Unavailable(uses) -> {}
               [] Unavailable(uses) /\ able \ {uses} # {} -> able \ {uses}
               [] OTHER -> IF rotating.direct THEN {"direct"} ELSE {}

\* Credentials that are disabled are passed over.
Judge ==
    /\ checker.pc = "judge"
    /\ \E enabled \in SUBSET Egresses :
         LET turns == {c \in enabled : Targets(egress[c], checker.global, checker.able) # {}}
         IN  IF turns = {} THEN checker' = CheckerIdle
             ELSE \E targets \in [turns -> Addresses \cup {"restore", "direct"}] :
                    /\ \A c \in turns :
                         targets[c] \in Targets(egress[c], checker.global, checker.able)
                    /\ checker' = [pc |-> "apply", global |-> checker.global,
                                   read |-> egress, targets |-> targets]
    /\ moved' = moved \ Egresses
    /\ UNCHANGED <<proxies, nextProxy, egress, globalProxy, admin, asked, rotating>>

Rotated(s, target) ==
    CASE target = "direct" -> [s EXCEPT !.temp = TRUE, !.assigned = TRUE]
      [] target = "restore" -> [s EXCEPT !.temp = FALSE, !.assigned = FALSE]
      [] OTHER -> [link |-> 0, url |-> target, temp |-> FALSE, assigned |-> TRUE]

\* Slip: the generation of the global proxy is not compared.
RotateUnderAnother ==
    LET turns == DOMAIN checker.targets
    IN  /\ checker.pc = "apply"
        /\ \/ checker' = CheckerIdle /\ UNCHANGED <<egress, moved>>
           \/ /\ moved \cap turns = {}
              /\ egress' = [c \in Egresses |-> IF c \in turns
                                THEN Rotated(egress[c], checker.targets[c]) ELSE egress[c]]
              /\ moved' = moved \cup turns
              /\ checker' = [pc |-> "migrate"]
        /\ UNCHANGED <<proxies, nextProxy, globalProxy, admin, asked, rotating>>

(* apply_proxy_rotation: all or nothing, and only when no credential of it  *)
(* and not the global proxy has changed since; a credential that was        *)
(* disabled or deleted meanwhile, or a failed write, refuses it too.        *)
Rotate ==
    LET turns == DOMAIN checker.targets
    IN  /\ checker.pc = "apply"
        /\ \/ checker' = CheckerIdle /\ UNCHANGED <<egress, moved>>
           \/ /\ moved \cap (turns \cup {"global"}) = {}
              /\ egress' = [c \in Egresses |-> IF c \in turns
                                THEN Rotated(egress[c], checker.targets[c]) ELSE egress[c]]
              /\ moved' = moved \cup turns
              /\ checker' = [pc |-> "migrate"]
        /\ UNCHANGED <<proxies, nextProxy, globalProxy, admin, asked, rotating>>

Migrate ==
    LET p == Joined(nextProxy, egress)
    IN  /\ checker.pc = "migrate"
        /\ proxies' = p /\ nextProxy' = NextId(nextProxy, p)
        /\ checker' = [pc |-> "align", fixes |-> Fixes(egress, p)]
        /\ UNCHANGED <<egress, globalProxy, moved, admin, asked, rotating>>

Align ==
    /\ checker.pc = "align" /\ checker' = CheckerIdle
    /\ Bind(checker.fixes, FALSE)
    /\ UNCHANGED <<proxies, nextProxy, globalProxy, admin, asked, rotating>>

CheckerNext == Detect \/ Probes \/ ReadGlobal \/ Judge \/ Rotate \/ Migrate \/ Align

-----------------------------------------------------------------------------

\* The process stops at any point and starts again: links are aligned before
\* anything is served, and ids begin behind the largest one left.
ProxyRestart ==
    \E first \in 1..nextProxy :
        LET p == Joined(first, egress)
            fixes == Fixes(egress, p)
        IN  /\ \A i \in DOMAIN proxies : i < first
            /\ first > 1 => first - 1 \in DOMAIN proxies
            /\ proxies' = [i \in DOMAIN p |-> [p[i] EXCEPT !.behind = FALSE]]
            /\ nextProxy' = NextId(first, p)
            /\ egress' = [c \in Egresses |-> IF c \in DOMAIN fixes
                                             THEN Rebound(egress[c], fixes[c], FALSE) ELSE egress[c]]
            /\ moved' = {} /\ checker' = CheckerIdle /\ admin' = AdminIdle
            /\ UNCHANGED <<globalProxy, asked, rotating>>

ProxyNext == AdminNext \/ CheckerNext \/ ProxyRestart

ProxySpec == ProxyInit /\ [][ProxyNext]_proxyVars

-----------------------------------------------------------------------------
(* Properties. *)

(* A proxy an administrator has taken out of service stays out, whatever    *)
(* probes say of it; what the pool says of a proxy is about the address it  *)
(* has now; no address is listed twice.  Without rotations a link and its   *)
(* copy agree whenever the administrator is done, unless the write that was *)
(* to bring the copies after an edit failed.                                *)
ProxiesKept ==
    /\ \A i \in DOMAIN proxies :
          /\ proxies[i].manual => ~proxies[i].on
          /\ proxies[i].health # "unknown" => proxies[i].seen = proxies[i].at
          /\ \A j \in DOMAIN proxies : proxies[i].at = proxies[j].at => i = j
    /\ ~rotating.rotate /\ admin = AdminIdle =>
          \A c \in Egresses : LET s == egress[c] IN
              s.link # 0 =>
                 /\ s.link \in DOMAIN proxies
                 /\ s.url = proxies[s.link].at \/ proxies[s.link].behind

(* A rotation replaces what it judged and nothing else: the setting of the  *)
(* credential and the global proxy are those it read, and a direct egress   *)
(* the administrator chose is left alone (apply_proxy_rotation).            *)
RotationJudges ==
    [][\A c \in Egresses :
         checker.pc = "apply" /\ checker'.pc = "migrate" /\ egress'[c] # egress[c] =>
             /\ egress[c] = checker.read[c] /\ globalProxy = checker.global
             /\ egress[c].url = "direct" => egress[c].assigned]_proxyVars

=============================================================================
