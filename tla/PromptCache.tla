---------------------------- MODULE PromptCache ----------------------------
(***************************************************************************)
(* The prompt cache that kiro-rs imitates to report what a request would   *)
(* have read and written (src/anthropic/cache_metering.rs).  A request     *)
(* looks for the longest prefix that was written before, one lock per      *)
(* probe, then writes its own breakpoints; a shared store may know more;   *)
(* a sweep makes room, a snapshot goes to disk from time to time.  A hash  *)
(* is what it is the hash of; sizes in tokens are those of the blocks.     *)
(***************************************************************************)
EXTENDS Integers, SequencesExt, FiniteSetsExt

CONSTANTS
    Meters,          \* requests that are metered at a time
    Short, Long,     \* lifetimes, in ticks: ephemeral and 1h
    Bad,             \* a cache_control that is not valid
    MaxPoints, Lookback,             \* 4 and 20 in the code
    HardLimit, Capacity, Watermark,  \* 1.2, 1 and 0.9 times the capacity
    TombCapacity,
    Setups,          \* shared: is there a shared store; disk: a snapshot; asks: who
                     \* (name, key, 0 the main key, session or "") asks what
                     \* (model, fixed blocks, messages, auto); most: how many may,
                     \* a bound
    CacheFaults,     \* "write", "stop": writes may fail, the process may stop
    Totals, Percents,                \* real sizes, and limits of what is read
    LastSecond       \* bound: the clock

ASSUME CacheAssumption ==
    /\ {Short, Long, Watermark, Capacity, HardLimit, TombCapacity, Lookback} \subseteq Nat \ {0}
    /\ Short < Long /\ Bad \notin {0, Short, Long}
    /\ Watermark < Capacity /\ Capacity < HardLimit
    /\ IsFiniteSet(Meters) /\ Totals \subseteq Nat /\ Percents \subseteq 0 .. 100

VARIABLES
    entries,         \* prefix |-> [tokens, ttl, expires]; last_hit_at is expires - ttl
    tombs,           \* prefix |-> why it is gone
    shared,          \* the shared store's entries
    dirty, disk, flushing,
    clock,
    meter,           \* the request's walk
    tally,           \* hits, misses and their reasons
    asked, owed,     \* requests so far, lookups they have to account for
    wrote,           \* what each user has written, ever
    setup

cacheVars == <<entries, tombs, shared, dirty, disk, flushing, clock, meter, tally, asked, owed,
               wrote, setup>>

NoEntries == <<>>
Unmetered == [pc |-> "idle"]
NoTally == [hits |-> 0, misses |-> 0, expired |-> 0, evicted |-> 0, absent |-> 0, nopoint |-> 0]

-----------------------------------------------------------------------------
(* The blocks of a prompt (extract_blocks).                                 *)

LastAsked(messages) == SelectLastInSeq(messages, LAMBDA m : m.role # "assistant")
KeptMessages(messages) == SubSeq(messages, 1, LastAsked(messages))
PrefillBlocks(messages) ==
    FlattenSeq([i \in 1 .. Len(messages) - LastAsked(messages) |->
                   messages[LastAsked(messages) + i].blocks])

HasResult(blocks) == \E i \in DOMAIN blocks : blocks[i].what = "result"

\* The question asked now: the last message, unless it brings results.
IsQuestion(messages, i) ==
    i = Len(messages) /\ messages[i].role = "user" /\ ~HasResult(messages[i].blocks)

OfMessages(messages) ==
    FlattenSeq([i \in DOMAIN messages |->
                   [b \in DOMAIN messages[i].blocks |->
                       messages[i].blocks[b] @@ [question |-> IsQuestion(messages, i)]]])

PromptBlocks(p) ==
    [i \in DOMAIN p.fixed |-> p.fixed[i] @@ [question |-> FALSE]]
        \o OfMessages(KeptMessages(p.messages))

Cacheable(b) == b.what # "thinking"

-----------------------------------------------------------------------------
(* Where it is to be cached (resolve_breakpoints).                          *)

Marked(blocks) == {i \in DOMAIN blocks : blocks[i].mark # 0}

\* The marks of an answer that is dropped move to the end of what is kept.
Moved(blocks, dropped) ==
    IF dropped = <<>> \/ blocks = <<>> \/ Last(blocks).mark # 0 THEN blocks
    ELSE [blocks EXCEPT ![Len(blocks)].mark = dropped[1].mark]

InOrder(marks) == \A i, j \in DOMAIN marks : i < j => ~(marks[i] = Short /\ marks[j] = Long)
MarksOf(blocks) == SelectSeq([i \in DOMAIN blocks |-> blocks[i].mark], LAMBDA t : t # 0)

LegalMarks(marked) ==
    /\ \A i \in DOMAIN marked : marked[i].mark # Bad /\ Cacheable(marked[i])
    /\ Len(marked) <= MaxPoints /\ InOrder(MarksOf(marked))

\* The automatic breakpoint: the last block before the question, if any.
AutoPoint(blocks) ==
    LET before == {i \in DOMAIN blocks : Cacheable(blocks[i]) /\ ~blocks[i].question}
        all == {i \in DOMAIN blocks : Cacheable(blocks[i])}
    IN  IF before # {} THEN Max(before) ELSE IF all # {} THEN Max(all) ELSE 0

WithAuto(blocks, auto) ==
    IF auto = 0 \/ AutoPoint(blocks) = 0 \/ blocks[AutoPoint(blocks)].mark # 0 THEN blocks
    ELSE [blocks EXCEPT ![AutoPoint(blocks)].mark = auto]

AgreesWithAuto(blocks, auto) ==
    auto = 0 \/ AutoPoint(blocks) = 0 \/ blocks[AutoPoint(blocks)].mark = auto

\* The index and the lifetime of every breakpoint; none if the marks are not
\* what the provider accepts.
PointsOf(blocks) == [i \in Marked(blocks) |-> blocks[i].mark]
CheckedPoints(blocks, auto) ==
    IF LegalMarks(SelectSeq(blocks, LAMBDA b : b.mark # 0)) /\ AgreesWithAuto(blocks, auto)
    THEN PointsOf(blocks) ELSE <<>>

ResolvePoints(p, dropped) ==
    IF LegalMarks(SelectSeq(PromptBlocks(p), LAMBDA b : b.mark # 0) \o dropped)
    THEN CheckedPoints(WithAuto(Moved(PromptBlocks(p), dropped), p.auto), p.auto) ELSE <<>>

Points(p) == ResolvePoints(p, SelectSeq(PrefillBlocks(p.messages), LAMBDA b : b.mark # 0))

-----------------------------------------------------------------------------
(* Prefixes.                                                                *)

Says(blocks) == [i \in DOMAIN blocks |-> blocks[i].says]
Questions(messages) == SelectSeq(messages, LAMBDA m : m.role = "user")
FirstQuestion(messages) == IF Questions(messages) = <<>> THEN <<>> ELSE Questions(messages)[1].blocks

\* Slip: the main key is a key like any other.
SeedByKey(u, p) ==
    IF u.session # "" THEN <<"session", u.key, u.session>> ELSE <<"key", u.key>>

\* isolation_seed: the session, else the key; the main key is shared by many:
\* what the conversation began with tells them apart.
Derived(p) == <<Says(SelectSeq(p.fixed, LAMBDA b : b.what = "system")), Says(FirstQuestion(p.messages))>>
SeedOf(u, p) ==
    CASE u.session # "" -> <<"session", u.key, u.session>>
      [] u.session = "" /\ u.key # 0 -> <<"key", u.key>>
      [] OTHER -> <<"derived", Derived(p)>>

Prefix(u, p, i) == <<SeedOf(u, p), p.model, Says(SubSeq(PromptBlocks(p), 1, i))>>
TokensTo(p, i) == MapThenSumSet(LAMBDA j : PromptBlocks(p)[j].tokens, 1 .. i)

\* The prompts of the setups: sequences of blocks that have a size, the same for
\* those that say the same; their breakpoints have a lifetime.
ASSUME PromptsAssumption ==
    \A s \in Setups : \A a \in s.asks :
        LET blocks == PromptBlocks(a.what)
        IN  /\ blocks \in Seq(ToSet(blocks))
            /\ \A i \in DOMAIN Points(a.what) : Points(a.what)[i] \in {Short, Long}
            /\ \A i \in DOMAIN blocks :
                  /\ blocks[i].tokens \in Nat
                  /\ \A b \in s.asks : \A j \in DOMAIN PromptBlocks(b.what) :
                        blocks[i].says = PromptBlocks(b.what)[j].says
                            => blocks[i].tokens = PromptBlocks(b.what)[j].tokens

\* Blocks of calls in a row, or of results, count as one when looking back.
SameGroup(a, b) == a.what = b.what /\ a.what \in {"use", "result"}
Positions(blocks, k, i) == Cardinality({j \in k + 1 .. i : ~SameGroup(blocks[j - 1], blocks[j])}) + 1
LookbackStart(p, i) == Min({k \in 1 .. i : Positions(PromptBlocks(p), k, i) <= Lookback})

-----------------------------------------------------------------------------
(* The table: lifetimes, sweeps and evictions.                              *)

Entry(tokens, ttl) == [tokens |-> tokens, ttl |-> ttl, expires |-> clock + ttl]
LastHit(e) == e.expires - e.ttl
Alive(e) == e.expires > clock
AliveIn(table) == {h \in DOMAIN table : Alive(table[h])}
KeepOf(table, kept) == [h \in kept |-> table[h]]
Written(table, h, tokens, ttl) ==
    [g \in DOMAIN table \cup {h} |-> IF g = h THEN Entry(tokens, ttl) ELSE table[g]]
Result(table, marks) == [entries |-> table, tombs |-> marks]

\* note_tombstone for each of them, in any order; a full table is emptied.
Buried(marks, gone, why) ==
    LET all == Cardinality(DOMAIN marks) + Cardinality(gone)
        lasting == IF all <= TombCapacity THEN {gone} ELSE kSubset(1 + ((all - 1) % TombCapacity), gone)
        before == IF all <= TombCapacity THEN DOMAIN marks ELSE {}
    IN  {[h \in last \cup before |-> IF h \in last THEN why ELSE marks[h]] : last \in lasting}

\* evict_expired_locked.
ExpireRecords(table, marks) ==
    {Result(KeepOf(table, AliveIn(table)), after) :
        after \in Buried(marks, DOMAIN table \ AliveIn(table), "expired")}

\* shrink_to_watermark: those that were hit longest ago go.
Recent(table, size) ==
    {kept \in kSubset(size, DOMAIN table) :
        \A h \in kept, g \in DOMAIN table \ kept : LastHit(table[g]) <= LastHit(table[h])}

Shrink(table, marks) ==
    IF Cardinality(DOMAIN table) <= Watermark THEN {Result(table, marks)}
    ELSE UNION {{Result(KeepOf(table, kept), after) : after \in Buried(marks, DOMAIN table \ kept, "evicted")} :
                   kept \in Recent(table, Watermark)}

ShrinkAbove(limit, results) ==
    UNION {IF Cardinality(DOMAIN x.entries) > limit THEN Shrink(x.entries, x.tombs) ELSE {x} : x \in results}

\* Slip: room is made before what has expired is cleared.
EvictFirst(table, marks) ==
    IF Cardinality(DOMAIN table) <= HardLimit THEN {Result(table, marks)} ELSE Shrink(table, marks)

EvictRecords(table, marks) ==
    IF Cardinality(DOMAIN table) <= HardLimit THEN {Result(table, marks)}
    ELSE ShrinkAbove(HardLimit, ExpireRecords(table, marks))

\* Slip: the tombstone of what is written again stays.
RecordedOverTomb(h, tokens, ttl) == EvictRecords(Written(entries, h, tokens, ttl), tombs)

\* record_entry.
Recorded(h, tokens, ttl) ==
    EvictRecords(Written(entries, h, tokens, ttl), KeepOf(tombs, DOMAIN tombs \ {h}))

\* probe_outcome, without the renewal.
Outcome(h) ==
    CASE h \in AliveIn(entries) -> "hit"
      [] h \in DOMAIN entries \ AliveIn(entries) -> "expired"
      [] h \notin DOMAIN entries /\ h \in DOMAIN tombs -> tombs[h]
      [] OTHER -> "absent"

-----------------------------------------------------------------------------

CacheInit ==
    /\ entries = NoEntries /\ tombs = NoEntries /\ shared = NoEntries
    /\ dirty = FALSE /\ disk = NoEntries /\ flushing = {}
    /\ clock = 0 /\ meter = [r \in Meters |-> Unmetered] /\ tally = NoTally
    /\ asked = 0 /\ owed = 0 /\ wrote = {} /\ setup \in Setups

Counted(reason) ==
    IF reason = "hit" THEN [tally EXCEPT !.hits = @ + 1]
    ELSE [tally EXCEPT !.misses = @ + 1, ![reason] = @ + 1]

Later(left) == left \ {Min(left)}

\* The walk of the first of the breakpoints that are left.
Looking(m, left) ==
    IF left = {} THEN [m EXCEPT !.pc = "record", !.left = DOMAIN m.points]
    ELSE [m EXCEPT !.left = left, !.at = Min(left), !.reason = "absent"]

NewWalk(u, p, points) ==
    Looking([pc |-> "look", user |-> u, prompt |-> p, points |-> points, left |-> {}, at |-> 0,
             reason |-> "absent", read |-> 0], DOMAIN points)

\* A request that is not to be cached, and one that is (compute_cache_usage).
AskUncached(r, p) ==
    /\ Points(p) = <<>>
    /\ tally' = Counted("nopoint") /\ owed' = owed + 1
    /\ UNCHANGED meter

AskCached(r, u, p) ==
    /\ Points(p) # <<>>
    /\ meter' = [meter EXCEPT ![r] = NewWalk(u, p, Points(p))]
    /\ owed' = owed + Cardinality(DOMAIN Points(p))
    /\ UNCHANGED tally

AskUsage(r, u, p) ==
    /\ meter[r].pc \in {"idle", "done"} /\ asked < setup.most
    /\ asked' = asked + 1
    /\ AskUncached(r, p) \/ AskCached(r, u, p)
    /\ UNCHANGED <<entries, tombs, shared, dirty, disk, flushing, clock, wrote, setup>>

At(m) == Prefix(m.user, m.prompt, m.at)
Install(results) == \E x \in results : entries' = x.entries /\ tombs' = x.tombs

Found(r, tokens) ==
    /\ tally' = Counted("hit")
    /\ LET m == [meter[r] EXCEPT !.read = Max({@, tokens})]
       IN  meter' = [meter EXCEPT ![r] = Looking(m, Later(m.left))]
    /\ dirty' = TRUE

\* The shared store knows the prefix: it is written here too, with the
\* lifetime of the breakpoint.  (Its own expiry stays what it was: the renewal
\* is the key's, the entry inside still has its old end.)
ProbeShared(r) ==
    /\ meter[r].pc = "look" /\ setup.shared /\ At(meter[r]) \in AliveIn(shared)
    /\ Install(Recorded(At(meter[r]), shared[At(meter[r])].tokens, meter[r].points[Min(meter[r].left)]))
    /\ Found(r, shared[At(meter[r])].tokens)
    /\ UNCHANGED <<shared, disk, flushing, clock, asked, owed, wrote, setup>>

\* A hit here (the shared store does not know it, or does not answer) lives on
\* for its own lifetime.
ProbeHit(r) ==
    /\ meter[r].pc = "look" /\ Outcome(At(meter[r])) = "hit"
    /\ entries' = [entries EXCEPT ![At(meter[r])] = Entry(@.tokens, @.ttl)]
    /\ Found(r, entries[At(meter[r])].tokens)
    /\ UNCHANGED <<tombs, shared, disk, flushing, clock, asked, owed, wrote, setup>>

\* Why the breakpoint itself was missed is what the miss is put down to.
Reason(m) == IF m.at = Min(m.left) THEN Outcome(At(m)) ELSE m.reason

\* Slip: each prefix that is missed counts.
ProbeMissCounting(r) ==
    /\ meter[r].pc = "look" /\ Outcome(At(meter[r])) # "hit"
    /\ tally' = Counted(Reason(meter[r]))
    /\ meter' = [meter EXCEPT ![r] =
                    IF @.at > LookbackStart(@.prompt, Min(@.left))
                    THEN [@ EXCEPT !.at = @ - 1, !.reason = Reason(meter[r])] ELSE Looking(@, Later(@.left))]
    /\ UNCHANGED <<entries, tombs, shared, dirty, disk, flushing, clock, asked, owed, wrote, setup>>

ProbeMiss(r) ==
    /\ meter[r].pc = "look" /\ Outcome(At(meter[r])) # "hit"
    /\ IF meter[r].at > LookbackStart(meter[r].prompt, Min(meter[r].left))
       THEN /\ meter' = [meter EXCEPT ![r].at = @ - 1, ![r].reason = Reason(meter[r])]
            /\ UNCHANGED tally
       ELSE /\ tally' = Counted(Reason(meter[r]))
            /\ meter' = [meter EXCEPT ![r] = Looking(@, Later(@.left))]
    /\ UNCHANGED <<entries, tombs, shared, dirty, disk, flushing, clock, asked, owed, wrote, setup>>

\* The usage of a request: read, covered, all of it, and what a 1h breakpoint
\* newly covers (one_hour_creation_estimate).
Sizes(m, which) == {TokensTo(m.prompt, i) : i \in {i \in DOMAIN m.points : m.points[i] \in which}}
Usage(m) ==
    [read |-> m.read, covered |-> Max(Sizes(m, {Short, Long})),
     whole |-> TokensTo(m.prompt, Len(PromptBlocks(m.prompt))),
     long |-> Max({0, Max(Sizes(m, {Long}) \cup {0}) - m.read})]

Wrote(m) ==
    IF Later(m.left) # {} THEN [m EXCEPT !.left = Later(@)]
    ELSE [pc |-> "done", user |-> m.user, prompt |-> m.prompt, usage |-> Usage(m)]

\* A breakpoint is written here and in the shared store, if it answers.
RecordPoint(r) ==
    /\ meter[r].pc = "record"
    /\ LET m == meter[r]
           i == Min(m.left)
           h == Prefix(m.user, m.prompt, i)
       IN  /\ Install(Recorded(h, TokensTo(m.prompt, i), m.points[i]))
           /\ shared' \in (IF setup.shared
                           THEN {shared, Written(shared, h, TokensTo(m.prompt, i), m.points[i])}
                           ELSE {shared})
           /\ wrote' = wrote \cup {<<m.user.name, m.prompt.model, Says(SubSeq(PromptBlocks(m.prompt), 1, i))>>}
           /\ meter' = [meter EXCEPT ![r] = Wrote(m)]
    /\ dirty' = TRUE
    /\ UNCHANGED <<disk, flushing, clock, tally, asked, owed, setup>>

-----------------------------------------------------------------------------
(* Housekeeping.                                                            *)

Sweep ==
    /\ DOMAIN entries # AliveIn(entries) \/ Cardinality(DOMAIN entries) > Capacity
    /\ Install(ShrinkAbove(Capacity, ExpireRecords(entries, tombs)))
    /\ dirty' = TRUE
    /\ UNCHANGED <<shared, disk, flushing, clock, meter, tally, asked, owed, wrote, setup>>

\* flush_to_disk: the snapshot is taken under the lock, written after it.
Flush ==
    /\ setup.disk /\ dirty /\ flushing = {}
    /\ dirty' = FALSE /\ flushing' = {entries}
    /\ UNCHANGED <<entries, tombs, shared, disk, clock, meter, tally, asked, owed, wrote, setup>>

\* Slip: the flag is cleared when the snapshot has been written.
FlushedClearing ==
    /\ flushing # {}
    /\ disk' \in flushing /\ flushing' = {} /\ dirty' = FALSE
    /\ UNCHANGED <<entries, tombs, shared, clock, meter, tally, asked, owed, wrote, setup>>

Flushed ==
    /\ flushing # {}
    /\ disk' \in flushing \cup (IF "write" \in CacheFaults THEN {disk, NoEntries} ELSE {})
    /\ flushing' = {}
    /\ UNCHANGED <<entries, tombs, shared, dirty, clock, meter, tally, asked, owed, wrote, setup>>

\* The process stops, maybe in the middle of a write, and starts from the
\* snapshot (with_remote).
Restart ==
    /\ "stop" \in CacheFaults
    /\ disk' \in {disk} \cup flushing \cup (IF flushing = {} THEN {} ELSE {NoEntries})
    /\ entries' = KeepOf(disk', AliveIn(disk'))
    /\ tombs' = NoEntries /\ dirty' = FALSE /\ flushing' = {}
    /\ meter' = [r \in Meters |-> Unmetered] /\ tally' = NoTally /\ owed' = 0
    /\ UNCHANGED <<shared, clock, asked, wrote, setup>>

Second ==
    /\ clock < LastSecond /\ clock' = clock + 1
    /\ UNCHANGED <<entries, tombs, shared, dirty, disk, flushing, meter, tally, asked, owed, wrote, setup>>

CacheNext ==
    \/ \E r \in Meters :
          \/ \E a \in setup.asks : AskUsage(r, a.who, a.what)
          \/ ProbeShared(r) \/ ProbeHit(r) \/ ProbeMiss(r) \/ RecordPoint(r)
    \/ Sweep \/ Flush \/ Flushed \/ Restart \/ Second

CacheSpec == CacheInit /\ [][CacheNext]_cacheVars

-----------------------------------------------------------------------------
(* What is reported (CacheUsage).                                           *)

\* a * b / c, to the nearest.
Share(a, b, c) == (2 * a * b + c) \div (2 * c)

\* split_against_total: of the real size, what was read, written, neither; one
\* token at least is neither; more than the limit is not read.
Reading(usage, covered) == Min({covered, Share(covered, usage.read, usage.covered)})

\* Slip: nothing is left for the input when all of it is covered.
MaybeNone(total, covered, read) == [input |-> total - covered, created |-> covered - read, read |-> read]

AtLeastOne(total, covered, read) ==
    CASE total = 0 \/ covered < total -> [input |-> total - covered, created |-> covered - read, read |-> read]
      [] total # 0 /\ covered >= total /\ read < covered ->
            [input |-> 1, created |-> covered - read - 1, read |-> read]
      [] OTHER -> [input |-> 1, created |-> 0, read |-> read - 1]

Limited(parts, limit) ==
    [parts EXCEPT !.read = Min({@, limit}), !.input = @ + parts.read - Min({parts.read, limit})]

Divided(usage, total) ==
    LET covered == Min({total, Share(total, usage.covered, usage.whole)})
    IN  AtLeastOne(total, covered, Reading(usage, covered))

Split(usage, total, percent) ==
    IF usage.covered = 0 \/ usage.whole = 0 THEN [input |-> total, created |-> 0, read |-> 0]
    ELSE Limited(Divided(usage, total), (total * percent) \div 100)

\* creation_breakdown: of what was written, how much lives an hour.
LongPart(usage, created) ==
    IF created = 0 THEN 0
    ELSE Share(created, Min({usage.long, usage.covered - usage.read}), usage.covered - usage.read)

-----------------------------------------------------------------------------
(* Properties.                                                              *)

\* What is reported as read is a prefix that the same user wrote before, with
\* the same model, at a breakpoint: the main key's users, who share their
\* system prompts, do not read each other's (isolation_seed).
HitsOwnPrefix ==
    \A r \in Meters : meter[r].pc = "done" /\ meter[r].usage.read > 0 =>
        \E i \in DOMAIN PromptBlocks(meter[r].prompt) :
            /\ TokensTo(meter[r].prompt, i) = meter[r].usage.read
            /\ <<meter[r].user.name, meter[r].prompt.model,
                 Says(SubSeq(PromptBlocks(meter[r].prompt), 1, i))>> \in wrote

Remaining(m) == IF m.pc = "look" THEN Cardinality(m.left) ELSE 0

\* Every breakpoint of every request is a hit or a miss, once, however many
\* prefixes were looked at (note_lookup).
LookupsAccounted ==
    tally.hits + tally.misses + MapThenSumSet(LAMBDA r : Remaining(meter[r]), Meters) = owed

\* The table stays within its limit, nothing is both there and gone, and every
\* miss has one reason, which the tombstones may tell (probe_outcome).
TableBounded ==
    /\ Cardinality(DOMAIN entries) <= HardLimit
    /\ DOMAIN entries \cap DOMAIN tombs = {} /\ Cardinality(DOMAIN tombs) <= TombCapacity
    /\ tally.misses = tally.expired + tally.evicted + tally.absent + tally.nopoint

\* Only what was alive is evicted, and nothing used more recently than what
\* stays: what had expired is gone as expired (record_entry, sweep).
EvictsAlive ==
    [][\A h \in DOMAIN tombs' \ DOMAIN tombs :
          tombs'[h] = "evicted" /\ h \in DOMAIN entries =>
              /\ Alive(entries[h])
              /\ \A g \in DOMAIN entries' \cap DOMAIN entries :
                    LastHit(entries[h]) <= LastHit(entries'[g])]_cacheVars

Usages == {meter[r].usage : r \in {r \in Meters : meter[r].pc = "done"}}

\* What is read, written and neither make up the real size, at least one token
\* is input, the limit on what is read holds and moves nothing from what is
\* written, and what lives an hour is part of it.
UsageAddsUp ==
    \A u \in Usages, total \in Totals, percent \in Percents :
        LET parts == Split(u, total, percent)
        IN  /\ parts.input + parts.created + parts.read = total
            /\ parts.created >= 0 /\ parts.read >= 0 /\ (total > 0 => parts.input >= 1)
            /\ parts.read * 100 <= total * percent
            /\ parts.created = Split(u, total, 100).created
            /\ (u.read = 0 => parts.read = 0)
            /\ LongPart(u, parts.created) \in 0 .. parts.created
            /\ (u.long = 0 => LongPart(u, parts.created) = 0)

\* Together: the counts and the sizes that are reported.
CacheAccounted == LookupsAccounted /\ UsageAddsUp

\* Unless something waits to be written, the next start finds every entry that
\* is alive, with the life it has (dirty, flush_to_disk).
SnapshotCurrent ==
    setup.disk /\ ~dirty /\ flushing = {} => KeepOf(disk, AliveIn(disk)) = KeepOf(entries, AliveIn(entries))

=============================================================================
