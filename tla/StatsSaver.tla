----------------------------- MODULE StatsSaver -----------------------------
(***************************************************************************)
(* The counters of the credentials and kiro_stats.json                     *)
(* (src/kiro/token_manager.rs): a request's counters are written at most   *)
(* every STATS_SAVE_DEBOUNCE and announced by a dirty flag until then;     *)
(* credits, and a reset by an administrator, are written at once.  What is *)
(* kept of a counter is how many updates it has seen.                      *)
(***************************************************************************)
EXTENDS Integers, FiniteSets

CONSTANTS
    Savers,          \* requests that were answered, or an administrator
    MaxCount,        \* bound: how many updates a counter sees
    StatsFaults      \* "write": the file may not be writable

ASSUME StatsAssumption == MaxCount \in Nat

VARIABLES
    counted,         \* updates of the counters in memory
    saved,           \* those that kiro_stats.json has
    dirty,           \* stats_dirty
    due,             \* STATS_SAVE_DEBOUNCE has passed since last_stats_save_at
    saving,          \* who holds stats_save_lock
    saver,           \* the local variables of an update
    missed,          \* history: something was counted after the snapshot of a
                     \* save then under way
    failed           \* history: the last save failed

statsVars == <<counted, saved, dirty, due, saving, saver, missed, failed>>

Counters == {"uses", "credits", "reset"}
AtOnce == {"credits", "reset"}
Counts == [Counters -> 0..MaxCount]
NoCounts == [k \in Counters |-> 0]
AtEase == [pc |-> "idle", kind |-> "uses", copy |-> NoCounts]

\* A start whose file is there (load_stats).
StatsInit ==
    /\ counted = NoCounts /\ saved = NoCounts
    /\ dirty = FALSE /\ due = FALSE
    /\ saving = {}
    /\ saver = [t \in Savers |-> AtEase]
    /\ missed = FALSE /\ failed = FALSE

StatsTurn(t, r) == saver' = [saver EXCEPT ![t] = r]

DebounceEnds ==
    /\ ~due /\ due' = TRUE
    /\ UNCHANGED <<counted, saved, dirty, saving, saver, missed, failed>>

\* The reports of a request's outcome, record_credit_usage and
\* reset_success_count: the counter, under the entries lock.
Count(t, kind) ==
    /\ saver[t].pc = "idle" /\ counted[kind] < MaxCount
    /\ counted' = [counted EXCEPT ![kind] = @ + 1]
    /\ StatsTurn(t, [AtEase EXCEPT !.pc = "mark", !.kind = kind])
    /\ missed' = (missed \/ saving # {})
    /\ UNCHANGED <<saved, dirty, due, saving, failed>>

\* Slip: credits are debounced too.
MarkDebounced(t) ==
    /\ saver[t].pc = "mark"
    /\ dirty' = (dirty \/ saver[t].kind # "reset")
    /\ StatsTurn(t, IF due THEN [saver[t] EXCEPT !.pc = "save"] ELSE AtEase)
    /\ UNCHANGED <<counted, saved, due, saving, missed, failed>>

\* The flag, which a reset does not raise, and whether to save now
\* (save_stats_debounced).
Mark(t) ==
    /\ saver[t].pc = "mark"
    /\ dirty' = (dirty \/ saver[t].kind # "reset")
    /\ StatsTurn(t, IF saver[t].kind \in AtOnce \/ due THEN [saver[t] EXCEPT !.pc = "save"] ELSE AtEase)
    /\ UNCHANGED <<counted, saved, due, saving, missed, failed>>

\* Slip: the snapshot is taken before the lock.
SnapshotEarly(t) ==
    /\ saver[t].pc = "save"
    /\ StatsTurn(t, [saver[t] EXCEPT !.pc = "write", !.copy = counted])
    /\ saving' = {t}
    /\ UNCHANGED <<counted, saved, dirty, due, missed, failed>>

\* save_stats: the lock and the snapshot, ...
Snapshot(t) ==
    /\ saver[t].pc = "save" /\ saving = {}
    /\ saving' = {t}
    /\ StatsTurn(t, [saver[t] EXCEPT !.pc = "write", !.copy = counted])
    /\ UNCHANGED <<counted, saved, dirty, due, missed, failed>>

\* ... the file, ...
WriteStats(t) ==
    /\ saver[t].pc = "write"
    /\ \/ /\ saved' = saver[t].copy /\ failed' = FALSE
          /\ StatsTurn(t, [saver[t] EXCEPT !.pc = "clear"])
          /\ UNCHANGED saving
       \/ /\ "write" \in StatsFaults /\ failed' = TRUE
          /\ StatsTurn(t, AtEase)
          /\ saving' = {}
          /\ UNCHANGED saved
    /\ UNCHANGED <<counted, dirty, due, missed>>

\* ... last_stats_save_at and the flag, and the lock is given back.
ClearFlag(t) ==
    /\ saver[t].pc = "clear"
    /\ due' = FALSE /\ dirty' = FALSE
    /\ StatsTurn(t, AtEase)
    /\ saving' = {}
    /\ missed' = (missed /\ counted # saved)
    /\ UNCHANGED <<counted, saved, failed>>

StatsNext ==
    \/ DebounceEnds
    \/ \E t \in Savers :
        \/ \E kind \in Counters : Count(t, kind)
        \/ Mark(t) \/ Snapshot(t) \/ WriteStats(t) \/ ClearFlag(t)

StatsSpec == StatsInit /\ [][StatsNext]_statsVars

-----------------------------------------------------------------------------
(* Properties.                                                              *)

\* Types; and one save at a time (stats_save_lock).
StatsTypeOK ==
    /\ counted \in Counts /\ saved \in Counts
    /\ {dirty, due, missed, failed} \subseteq BOOLEAN
    /\ saving = {t \in Savers : saver[t].pc \in {"write", "clear"}} /\ Cardinality(saving) <= 1

\* Saves that overlap never put older counts over newer ones (save_stats
\* takes its snapshot under stats_save_lock).
StatsForward == [][\A k \in Counters : saved'[k] >= saved[k]]_statsVars

\* What is counted gets into the file.  Credits and resets are there as soon
\* as those who made them are done (record_credit_usage,
\* reset_success_count), although other saves run beside theirs and clear the
\* flag; unless the last write failed.  Whatever else the file lacks is
\* announced by the flag, which alone makes a later save sure, unless it was
\* counted after the snapshot of a save whose end cleared the flag.
StatsReachFile ==
    /\ \A k \in AtOnce :
          ~failed /\ (\A t \in Savers : saver[t].kind # k \/ saver[t].pc = "idle") => saved[k] = counted[k]
    /\ (\A t \in Savers : saver[t].pc = "idle") =>
          dirty \/ missed \/ \A k \in {"uses", "credits"} : saved[k] = counted[k]

=============================================================================
