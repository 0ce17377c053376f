---------------------------- MODULE BinaryUpdate ----------------------------
(***************************************************************************)
(* The service replaces its own executable (admin/binary_update.rs and the *)
(* update operations of admin/service.rs): a release is copied beside the  *)
(* executable, the executable becomes its backup, the copy takes its       *)
(* place, the version that can be returned to is noted and the process     *)
(* exits for its supervisor to start the new one.  Files outlive the       *)
(* process; it may be killed at any point.                                 *)
(***************************************************************************)
EXTENDS Naturals

CONSTANTS
    Releases,      \* 1 .. n; the first release runs at first
    Workers,       \* calls of the update operations that may overlap
    MaxDepth,      \* bound: <exe>.backup.backup... that occur
    NoVersion,
    UpdateFaults   \* what may fail: network, disk, rename, config, stop; and
                   \* hurry: an update begins while the exit is pending

ASSUME UpdateAssumption ==
    /\ 1 \in Releases /\ Releases \subseteq Nat /\ MaxDepth \in Nat \ {0}
    /\ Workers \cap {"none", "whole", "torn"} = {}

VARIABLES
    disk,          \* files by name: what they hold, or NoFile
    running,       \* where the file of the process is now and its release
    published,     \* the latest release
    label,         \* previous_version in memory and in config.json
    job,           \* what each worker is doing
    exiting,       \* schedule_self_exit was called
    autoTried,     \* last_applied_version of the scheduler
    unnoted        \* history: a stop or a failing write lost the note of an install

updateVars == <<disk, running, published, label, job, exiting, autoTried, unnoted>>

NoFile == [v |-> 0, state |-> "none"]
Whole(v) == [v |-> v, state |-> "whole"]

Exe(n) == <<"exe", n>>              \* the backup of Exe(n) is Exe(n + 1)
Parked(n) == <<"parked", n>>        \* <exe>.rollback-current
Staged(n, v) == <<"staged", n, v>>  \* staged_binary_path
Files == ({"exe", "parked"} \X (0 .. MaxDepth)) \cup ({"staged"} \X (0 .. MaxDepth) \X Releases)

Nowhere == <<"gone">>
Stopped == [file |-> Nowhere, v |-> 0]
Idle == [op |-> "none", at |-> "idle", n |-> 0, v |-> 0]

UpdateInit ==
    /\ disk = [f \in Files |-> IF f = Exe(0) THEN Whole(1) ELSE NoFile]
    /\ running = [file |-> Exe(0), v |-> 1]
    /\ published = 1
    /\ label = [mem |-> NoVersion, file |-> NoVersion]
    /\ job = [w \in Workers |-> Idle]
    /\ exiting = FALSE /\ autoTried = 0 /\ unnoted = FALSE

Fault(kind) == kind \in UpdateFaults
Exists(f) == disk[f] # NoFile

To(w, at) == job' = [job EXCEPT ![w].at = at]
Ends(w) == job' = [job EXCEPT ![w] = Idle]
Is(w, op, at) == running # Stopped /\ job[w].op \in op /\ job[w].at = at

\* fs::rename; the file of the process stays the one it was started from.
Rename(from, to) ==
    /\ disk' = [disk EXCEPT ![to] = disk[from], ![from] = NoFile]
    /\ running' = [running EXCEPT !.file = CASE @ = from -> to [] @ = to -> Nowhere [] OTHER -> @]

\* fs::remove_file, of files that may not exist.
RemoveFiles(files) ==
    /\ disk' = [f \in Files |-> IF f \in files THEN NoFile ELSE disk[f]]
    /\ running' = [running EXCEPT !.file = IF @ \in files THEN Nowhere ELSE @]

\* cleanup_other_staged.
StagedBut(n, keep) == {Staged(n, v) : v \in Releases \ {keep}}

UpdateRest == UNCHANGED <<published, label, exiting, autoTried, unnoted>>

-----------------------------------------------------------------------------
(* pull_update_image, apply_image_update, rollback_image_update            *)

Publish ==
    /\ published + 1 \in Releases /\ published' = published + 1
    /\ UNCHANGED <<disk, running, label, job, exiting, autoTried, unnoted>>

\* current_executable asks where the file of the process is now.
BeginUpdate(w, op) ==
    /\ running # Stopped /\ job[w] = Idle /\ (exiting => Fault("hurry"))
    /\ op = "rollback" => label.mem # NoVersion
    /\ \E n \in 0 .. MaxDepth - 1 :
          /\ running.file = Exe(n)
          /\ job' = [job EXCEPT ![w] =
                        [op |-> op, at |-> IF op = "rollback" THEN "unpark" ELSE "ask",
                         n |-> n, v |-> 0]]
    /\ UNCHANGED <<disk, running>> /\ UpdateRest

\* The scheduler applies what it has not applied yet, at the minute chosen.
BeginAuto(w) ==
    /\ published > running.v /\ published # autoTried /\ BeginUpdate(w, "apply")

\* resolve_target_version, with check_update(true).
Resolve(w) ==
    /\ Is(w, {"pull", "apply"}, "ask")
    /\ \/ Fault("network") /\ Ends(w)
       \/ job[w].op = "apply" /\ published <= running.v /\ Ends(w)
       \/ /\ job[w].op = "apply" => published > running.v
          /\ job' = [job EXCEPT ![w].v = published,
                                ![w].at = IF Exists(Staged(job[w].n, published)) THEN "tidy" ELSE "fetch"]
    /\ UNCHANGED <<disk, running>> /\ UpdateRest

\* The archive is fetched, verified and unpacked in a directory of its own;
\* its binary is then copied to its place beside the executable.
Fetch(w) ==
    /\ Is(w, {"pull", "apply"}, "fetch")
    /\ \/ Fault("network") /\ Ends(w) /\ UNCHANGED disk
       \/ To(w, "copy") /\ disk' = [disk EXCEPT ![Staged(job[w].n, job[w].v)] =
                                       [v |-> job[w].v, state |-> w]]
    /\ UNCHANGED running /\ UpdateRest

\* The copy goes on in the file it began, wherever that is by now.
Copied(w, state) ==
    disk' = [f \in Files |-> IF disk[f].state = w THEN [disk[f] EXCEPT !.state = state] ELSE disk[f]]

Copy(w) ==
    /\ Is(w, {"pull", "apply"}, "copy")
    /\ \/ Fault("disk") /\ Copied(w, "torn") /\ Ends(w)
       \/ /\ Copied(w, "whole")
          /\ IF Exists(Staged(job[w].n, job[w].v)) THEN To(w, "tidy") ELSE Ends(w)
    /\ UNCHANGED running /\ UpdateRest

Tidy(w) ==
    /\ Is(w, {"pull", "apply"}, "tidy")
    /\ RemoveFiles(StagedBut(job[w].n, job[w].v))
    /\ IF job[w].op = "pull" THEN Ends(w) ELSE To(w, "unbackup")
    /\ UpdateRest

(* install_binary *)

Unbackup(w) ==
    /\ Is(w, {"apply"}, "unbackup") /\ RemoveFiles({Exe(job[w].n + 1)}) /\ To(w, "away") /\ UpdateRest

\* Slip: the copy replaces the executable without a backup.
PutAwayNothing(w) ==
    /\ Is(w, {"apply"}, "away")
    /\ RemoveFiles({Exe(job[w].n)}) /\ To(w, "in") /\ UpdateRest

PutAway(w) ==
    /\ Is(w, {"apply"}, "away")
    /\ \/ (Fault("rename") \/ ~Exists(Exe(job[w].n))) /\ Ends(w) /\ UNCHANGED <<disk, running>>
       \/ Exists(Exe(job[w].n)) /\ Rename(Exe(job[w].n), Exe(job[w].n + 1)) /\ To(w, "in")
    /\ UpdateRest

PutBack(n) ==
    IF Exists(Exe(n + 1)) THEN Rename(Exe(n + 1), Exe(n)) ELSE UNCHANGED <<disk, running>>

PutIn(w) ==
    LET staged == Staged(job[w].n, job[w].v) IN
    /\ Is(w, {"apply"}, "in")
    /\ \/ (Fault("rename") \/ ~Exists(staged)) /\ PutBack(job[w].n) /\ Ends(w)
       \/ Exists(staged) /\ Rename(staged, Exe(job[w].n)) /\ To(w, "note")
    /\ UpdateRest

\* What was noted of an earlier update remains when the write fails.
Noted(w, version) ==
    /\ \/ label' = [mem |-> version, file |-> version] /\ UNCHANGED unnoted
       \/ Fault("config") /\ label' = [label EXCEPT !.mem = version] /\ unnoted' = TRUE
    /\ exiting' = TRUE /\ Ends(w)

\* Slip: the version that was installed is noted.
NoteInstalled(w) ==
    /\ Is(w, {"apply"}, "note") /\ Noted(w, job[w].v) /\ autoTried' = job[w].v
    /\ UNCHANGED <<disk, running, published>>

Note(w) ==
    /\ Is(w, {"apply"}, "note") /\ Noted(w, running.v) /\ autoTried' = job[w].v
    /\ UNCHANGED <<disk, running, published>>

(* restore_backup *)

Unpark(w) ==
    /\ Is(w, {"rollback"}, "unpark")
    /\ IF Exists(Exe(job[w].n + 1))
       THEN RemoveFiles({Parked(job[w].n)}) /\ To(w, "park")
       ELSE Ends(w) /\ UNCHANGED <<disk, running>>
    /\ UpdateRest

Park(w) ==
    /\ Is(w, {"rollback"}, "park")
    /\ \/ (Fault("rename") \/ ~Exists(Exe(job[w].n))) /\ Ends(w) /\ UNCHANGED <<disk, running>>
       \/ Exists(Exe(job[w].n)) /\ Rename(Exe(job[w].n), Parked(job[w].n)) /\ To(w, "restore")
    /\ UpdateRest

Restore(w) ==
    /\ Is(w, {"rollback"}, "restore")
    /\ \/ /\ Fault("rename") \/ ~Exists(Exe(job[w].n + 1))
          /\ Rename(Parked(job[w].n), Exe(job[w].n)) /\ Ends(w)
       \/ Exists(Exe(job[w].n + 1)) /\ Rename(Exe(job[w].n + 1), Exe(job[w].n)) /\ To(w, "forget")
    /\ UpdateRest

\* The file put aside and every staged one go, and the note with them.
Forget(w) ==
    /\ Is(w, {"rollback"}, "forget")
    /\ RemoveFiles(StagedBut(job[w].n, 0) \cup {Parked(job[w].n)})
    /\ Noted(w, NoVersion) /\ UNCHANGED <<published, autoTried>>

-----------------------------------------------------------------------------
(* The process and its supervisor                                          *)

\* A copy that was under way stays as far as it had come.
StopProcess ==
    /\ running # Stopped /\ (exiting \/ Fault("stop"))
    /\ running' = Stopped
    /\ disk' = [f \in Files |->
                   IF disk[f].state \in Workers THEN [disk[f] EXCEPT !.state = "torn"] ELSE disk[f]]
    /\ unnoted' = (unnoted \/ \E w \in Workers : job[w].at \in {"in", "note", "restore", "forget"})
    /\ job' = [w \in Workers |-> Idle] /\ exiting' = FALSE /\ autoTried' = 0
    /\ label' = [label EXCEPT !.mem = NoVersion]
    /\ UNCHANGED published

\* restart: unless-stopped.
StartProcess ==
    /\ running = Stopped /\ disk[Exe(0)].state = "whole"
    /\ running' = [file |-> Exe(0), v |-> disk[Exe(0)].v]
    /\ label' = [label EXCEPT !.mem = label.file]
    /\ UNCHANGED <<disk, published, job, exiting, autoTried, unnoted>>

UpdateNext ==
    \/ Publish \/ StopProcess \/ StartProcess
    \/ \E w \in Workers :
          \/ \E op \in {"pull", "apply", "rollback"} : BeginUpdate(w, op)
          \/ BeginAuto(w)
          \/ Resolve(w) \/ Fetch(w) \/ Copy(w) \/ Tidy(w)
          \/ Unbackup(w) \/ PutAway(w) \/ PutIn(w) \/ Note(w)
          \/ Unpark(w) \/ Park(w) \/ Restore(w) \/ Forget(w)

UpdateSpec == UpdateInit /\ [][UpdateNext]_updateVars

-----------------------------------------------------------------------------
\* Whatever fails and wherever the process is killed, some file that it began
\* with or put aside is a whole executable: an operator can always return to
\* one (the header of binary_update.rs).
AlwaysAnExecutable ==
    \E n \in 0 .. MaxDepth : disk[Exe(n)].state = "whole" \/ disk[Parked(n)].state = "whole"

\* A rollback returns to the version it announces, or says that there is no
\* backup: unless a stop or a failing write lost the note of an install.
RollbackAsAnnounced ==
    (label.mem # NoVersion /\ ~unnoted /\ \A w \in Workers : job[w] = Idle)
        => disk[Exe(1)] \in {NoFile, Whole(label.mem)}

\* Updates never leave the service without an executable, nor return it to a
\* version nobody named.
UpdatesRecoverable == AlwaysAnExecutable /\ RollbackAsAnnounced

=============================================================================
