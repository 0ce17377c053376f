--------------------------- MODULE AccountGroups ---------------------------
(***************************************************************************)
(* Account groups: the registry (src/admin/groups.rs, groups.json), the    *)
(* names that credentials and client keys refer to, and the operations of  *)
(* the Admin API that change all three one after the other                 *)
(* (src/admin/handlers.rs).  A key bound to a group uses the credentials   *)
(* of the group; an unbound one uses all.                                  *)
(*                                                                         *)
(* The code does not validate the names given to credentials and keys: the *)
(* administrator, one at a time, picks them from the list of groups.       *)
(***************************************************************************)
EXTENDS Integers, FiniteSets

CONSTANTS
    Accounts,        \* credentials
    Holders,         \* client keys
    Names,           \* group names
    NoName,
    GroupFaults      \* "persist": the credential file may not be writable;
                     \* "stop": the process stops and starts

ASSUME GroupsAssumption == NoName \notin Names

VARIABLES
    registry,        \* GroupManager.entries, and groups.json
    member,          \* KiroCredentials.groups in memory
    memberFile,      \* the same in the credential file
    bind,            \* ClientKey.group, and client_api_keys.json
    chore,           \* the administrator's operation under way
    grants,          \* abstract: the credentials each key is entitled to
    unsaved          \* history: a write of the credential file failed since
                     \* the start

groupVars == <<registry, member, memberFile, bind, chore, grants, unsaved>>

Chore == [pc : {"rest", "members", "save", "undo", "keys", "forget"},
          op : {"rename", "delete"}, old : Names \cup {NoName}, new : Names \cup {NoName}]

AtRest == [pc |-> "rest", op |-> "rename", old |-> NoName, new |-> NoName]

\* group_matches.
Uses(k) == IF bind[k] = NoName THEN Accounts ELSE {c \in Accounts : bind[k] \in member[c]}

Used(m, b) == (UNION {m[c] : c \in Accounts}) \cup ({b[k] : k \in Holders} \ {NoName})

GroupInit ==
    /\ registry = {}
    /\ member = [c \in Accounts |-> {}] /\ memberFile = member
    /\ bind = [k \in Holders |-> NoName]
    /\ chore = AtRest
    /\ grants = [k \in Holders |-> Accounts]
    /\ unsaved = FALSE

\* bootstrap_from_existing.
Bootstrap == registry' = registry \cup Used(memberFile, bind)

\* The process stops at any point and starts again.  What a rename or a
\* deletion leaves half done is what the keys then have.
RestartGroups ==
    /\ "stop" \in GroupFaults
    /\ Bootstrap
    /\ member' = memberFile
    /\ grants' = IF chore.pc = "rest" /\ ~unsaved THEN grants
                 ELSE [k \in Holders |-> IF bind[k] = NoName THEN Accounts
                                         ELSE {c \in Accounts : bind[k] \in memberFile[c]}]
    /\ chore' = AtRest /\ unsaved' = FALSE
    /\ UNCHANGED <<memberFile, bind>>

-----------------------------------------------------------------------------
(* One-step operations.                                                     *)

CreateGroup(n) ==
    /\ chore = AtRest /\ n \notin registry
    /\ registry' = registry \cup {n}
    /\ UNCHANGED <<member, memberFile, bind, chore, grants, unsaved>>

\* update_credential: memory, then the file; memory keeps the change when
\* the file does not take it.
AssignGroups(c, names) ==
    /\ chore = AtRest /\ names \subseteq registry
    /\ member' = [member EXCEPT ![c] = names]
    /\ \/ memberFile' = member' /\ UNCHANGED unsaved
       \/ "persist" \in GroupFaults /\ UNCHANGED memberFile /\ unsaved' = TRUE
    /\ grants' = [k \in Holders |-> IF bind[k] = NoName THEN Accounts
                                    ELSE {d \in Accounts : bind[k] \in member'[d]}]
    /\ UNCHANGED <<registry, bind, chore>>

\* update_client_key.
BindKey(k, n) ==
    /\ chore = AtRest /\ n \in registry \cup {NoName}
    /\ bind' = [bind EXCEPT ![k] = n]
    /\ grants' = [grants EXCEPT ![k] = IF n = NoName THEN Accounts
                                       ELSE {c \in Accounts : n \in member[c]}]
    /\ UNCHANGED <<registry, member, memberFile, chore, unsaved>>

-----------------------------------------------------------------------------
(* Renaming (update_group) and deleting (delete_group) a group.             *)

StartRename(old, new) ==
    /\ chore = AtRest /\ old \in registry /\ new \notin registry
    /\ registry' = (registry \ {old}) \cup {new}
    /\ chore' = [pc |-> "members", op |-> "rename", old |-> old, new |-> new]
    /\ UNCHANGED <<member, memberFile, bind, grants, unsaved>>

\* Without force only a group nothing refers to is deleted.
StartDelete(n) ==
    /\ chore = AtRest /\ n \in registry
    /\ \E force \in BOOLEAN :
        /\ ~force => n \notin Used(member, bind)
        /\ chore' = [pc |-> IF force THEN "members" ELSE "forget", op |-> "delete", old |-> n, new |-> NoName]
    /\ UNCHANGED <<registry, member, memberFile, bind, grants, unsaved>>

\* rename_credential_group, remove_credential_group, in memory.
Renamed(names) ==
    IF chore.old \notin names THEN names
    ELSE (names \ {chore.old}) \cup (IF chore.op = "rename" THEN {chore.new} ELSE {})

ChangeMembers ==
    /\ chore.pc = "members"
    /\ member' = [c \in Accounts |-> Renamed(member[c])]
    /\ chore' = [chore EXCEPT !.pc = IF member' = member THEN "keys" ELSE "save"]
    /\ UNCHANGED <<registry, memberFile, bind, grants, unsaved>>

\* Slip: the credential file is not written.
SaveNoMembers ==
    /\ chore.pc = "save"
    /\ chore' = [chore EXCEPT !.pc = "keys"]
    /\ UNCHANGED <<registry, member, memberFile, bind, grants, unsaved>>

\* persist_credentials; when it fails a rename takes the registry back, and
\* only the registry, and a deletion ends here.
SaveMembers ==
    /\ chore.pc = "save"
    /\ \/ memberFile' = member /\ chore' = [chore EXCEPT !.pc = "keys"] /\ UNCHANGED unsaved
       \/ /\ "persist" \in GroupFaults /\ UNCHANGED memberFile /\ unsaved' = TRUE
          /\ chore' = IF chore.op = "rename" THEN [chore EXCEPT !.pc = "undo"] ELSE AtRest
    /\ UNCHANGED <<registry, member, bind, grants>>

UndoRename ==
    /\ chore.pc = "undo"
    /\ registry' = (registry \ {chore.new}) \cup {chore.old}
    /\ chore' = AtRest
    /\ UNCHANGED <<member, memberFile, bind, grants, unsaved>>

\* Slip: the client keys are forgotten.
SkipKeys ==
    /\ chore.pc = "keys"
    /\ chore' = IF chore.op = "rename" THEN AtRest ELSE [chore EXCEPT !.pc = "forget"]
    /\ UNCHANGED <<registry, member, memberFile, bind, grants, unsaved>>

\* ClientKeyManager::rename_group, clear_group.
ChangeKeys ==
    /\ chore.pc = "keys"
    /\ bind' = [k \in Holders |-> IF bind[k] # chore.old THEN bind[k]
                                  ELSE IF chore.op = "rename" THEN chore.new ELSE NoName]
    /\ grants' = IF chore.op = "rename" THEN grants
                 ELSE [k \in Holders |-> IF bind[k] = chore.old THEN Accounts ELSE grants[k]]
    /\ chore' = IF chore.op = "rename" THEN AtRest ELSE [chore EXCEPT !.pc = "forget"]
    /\ UNCHANGED <<registry, member, memberFile, unsaved>>

ForgetGroup ==
    /\ chore.pc = "forget"
    /\ registry' = registry \ {chore.old}
    /\ chore' = AtRest
    /\ UNCHANGED <<member, memberFile, bind, grants, unsaved>>

GroupNext ==
    \/ \E n \in Names : CreateGroup(n) \/ StartDelete(n) \/ \E new \in Names : StartRename(n, new)
    \/ \E c \in Accounts, names \in SUBSET Names : AssignGroups(c, names)
    \/ \E k \in Holders, n \in Names \cup {NoName} : BindKey(k, n)
    \/ ChangeMembers \/ SaveMembers \/ UndoRename \/ ChangeKeys \/ ForgetGroup
    \/ RestartGroups

GroupSpec == GroupInit /\ [][GroupNext]_groupVars

-----------------------------------------------------------------------------
(* Properties.                                                              *)

\* The types of the state.
GroupTypeOK ==
    /\ registry \subseteq Names
    /\ {member, memberFile} \subseteq [Accounts -> SUBSET Names]
    /\ bind \in [Holders -> Names \cup {NoName}]
    /\ chore \in Chore
    /\ grants \in [Holders -> SUBSET Accounts]
    /\ unsaved \in BOOLEAN

Settled == chore.pc = "rest" /\ ~unsaved

\* Whenever no operation is under way every name a credential or a key
\* refers to is registered, however renames, forced deletions, stops and
\* starts follow each other (update_group, delete_group,
\* bootstrap_from_existing); a start also repairs what a failed write left.
RefsRegistered == Settled => Used(member, bind) \subseteq registry

\* Renaming a group changes nobody's accounts and deleting one changes those
\* of its keys only: whenever no operation is under way a key uses exactly
\* the credentials it was given, after a stop and a start too.
GrantsKept == Settled => \A k \in Holders : Uses(k) = grants[k]

\* Together: no reference dangles and none says something else than before.
GroupsKept == RefsRegistered /\ GrantsKept

=============================================================================
