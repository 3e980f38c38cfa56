------------------------------ MODULE BoxBackup ------------------------------
(***************************************************************************)
(* panella backup and panella restore (cli/lifecycle.py).  A box keeps its *)
(* state in separate files: the store, the bearers, the audit log, the     *)
(* outbox and the overlay.  A backup snapshots them one after another,     *)
(* each of them consistent in itself, while the box may go on deciding     *)
(* approvals; it is published by one rename.  A restore reads the whole    *)
(* archive and checks every hash before it replaces the files one by one.  *)
(***************************************************************************)
EXTENDS Naturals

CONSTANTS
    BoxDecisions,   \* approvals the running box decides and finalizes
    MaxCommands,    \* bound: backups and restores that are begun
    MaxMishaps      \* bound: damaged archives, failed checks, crashes

VARIABLES
    liveFiles,  \* [Roles -> content]: the files of the running box
    archive,    \* the published archive, or NoArchive
    backup,     \* the backup command: [pc, todo, tmp, clash]
    target,     \* [Roles -> content]: the data directory of restores
    restore,    \* the restore command: [pc, from, todo, before, said]
    mishaps, commands

backupVars == <<liveFiles, archive, backup, target, restore, mishaps, commands>>

Roles == {"store", "token", "audit", "outbox", "overlay"}
MissingFile == {"no such file"}

\* Files are taken in the order of _collect_source_files, which is that of the
\* manifest.
Place == [store |-> 1, token |-> 2, audit |-> 3, outbox |-> 4, overlay |-> 5]
ComesFirst(r, todo) == r \in todo /\ \A q \in todo : Place[r] <= Place[q]

NoMembers == [r \in {} |-> {}]
NothingThere == [r \in Roles |-> MissingFile]
NoArchive == [files |-> NoMembers, damaged |-> {}, clash |-> FALSE]

NoBackup == [pc |-> "idle", todo |-> {}, tmp |-> NoMembers, clash |-> FALSE]
NoRestore == [pc |-> "idle", from |-> NoArchive, todo |-> {}, before |-> NothingThere,
              said |-> "-"]

BackupInit ==
    /\ liveFiles = [r \in Roles |-> IF r = "overlay" THEN MissingFile ELSE {}]
    /\ archive = NoArchive /\ backup = NoBackup
    /\ target = NothingThere
    /\ restore = NoRestore
    /\ mishaps = 0 /\ commands = 0

BackupMishap == mishaps < MaxMishaps /\ mishaps' = mishaps + 1
BackupCommand == commands < MaxCommands /\ commands' = commands + 1

-----------------------------------------------------------------------------
(* The running box: a decision is receipted, then committed, then kept.    *)

ContentOf(r) == liveFiles[r] \ MissingFile

BoxWrites(d, r) ==
    /\ d \notin liveFiles[r]
    /\ r = "outbox" => d \in liveFiles["audit"]
    /\ r = "store" => d \in liveFiles["outbox"]
    /\ liveFiles' = [liveFiles EXCEPT ![r] = ContentOf(r) \cup {d}]
    /\ UNCHANGED <<archive, backup, target, restore, mishaps, commands>>

-----------------------------------------------------------------------------
(* The backup.                                                             *)

\* Only files that exist now are in it.  Two of them may have one basename.
BeginBackup ==
    /\ backup.pc = "idle" /\ BackupCommand
    /\ \E clash \in BOOLEAN :
        backup' = [pc |-> "snapshot", tmp |-> NoMembers, clash |-> clash,
                   todo |-> {r \in Roles : liveFiles[r] # MissingFile}]
    /\ UNCHANGED <<liveFiles, archive, target, restore, mishaps>>

\* The backup API for a database, copy2 for the overlay.  A snapshot of the store
\* or of the audit log that fails its check aborts the backup.
SnapshotNext ==
    /\ backup.pc = "snapshot"
    /\ \E r \in Roles :
        /\ ComesFirst(r, backup.todo)
        /\ \/ /\ backup' = [backup EXCEPT !.todo = @ \ {r},
                                         !.tmp = [q \in DOMAIN @ \cup {r} |->
                                                     IF q = r THEN liveFiles[r] ELSE @[q]]]
              /\ UNCHANGED mishaps
           \/ /\ r \in {"store", "audit"} /\ BackupMishap
              /\ backup' = NoBackup
    /\ UNCHANGED <<liveFiles, archive, target, restore, commands>>

\* tar to a temporary name beside --out, then os.replace.
PublishArchive ==
    /\ backup.pc = "snapshot" /\ backup.todo = {}
    /\ archive' = [files |-> backup.tmp, damaged |-> {}, clash |-> backup.clash]
    /\ backup' = NoBackup
    /\ UNCHANGED <<liveFiles, target, restore, mishaps, commands>>

CrashBackup ==
    /\ backup.pc # "idle" /\ BackupMishap
    /\ backup' = NoBackup
    /\ UNCHANGED <<liveFiles, archive, target, restore, commands>>

\* A flipped byte, or a missing tail, which ends with the manifest.
DamageArchive ==
    /\ archive # NoArchive /\ BackupMishap
    /\ \E r \in DOMAIN archive.files \cup {"manifest"} :
        archive' = [archive EXCEPT !.damaged = @ \cup {r}]
    /\ UNCHANGED <<liveFiles, backup, target, restore, commands>>

-----------------------------------------------------------------------------
(* The restore.                                                            *)

EndRestore(said) ==
    restore' = [restore EXCEPT !.pc = "idle", !.todo = {}, !.said = said]

Existing(a) == {r \in DOMAIN a.files : target[r] # MissingFile}

\* The manifest is read first; basenames must differ, and without --force no
\* file of the archive may be there.  The archive stays open under its inode.
BeginRestore(force) ==
    /\ restore.pc = "idle" /\ archive # NoArchive /\ BackupCommand
    /\ LET refused == archive.clash \/ (Existing(archive) # {} /\ ~force)
           said == IF "manifest" \in archive.damaged THEN "invalid"
                   ELSE IF refused THEN "refused" ELSE "-"
       IN  restore' = [pc |-> IF said = "-" THEN "stage" ELSE "idle", from |-> archive,
                       todo |-> IF said = "-" THEN DOMAIN archive.files ELSE {},
                       before |-> target, said |-> said]
    /\ UNCHANGED <<liveFiles, archive, backup, target, mishaps>>

\* Mutant: a member is put in place as soon as its own hash is right.
StageInPlace ==
    /\ restore.pc = "stage"
    /\ \E r \in Roles :
        /\ ComesFirst(r, restore.todo)
        /\ IF r \in restore.from.damaged
           THEN EndRestore("refused") /\ UNCHANGED target
           ELSE /\ restore' = [restore EXCEPT !.todo = @ \ {r}]
                /\ target' = [target EXCEPT ![r] = restore.from.files[r]]
    /\ UNCHANGED <<liveFiles, archive, backup, mishaps, commands>>

\* Extract a member to the staging directory and compare its hash.
StageNext ==
    /\ restore.pc = "stage"
    /\ \E r \in Roles :
        /\ ComesFirst(r, restore.todo)
        /\ IF r \in restore.from.damaged
           THEN EndRestore("refused")
           ELSE restore' = [restore EXCEPT !.todo = @ \ {r}]
    /\ UNCHANGED <<liveFiles, archive, backup, target, mishaps, commands>>

AllStaged ==
    /\ restore.pc = "stage" /\ restore.todo = {}
    /\ restore' = [restore EXCEPT !.pc = "place", !.todo = DOMAIN restore.from.files]
    /\ UNCHANGED <<liveFiles, archive, backup, target, mishaps, commands>>

\* Copy to <name>.restoring, chmod 0600, os.replace.
PlaceNext ==
    /\ restore.pc = "place"
    /\ \E r \in Roles :
        /\ ComesFirst(r, restore.todo)
        /\ target' = [target EXCEPT ![r] = restore.from.files[r]]
        /\ restore' = [restore EXCEPT !.todo = @ \ {r}]
    /\ UNCHANGED <<liveFiles, archive, backup, mishaps, commands>>

\* _post_restore_verify: the checks of the store and of the audit log.
PostRestoreVerify ==
    /\ restore.pc = "place" /\ restore.todo = {}
    /\ \/ EndRestore("passed") /\ UNCHANGED mishaps
       \/ /\ DOMAIN restore.from.files \cap {"store", "audit"} # {}
          /\ BackupMishap /\ EndRestore("do not trust")
    /\ UNCHANGED <<liveFiles, archive, backup, target, commands>>

CrashRestore ==
    /\ restore.pc # "idle" /\ BackupMishap
    /\ EndRestore("killed")
    /\ UNCHANGED <<liveFiles, archive, backup, target, commands>>

BackupNext ==
    \/ \E d \in BoxDecisions : \E r \in {"audit", "outbox", "store"} : BoxWrites(d, r)
    \/ BeginBackup \/ SnapshotNext \/ PublishArchive \/ CrashBackup \/ DamageArchive
    \/ \E force \in BOOLEAN : BeginRestore(force)
    \/ StageNext \/ AllStaged \/ PlaceNext \/ PostRestoreVerify \/ CrashRestore

BackupSpec == BackupInit /\ [][BackupNext]_backupVars

-----------------------------------------------------------------------------
(* What a restore promises.                                                *)

\* A restore that refuses has touched nothing, even if the damage is in the last
\* member, and one that passes has placed every snapshot, whatever an earlier
\* restore that was killed half-way left in the directory (_cmd_restore: a corrupt
\* snapshot must never land on disk, not even partially).
RestoreIsAllOrNothing ==
    restore.pc = "idle" =>
        /\ restore.said \in {"refused", "invalid"} => target = restore.before
        /\ restore.said = "passed" =>
               \A r \in DOMAIN restore.from.files : target[r] = restore.from.files[r]

=============================================================================
