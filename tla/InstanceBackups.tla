-------------------------- MODULE InstanceBackups --------------------------
(***************************************************************************)
(* Instance backups, the older backups table (app/services/                *)
(* backup_service.py, app/api/routes/backup.py, admin.py): a database dump *)
(* and an archive in a directory named by the second, and a row inserted   *)
(* only when both are done.                                                *)
(***************************************************************************)
EXTENDS Naturals, FiniteSets

CONSTANTS
    Makers,         \* threads that run create_backup: the nightly job and requests
    Removers,       \* threads that run delete_backup or cleanup_stale_backups
    MaxRows,        \* bound: rows inserted
    MaxSeconds,     \* bound: seconds at which a backup begins
    MaxBreaks       \* bound: steps that raise

VARIABLES
    backups,        \* the rows of one hosting, by backup_id
    payloads,       \* files on disk: <<second, "db" or "files">>
    maker,          \* the locals of every create_backup
    remover,        \* the locals of every deletion
    second,         \* the clock
    breaks          \* steps that raised

ivars == <<backups, payloads, maker, remover, second, breaks>>

RowIds == 1..MaxRows
Kinds == {"db", "files"}
Backup == [status: {"unused", "completed", "partial", "failed", "gone"},
           at: 0..MaxSeconds, paths: SUBSET Kinds, stale: BOOLEAN]

Unused == [status |-> "unused", at |-> 0, paths |-> {}, stale |-> FALSE]
Making == [pc |-> "idle", at |-> 0, got |-> {}, wrong |-> FALSE]
NotRemoving == [todo |-> {}, cur |-> 0, files |-> {}]

InstanceInit ==
    /\ backups = [b \in RowIds |-> Unused]
    /\ payloads = {}
    /\ maker = [a \in Makers |-> Making]
    /\ remover = [a \in Removers |-> NotRemoving]
    /\ second = 1
    /\ breaks = 0

Tick ==
    /\ second < MaxSeconds
    /\ second' = second + 1
    /\ UNCHANGED <<backups, payloads, maker, remover, breaks>>
-----------------------------------------------------------------------------
\* create_backup

MakerAt(a, l) == maker[a].pc = l
MakerGoes(a, m) == maker' = [maker EXCEPT ![a] = m]

\* What the container holds: WordPress has a database to dump; without a web root there is
\* nothing to save.
Found == {"dump", "tar", "nothing"}

BeginBackup(a) ==
    /\ MakerAt(a, "idle")
    /\ \E b \in RowIds : backups[b].status = "unused"
    /\ \E next \in Found : MakerGoes(a, [Making EXCEPT !.pc = next, !.at = second])
    /\ UNCHANGED <<backups, payloads, remover, second, breaks>>

\* One payload is written, or the command fails and the error is noted.
Saves(a, kind, next) ==
    \/ /\ payloads' = payloads \cup {<<maker[a].at, kind>>}
       /\ MakerGoes(a, [maker[a] EXCEPT !.pc = next, !.got = @ \cup {kind}])
    \/ MakerGoes(a, [maker[a] EXCEPT !.pc = next, !.wrong = TRUE]) /\ UNCHANGED payloads

DumpDatabase(a) == MakerAt(a, "dump") /\ Saves(a, "db", "tar") /\ UNCHANGED <<backups, remover, second, breaks>>
ArchiveFiles(a) == MakerAt(a, "tar") /\ Saves(a, "files", "record") /\ UNCHANGED <<backups, remover, second, breaks>>

Outcome(m) == IF m.pc = "nothing" THEN "failed" ELSE IF m.wrong THEN "partial" ELSE "completed"

\* _save_backup_record
SaveBackupRecord(a) ==
    /\ maker[a].pc \in {"record", "nothing"}
    /\ \E b \in RowIds :
        /\ backups[b].status = "unused"
        /\ \A c \in 1..(b - 1) : backups[c].status # "unused"
        /\ backups' = [backups EXCEPT ![b] = [status |-> Outcome(maker[a]), at |-> maker[a].at,
                                              paths |-> maker[a].got, stale |-> FALSE]]
    /\ MakerGoes(a, Making)
    /\ UNCHANGED <<payloads, remover, second, breaks>>

\* A command times out, or the INSERT raises: the caller only notifies.
BackupRaises(a) ==
    /\ ~MakerAt(a, "idle")
    /\ breaks < MaxBreaks
    /\ breaks' = breaks + 1
    /\ MakerGoes(a, Making)
    /\ UNCHANGED <<backups, payloads, remover, second>>
-----------------------------------------------------------------------------
\* Deletions: the files first, then the row.

\* The payloads a row names.
NamedBy(b) == {<<backups[b].at, kind>> : kind \in backups[b].paths}

Present(b) == backups[b].status \notin {"unused", "gone"}
RemoverGoes(a, r) == remover' = [remover EXCEPT ![a] = r]
Free(a) == remover[a] = NotRemoving

\* DELETE /backups/{backup_id} refuses a client's completed backup, and does not get here
\* where a tenant backup has the same id (backup.py:242); the admin's route always does.
DeletableByClient(b) == Present(b) /\ backups[b].status # "completed"
DeletableByAdmin(b) == Present(b)

DeleteBackup(a) ==
    /\ Free(a)
    /\ \E b \in RowIds : /\ DeletableByClient(b) \/ DeletableByAdmin(b)
                         /\ RemoverGoes(a, [NotRemoving EXCEPT !.todo = {b}])
    /\ UNCHANGED <<backups, payloads, maker, second, breaks>>

\* cleanup_stale_backups selects the failed and partial ones of more than seven days.
Stale == {b \in RowIds : backups[b].status \in {"failed", "partial"} /\ backups[b].stale}

CleanupStaleBackups(a) ==
    /\ Free(a)
    /\ Stale # {}
    /\ RemoverGoes(a, [NotRemoving EXCEPT !.todo = Stale])
    /\ UNCHANGED <<backups, payloads, maker, second, breaks>>

NextRow(a) ==
    /\ remover[a].cur = 0
    /\ \E b \in remover[a].todo :
        RemoverGoes(a, [todo |-> remover[a].todo \ {b}, cur |-> b, files |-> NamedBy(b)])
    /\ UNCHANGED <<backups, payloads, maker, second, breaks>>

\* (mutant) only one of the two payloads is removed
RemoveFileOnce(a) ==
    /\ \E f \in remover[a].files :
        /\ payloads' = payloads \ {f}
        /\ RemoverGoes(a, [remover[a] EXCEPT !.files = {}])
    /\ UNCHANGED <<backups, maker, second, breaks>>

\* _remove_file_safe
RemoveFile(a) ==
    /\ \E f \in remover[a].files :
        /\ payloads' = payloads \ {f}
        /\ RemoverGoes(a, [remover[a] EXCEPT !.files = @ \ {f}])
    /\ UNCHANGED <<backups, maker, second, breaks>>

DeleteBackupRow(a) ==
    /\ remover[a].cur # 0
    /\ remover[a].files = {}
    /\ backups' = [backups EXCEPT ![remover[a].cur] = [Unused EXCEPT !.status = "gone", !.at = backups[remover[a].cur].at]]
    /\ RemoverGoes(a, [remover[a] EXCEPT !.cur = 0])
    /\ UNCHANGED <<payloads, maker, second, breaks>>

\* The DELETE raises or the process dies: a cleanup goes on with the next row.
RemovalRaises(a) ==
    /\ remover[a].cur # 0
    /\ breaks < MaxBreaks
    /\ breaks' = breaks + 1
    /\ RemoverGoes(a, [remover[a] EXCEPT !.cur = 0, !.files = {}])
    /\ UNCHANGED <<backups, payloads, maker, second>>

Ages(b) ==
    /\ backups[b].status \in {"failed", "partial"} /\ ~backups[b].stale
    /\ backups' = [backups EXCEPT ![b].stale = TRUE]
    /\ UNCHANGED <<payloads, maker, remover, second, breaks>>

InstanceNext ==
    \/ Tick
    \/ \E a \in Makers : BeginBackup(a) \/ DumpDatabase(a) \/ ArchiveFiles(a) \/ SaveBackupRecord(a) \/ BackupRaises(a)
    \/ \E a \in Removers : DeleteBackup(a) \/ CleanupStaleBackups(a) \/ NextRow(a) \/ RemoveFile(a)
                             \/ DeleteBackupRow(a) \/ RemovalRaises(a)
    \/ \E b \in RowIds : Ages(b)
-----------------------------------------------------------------------------
\* The payloads a creation under way has written.
NamedByMaker(a) == {<<maker[a].at, kind>> : kind \in maker[a].got}

\* A backup that shares its second, and so its directory, with another row or with a
\* creation under way.
Shares(b) ==
    \/ \E c \in RowIds \ {b} : backups[c].status # "unused" /\ backups[c].at = backups[b].at
    \/ \E a \in Makers : ~MakerAt(a, "idle") /\ maker[a].at = backups[b].at

\* build_download_package: what the row names and the disk still has.
Package(b) == NamedBy(b) \cap payloads

\* The download routes refuse a backup that is not completed or has lost its files.
Downloadable(b) == backups[b].status = "completed" /\ Package(b) # {}

\* A completed instance backup can be downloaded whole until a deletion takes it, and no
\* payload stays that nothing names, where no step raised and no two backups began in the
\* same second.
PayloadsMatch ==
    breaks = 0 =>
        /\ \A b \in RowIds : (backups[b].status = "completed" /\ ~Shares(b)) =>
             \/ Downloadable(b) /\ Package(b) = NamedBy(b)
             \/ \E a \in Removers : remover[a].cur = b
        /\ payloads \subseteq UNION ({NamedBy(b) : b \in {c \in RowIds : Present(c)}}
                                       \cup {NamedByMaker(a) : a \in Makers})
=============================================================================
