------------------------------ MODULE DataDir ------------------------------
(***************************************************************************)
(* The data directory as a whole: Attachments, the scheduled backups of    *)
(* the running server, and "hho restore", which replaces the database and  *)
(* the attachments while no server runs.                                   *)
(*                                                                         *)
(* A backup snapshots the database first and then walks the attachments    *)
(* while uploads, deletes and the reclaim pass go on.  A restore moves the *)
(* old database and the old attachments aside and the new ones into place, *)
(* four renames, and may be cut off between any two.                       *)
(***************************************************************************)
EXTENDS Attachments, Sequences

CONSTANTS
  Retain,      \* archives the retention keeps
  MaxBackups,  \* bound: scheduled backups published
  MaxRestores  \* bound: restores begun

ASSUME BoundsAssumption ==
  Retain \in Nat \ {0} /\ MaxBackups \in Nat /\ MaxRestores \in Nat

VARIABLES
  backup,    \* the backup in progress: what it has read so far
  archives,  \* backups/, oldest first
  published, \* history: scheduled backups published
  restore,   \* the restore in progress and the archive it staged
  restores,  \* restores begun
  place,     \* which of db/ and attachments/ exist in the data directory
  group,     \* the database has the group; a freshly created one has none
  aside,     \* what the .hho-pre-restore directories hold
  owed,      \* history: the data the restores found in place
  torn       \* history: a restore cut off half-way left the data in place

backupVars == <<backup, archives, published>>
restoreVars == <<restore, restores, place, group, aside, owed, torn>>
allVars == <<vars, backupVars, restoreVars>>

Nothing == [db |-> {}, attachments |-> {}]
NoBackup == [pc |-> "idle", table |-> [a \in AttachmentId |-> NoRow],
             todo |-> {}, have |-> {}]
NoRestore == [pc |-> "idle", archive |-> <<>>]

DataInit ==
  /\ Init
  /\ backup = NoBackup /\ archives = <<>> /\ published = 0
  /\ restore = NoRestore /\ restores = 0
  /\ place = {"db", "attachments"}
  /\ group = TRUE
  /\ aside = Nothing /\ owed = Nothing
  /\ torn = FALSE

(***************************************************************************)
(* Scheduled backup: WriteArchive into a staging file, rename, prune.  The *)
(* first loop iteration runs at start-up, so a crash can fall anywhere.    *)
(***************************************************************************)
BackupGoes(from, to) ==
  /\ serving /\ backup.pc = from
  /\ backup' = to
  /\ UNCHANGED <<vars, restoreVars>>

BackupSnapshot ==
  /\ group /\ published < MaxBackups
  /\ BackupGoes("idle", [NoBackup EXCEPT !.pc = "snapshot", !.table = rows])
  /\ UNCHANGED <<archives, published>>

BackupWalk ==
  /\ BackupGoes("snapshot", [backup EXCEPT !.pc = "walk", !.todo = files])
  /\ UNCHANGED <<archives, published>>

\* A name that has disappeared since the directory was read is skipped.
BackupEntry(f) ==
  /\ f \in backup.todo
  /\ BackupGoes("walk", [backup EXCEPT !.todo = @ \ {f},
                                       !.have = @ \cup ({f} \cap files)])
  /\ UNCHANGED <<archives, published>>

\* Mutant: the database is copied after the walk.
BackupPublish_SnapshotLast ==
  /\ backup.todo = {}
  /\ BackupGoes("walk", [NoBackup EXCEPT !.pc = "published"])
  /\ published' = published + 1
  /\ archives' = Append(archives,
       [number |-> published', table |-> rows, files |-> backup.have,
        deleted |-> userDeleted, torn |-> torn])

\* The record also notes, for the properties, which attachments users have
\* deleted by now, and the number of the backup, its timestamp in the code.
BackupPublish ==
  /\ backup.todo = {}
  /\ BackupGoes("walk", [NoBackup EXCEPT !.pc = "published"])
  /\ published' = published + 1
  /\ archives' = Append(archives,
       [number |-> published', table |-> backup.table, files |-> backup.have,
        deleted |-> userDeleted, torn |-> torn])

\* Mutant: the names are sorted the wrong way round.
BackupPrune_Oldest ==
  /\ BackupGoes("published", NoBackup)
  /\ archives' = IF Len(archives) > Retain THEN SubSeq(archives, 1, Retain) ELSE archives
  /\ UNCHANGED published

BackupPrune ==
  /\ BackupGoes("published", NoBackup)
  /\ archives' = IF Len(archives) > Retain
                   THEN SubSeq(archives, Len(archives) - Retain + 1, Len(archives))
                   ELSE archives
  /\ UNCHANGED published

BackupFails ==
  /\ \/ BackupGoes("snapshot", NoBackup)
     \/ BackupGoes("walk", NoBackup)
  /\ UNCHANGED <<archives, published>>

(***************************************************************************)
(* hho restore                                                             *)
(***************************************************************************)
\* The data in place: a database, attachment files.
InPlace ==
  [db |-> IF "db" \in place THEN {rows} ELSE {},
   attachments |-> IF files # {} THEN {files} ELSE {}]
Both(p, q) == [db |-> p.db \cup q.db, attachments |-> p.attachments \cup q.attachments]
Common(p, q) == [db |-> p.db \cap q.db, attachments |-> p.attachments \cap q.attachments]

dataDirHasExistingData == "db" \in place \/ files # {}

\* Both probes pass exactly when no server runs; each lets go again.
probeServerNotRunning == ~serving

RestoreGoes(from, to) ==
  /\ restore.pc = from
  /\ restore' = [restore EXCEPT !.pc = to]
  /\ UNCHANGED <<up, del, reclaim, serving, backupVars, restores>>

\* The archive is read, extracted to tmp/ and opened once; the operator gives
\* --force when there is data.
RestoreStage(archive) ==
  /\ probeServerNotRunning
  /\ restore.pc = "idle" /\ restores < MaxRestores
  /\ restores' = restores + 1
  /\ restore' = [pc |-> IF dataDirHasExistingData THEN "preserveDb" ELSE "placeDb",
                 archive |-> archive]
  /\ owed' = Both(Common(owed, aside), InPlace)
  /\ UNCHANGED <<vars, backupVars, place, group, aside, torn>>

\* Mutant: one preserved copy of each kind, replaced by the next.
preserveIfExists_Replaces(kind) ==
  /\ aside' = [aside EXCEPT ![kind] = IF InPlace[kind] = {} THEN @ ELSE InPlace[kind]]
  /\ place' = place \ {kind}

preserveIfExists(kind) ==
  /\ aside' = [aside EXCEPT ![kind] = @ \cup InPlace[kind]]
  /\ place' = place \ {kind}

RestorePreserveDb ==
  /\ RestoreGoes("preserveDb", "preserveAttachments")
  /\ preserveIfExists("db")
  /\ UNCHANGED <<tableVars, dirVars, group, owed, torn, userDeleted>>

RestorePreserveAttachments ==
  /\ RestoreGoes("preserveAttachments", "placeDb")
  /\ preserveIfExists("attachments")
  /\ files' = {} /\ onDisk' = {} /\ aged' = {}
  /\ UNCHANGED <<tableVars, group, owed, torn, userDeleted>>

RestorePlaceDb ==
  /\ RestoreGoes("placeDb", "placeAttachments")
  /\ place' = place \cup {"db"}
  /\ rows' = restore.archive.table /\ durable' = rows'
  /\ group' = TRUE
  /\ userDeleted' = restore.archive.deleted
  /\ UNCHANGED <<dirVars, aside, owed, torn>>

\* An archive without attachment files leaves an empty attachments/.
RestorePlaceAttachments ==
  /\ RestoreGoes("placeAttachments", "sync")
  /\ place' = place \cup {"attachments"}
  /\ files' = restore.archive.files /\ onDisk' = files' /\ aged' = {}
  /\ UNCHANGED <<tableVars, group, aside, owed, torn, userDeleted>>

RestoreCommit ==
  /\ restore.pc = "sync"
  /\ restore' = NoRestore
  /\ torn' = restore.archive.torn
  /\ UNCHANGED <<vars, backupVars, restores, place, group, aside, owed>>

\* An error or a kill between two renames: the staging directory is gone.
\* Before the first one the data is as it was, after the last one it is the
\* archive's.
RestoreCutOff ==
  /\ restore.pc # "idle"
  /\ restore' = NoRestore
  /\ torn' = IF restore.pc = "preserveDb" THEN torn
              ELSE restore.pc # "sync" \/ restore.archive.torn
  /\ UNCHANGED <<vars, backupVars, restores, place, group, aside, owed>>

(***************************************************************************)
(* Starting the server: Ensure makes the directories, Open creates an      *)
(* empty database where there is none.  No operator starts the server      *)
(* while a restore runs; the lock would not stop them (see README).        *)
(***************************************************************************)
DataServeStart ==
  /\ ~serving /\ serving' = TRUE
  /\ restore.pc = "idle"
  /\ place' = {"db", "attachments"}
  /\ group' = (group /\ "db" \in place)
  /\ rows' = IF "db" \in place THEN rows ELSE [a \in AttachmentId |-> NoRow]
  /\ durable' = IF "db" \in place THEN durable ELSE rows'
  /\ owed' = IF group' THEN Common(owed, aside) ELSE owed
  /\ UNCHANGED <<dirVars, up, del, reclaim, userDeleted, backupVars, restore,
                 restores, aside, torn>>

\* A new group registered in an empty database has a directory of its own,
\* so requests and the pass touch this group's only when it is there.
GroupStep ==
  /\ group
  /\ \/ \E a \in AttachmentId : attachmentUploadHandler(a) \/ attachmentDeleteHandler(a)
     \/ Reclaim
  /\ UNCHANGED <<backupVars, restoreVars>>

TimePasses ==
  /\ restore.pc = "idle"
  /\ \/ \E f \in FileName : Age(f)
     \/ SyncWal
  /\ UNCHANGED <<backupVars, restoreVars>>

\* Entries a power loss takes from the directory are no restore's doing.
ServerStops ==
  /\ Crash \/ PowerLoss
  /\ backup' = NoBackup
  /\ owed' = IF files' = files THEN owed
              ELSE [owed EXCEPT !.attachments = @ \cap aside.attachments]
  /\ UNCHANGED <<archives, published, restore, restores, place, group, aside, torn>>

Backup ==
  \/ BackupSnapshot \/ BackupWalk \/ BackupPublish \/ BackupPrune \/ BackupFails
  \/ \E f \in FileName : BackupEntry(f)

Restore ==
  \/ \E k \in DOMAIN archives : RestoreStage(archives[k])
  \/ RestorePreserveDb \/ RestorePreserveAttachments
  \/ RestorePlaceDb \/ RestorePlaceAttachments
  \/ RestoreCommit \/ RestoreCutOff

DataNext == GroupStep \/ TimePasses \/ ServerStops \/ Backup \/ Restore \/ DataServeStart

DataFairness ==
  /\ WF_allVars(group /\ Reclaim /\ UNCHANGED <<backupVars, restoreVars>>)
  /\ \A a \in AttachmentId :
       WF_allVars((UploadEnds(a) \/ DeleteEnds(a)) /\ group /\ UNCHANGED <<backupVars, restoreVars>>)
  /\ \A f \in FileName : SF_allVars(Age(f) /\ UNCHANGED <<backupVars, restoreVars>>)

DataSpec == DataInit /\ [][DataNext]_allVars /\ DataFairness

-----------------------------------------------------------------------------
(***************************************************************************)
(* Properties                                                              *)
(***************************************************************************)

\* The attachment properties hold across backups and restores as well, until
\* a restore is cut off between its renames and none has completed since.
RestoredDataWhole == torn \/ (restore.pc = "idle" => NoAttachmentLost /\ OnlyUsersDelete)

\* A finished archive is self-contained although the attachments were walked
\* after the snapshot with the server running: every live row of its database
\* has the files it names in the archive, unless users deleted the attachment
\* before the archive was finished.
ArchivesComplete ==
  \A k \in DOMAIN archives :
    archives[k].torn \/
      \A f \in Referenced(archives[k].table) :
        f \in archives[k].files \/ f[1] \in archives[k].deleted

\* Retention never drops one of the Retain newest backups, wherever the
\* server is killed between publishing an archive and pruning the old ones.
NewestBackupsKept ==
  \A n \in 1..published :
    n > published - Retain => \E k \in DOMAIN archives : archives[k].number = n

\* "The EXISTING data is moved aside, never deleted": what a restore found in
\* place is, at every moment and after being cut off anywhere, in place or in
\* a .hho-pre-restore directory, database and attachments both, even when a
\* server has since started on what was left.
NothingLost ==
  /\ owed.db \subseteq aside.db \cup InPlace.db
  /\ owed.attachments \subseteq aside.attachments \cup InPlace.attachments

\* The directory settles although archives are restored in between.
DataSettles == <>[](serving /\ group) => <>[](files = Referenced(rows))
=============================================================================
