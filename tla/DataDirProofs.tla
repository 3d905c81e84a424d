--------------------------- MODULE DataDirProofs ---------------------------
(***************************************************************************)
(* Proofs about DataDir for any number of attachments, backups and         *)
(* restores: attachments survive crashes, power losses, reclaim passes and *)
(* restores; archives are self-contained; retention keeps the newest       *)
(* backups; what a restore found is never lost.                            *)
(***************************************************************************)
EXTENDS DataDir, TLAPS

Row == [state : {"none", "live", "tombstone"}, thumbnail : BOOLEAN]
Table == [AttachmentId -> Row]
Stage == {"idle", "staged", "renamed", "synced", "recorded", "thumbRenamed",
          "thumbSynced", "done", "ended"}
DelRow == [pc : {"idle", "read", "tombstoned", "unlinked"}, thumbnail : BOOLEAN]
Archive == [number : Nat, table : Table, files : SUBSET FileName,
            deleted : SUBSET AttachmentId, torn : BOOLEAN]
Staged == [pc : {"idle", "preserveDb", "preserveAttachments", "placeDb",
                 "placeAttachments", "sync"},
           archive : Archive \cup {<<>>}]
Kept == [db : SUBSET Table, attachments : SUBSET SUBSET FileName]

\* f is a file that a live row of the table names.
Names(table, f) == Live(table, f[1]) /\ (f[2] = "thumbnail" => table[f[1]].thumbnail)

-----------------------------------------------------------------------------
(***************************************************************************)
(* The inductive invariant, piece by piece.                                *)
(***************************************************************************)
DataType ==
  /\ TypeOK
  /\ reclaim \in [pc : {"idle", "listed", "files", "rows"},
                  live : SUBSET AttachmentId, thumbnails : SUBSET AttachmentId,
                  todo : SUBSET (FileName \cup AttachmentId)]
  /\ backup \in [pc : {"idle", "snapshot", "walk", "published"}, table : Table,
                 todo : SUBSET FileName, have : SUBSET FileName]
  /\ archives \in Seq(Archive) /\ published \in Nat
  /\ restore \in Staged
  /\ restore.pc # "idle" => restore.archive \in Archive
  /\ place \subseteq {"db", "attachments"}
  /\ aside \in Kept /\ owed \in Kept
  /\ group \in BOOLEAN /\ torn \in BOOLEAN

\* A process that does not run has left no request, pass or backup behind,
\* and a restore runs only then.
Stopped ==
  /\ ~serving => /\ \A a \in AttachmentId : up[a] \in {"idle", "done", "ended"}
                 /\ \A a \in AttachmentId : del[a].pc = "idle"
                 /\ reclaim.pc = "idle"
                 /\ backup = NoBackup
  /\ restore.pc # "idle" => ~serving

\* The upload of a has not come as far as its row, or as its first file.
NoRowYet(a) == up[a] \in {"idle", "staged", "renamed", "synced"}
NoFileYet(a) == up[a] \in {"idle", "staged"}

\* A row, here or in an archive, is there only after its upload recorded it.
RowsRecorded ==
  \A a \in AttachmentId : NoRowYet(a) =>
    /\ rows[a] = NoRow /\ durable[a] = NoRow /\ backup.table[a] = NoRow
    /\ \A k \in DOMAIN archives : archives[k].table[a] = NoRow
    /\ restore.pc # "idle" => restore.archive.table[a] = NoRow

\* Until the upload records the thumbnail no row names it.
ThumbnailsRecorded ==
  \A a \in AttachmentId : up[a] \in {"recorded", "thumbRenamed", "thumbSynced"} =>
    ~rows[a].thumbnail /\ ~durable[a].thumbnail /\ ~backup.table[a].thumbnail

\* A file is there only after its upload renamed it.
FilesRenamed ==
  \A f \in FileName : NoFileYet(f[1]) =>
    /\ f \notin files /\ f \notin onDisk /\ f \notin backup.have
    /\ f \notin backup.todo
    /\ \A k \in DOMAIN archives : f \notin archives[k].files
    /\ restore.pc # "idle" => f \notin restore.archive.files

\* An old file's upload has ended.
AgedEnded == \A f \in aged : up[f[1]] \in {"done", "ended"}

\* What an upload in progress has written, and synced, is there.
UploadsKept ==
  \A a \in AttachmentId \ userDeleted :
    /\ up[a] = "renamed" => Original(a) \in files
    /\ up[a] = "synced" => Original(a) \in files \cap onDisk
    /\ up[a] = "thumbRenamed" => Thumbnail(a) \in files
    /\ up[a] = "thumbSynced" => Thumbnail(a) \in files \cap onDisk

DeletesCommitted ==
  \A a \in AttachmentId : del[a].pc \in {"tombstoned", "unlinked"} => a \in userDeleted

\* The pass spares every old file that a row names now, though it listed the
\* rows some time ago.
PassSpares ==
  /\ reclaim.pc \in {"listed", "files"} =>
       \A f \in aged : Names(rows, f) /\ f[1] \notin userDeleted => f \in PassReferences
  /\ reclaim.pc = "files" => reclaim.todo \cap PassReferences = {}

\* The tables t and the deleted attachments d go with the files fs.
Backed(t, d, fs) ==
  /\ \A f \in FileName : Names(t, f) => f \in fs \/ f[1] \in d
  /\ \A a \in AttachmentId : t[a].state = "tombstone" => a \in d

\* What is named is in the directory and on the disk, and what the disk's
\* table names is still named.
Whole ==
  /\ "db" \in place
  /\ Backed(rows, userDeleted, files \cap onDisk)
  /\ \A f \in FileName : Names(durable, f) => Names(rows, f) \/ f[1] \in userDeleted
  /\ \A a \in AttachmentId : durable[a].state = "tombstone" => a \in userDeleted

WholeUntilMoved == restore.pc \in {"idle", "preserveDb"} => torn \/ Whole

\* The backup in progress has, or will come to, every file its snapshot names.
BackupGathers ==
  torn \/
    /\ \A f \in FileName : Names(backup.table, f) =>
         \/ f[1] \in userDeleted
         \/ Names(rows, f) /\ (backup.pc = "walk" => f \in backup.todo \cup backup.have)
    /\ \A a \in AttachmentId : backup.table[a].state = "tombstone" => a \in userDeleted

Complete(ar) == ar.torn \/ Backed(ar.table, ar.deleted, ar.files)

ArchivesWhole ==
  /\ \A k \in DOMAIN archives : Complete(archives[k])
  /\ restore.pc # "idle" => Complete(restore.archive)

\* What the restore has moved so far.
RestoreProgress ==
  /\ restore.pc \in {"preserveAttachments", "placeDb"} => "db" \notin place
  /\ restore.pc \in {"placeDb", "placeAttachments"} => files = {}
  /\ restore.pc \in {"placeAttachments", "sync"} =>
       /\ "db" \in place
       /\ rows = restore.archive.table /\ durable = rows
       /\ userDeleted = restore.archive.deleted
  /\ restore.pc = "sync" => files = restore.archive.files /\ onDisk = files

\* Once a server works on the group's data, what is owed has been moved aside.
OwedSafe ==
  /\ \A t \in owed.db : t \in aside.db \/ ("db" \in place /\ t = rows)
  /\ \A d \in owed.attachments : d \in aside.attachments \/ (files # {} /\ d = files)
  /\ serving /\ group =>
       owed.db \subseteq aside.db /\ owed.attachments \subseteq aside.attachments
  /\ ~group => rows = durable

\* The archives are numbered without a gap up to the last one published.
Numbered ==
  /\ Len(archives) <= published
  /\ Len(archives) < Retain => Len(archives) = published
  /\ \A k \in 1..Len(archives) :
       archives[k].number = (published - Len(archives)) + k

DataInv ==
  /\ DataType /\ Stopped
  /\ RowsRecorded /\ ThumbnailsRecorded /\ FilesRenamed /\ AgedEnded
  /\ UploadsKept /\ DeletesCommitted /\ PassSpares
  /\ WholeUntilMoved /\ BackupGathers /\ ArchivesWhole /\ RestoreProgress

-----------------------------------------------------------------------------
(***************************************************************************)
(* File names, rows and tables.                                            *)
(***************************************************************************)

\* A file name is the original's or the thumbnail's, of one attachment.
LEMMA FileNames ==
  /\ \A a \in AttachmentId :
       /\ Original(a) \in FileName /\ Original(a)[1] = a /\ Original(a)[2] = "original"
       /\ Thumbnail(a) \in FileName /\ Thumbnail(a)[1] = a
       /\ Thumbnail(a)[2] = "thumbnail"
  /\ \A f \in FileName :
       /\ f[1] \in AttachmentId
       /\ f[2] = "thumbnail" => f = Thumbnail(f[1])
       /\ f[2] # "thumbnail" => f = Original(f[1])
BY DEF FileName, Original, Thumbnail

\* What changes when the row of one attachment does.
LEMMA NamesAt ==
  ASSUME NEW t, NEW a \in AttachmentId
  PROVE  /\ Names(t, Original(a)) <=> Live(t, a)
         /\ Names(t, Thumbnail(a)) <=> Live(t, a) /\ t[a].thumbnail
BY FileNames DEF Names

\* Files of other attachments are named as before.
LEMMA NamesElsewhere ==
  ASSUME NEW t, NEW u, NEW a \in AttachmentId,
         \A b \in AttachmentId : b # a => u[b] = t[b]
  PROVE  \A f \in FileName :
           f = Original(a) \/ f = Thumbnail(a) \/ (Names(u, f) <=> Names(t, f))
BY FileNames DEF Names, Live

\* Setting a column of one row gives a table.
LEMMA RowPut ==
  ASSUME NEW t \in Table, NEW a \in AttachmentId, NEW s \in {"none", "live", "tombstone"},
         NEW b \in BOOLEAN
  PROVE  /\ [t EXCEPT ![a].thumbnail = b] \in Table
         /\ [t EXCEPT ![a].state = s] \in Table
         /\ [t EXCEPT ![a] = [state |-> s, thumbnail |-> b]] \in Table
<1>1. [t[a] EXCEPT !.thumbnail = b] \in Row
  BY DEF Table, Row
<1>2. [t[a] EXCEPT !.state = s] \in Row
  BY DEF Table, Row
<1>3. [state |-> s, thumbnail |-> b] \in Row
  BY DEF Row
<1> QED BY <1>1, <1>2, <1>3 DEF Table

\* What Referenced collects is what Names says.
LEMMA ReferencedNames ==
  ASSUME NEW t \in Table
  PROVE  /\ Referenced(t) \subseteq FileName
         /\ \A f \in FileName : f \in Referenced(t) <=> Names(t, f)
<1>1. ASSUME NEW f \in Referenced(t) PROVE f \in FileName /\ Names(t, f)
  <2>1. CASE \E a \in LiveRows(t) : f = Original(a)
    BY <2>1, FileNames DEF LiveRows, Names
  <2>2. CASE \E a \in WithThumbnail(t) : f = Thumbnail(a)
    BY <2>2, FileNames DEF WithThumbnail, LiveRows, Names
  <2> QED BY <1>1, <2>1, <2>2 DEF Referenced
<1>2. ASSUME NEW f \in FileName, Names(t, f) PROVE f \in Referenced(t)
  <2>1. f[1] \in LiveRows(t)
    BY <1>2, FileNames DEF Names, LiveRows
  <2>2. f[2] = "thumbnail" => f[1] \in WithThumbnail(t)
    BY <1>2, <2>1 DEF Names, WithThumbnail
  <2> QED BY <2>1, <2>2, FileNames DEF Referenced
<1> QED BY <1>1, <1>2

-----------------------------------------------------------------------------
(***************************************************************************)
(* The empty data directory, and the numbers of the backups.               *)
(***************************************************************************)
\* With no backup in progress nothing is being gathered.
LEMMA NoBackupFacts ==
  /\ NoBackup \in [pc : {"idle", "snapshot", "walk", "published"}, table : Table,
                   todo : SUBSET FileName, have : SUBSET FileName]
  /\ NoBackup.pc = "idle" /\ NoBackup.todo = {} /\ NoBackup.have = {}
  /\ \A a \in AttachmentId : NoBackup.table[a] = NoRow
  /\ NoRow \in Row /\ ~NoRow.thumbnail /\ NoRow.state = "none"
  /\ \A f \in FileName : ~Names(NoBackup.table, f)
<1>1. NoRow \in Row /\ ~NoRow.thumbnail /\ NoRow.state = "none"
  BY DEF NoRow, Row
<1>2. /\ NoBackup.pc = "idle" /\ NoBackup.todo = {} /\ NoBackup.have = {}
      /\ NoBackup.table = [a \in AttachmentId |-> NoRow]
  BY DEF NoBackup
<1>3. NoBackup.table \in Table
  BY <1>1, <1>2 DEF Table
<1>4. \A f \in FileName : ~Names(NoBackup.table, f)
  BY <1>1, <1>2, FileNames DEF Names, Live
<1> QED BY <1>1, <1>2, <1>3, <1>4 DEF NoBackup

\* The empty data directory satisfies the invariant.
LEMMA DataInitOK == DataInit => DataInv
<1> SUFFICES ASSUME DataInit PROVE DataInv
  OBVIOUS
<1>0. /\ rows = [a \in AttachmentId |-> NoRow] /\ durable = rows
      /\ files = {} /\ onDisk = {} /\ aged = {} /\ userDeleted = {} /\ serving \in BOOLEAN
      /\ up = [a \in AttachmentId |-> "idle"] /\ del = [a \in AttachmentId |-> NoDelete]
      /\ reclaim = NoPass
  BY DEF DataInit, Init
<1>0a. /\ backup = NoBackup /\ archives = <<>> /\ published = 0
       /\ restore = NoRestore /\ place = {"db", "attachments"} /\ group = TRUE
       /\ aside = Nothing /\ owed = Nothing /\ torn = FALSE
  BY DEF DataInit
<1>1. NoBackup.table = [a \in AttachmentId |-> NoRow] /\ NoRestore.pc = "idle"
      /\ NoRestore \in Staged /\ NoPass.pc = "idle"
  BY DEF NoBackup, NoRestore, Staged, NoPass
<1>2. rows \in Table /\ durable \in Table
  BY ONLY <1>0, NoBackupFacts DEF Table
<1>3. NoDelete \in DelRow /\ NoDelete.pc = "idle"
  BY DEF NoDelete, DelRow
<1>4. del \in [AttachmentId -> DelRow]
  BY ONLY <1>0, <1>3
<1>5. /\ reclaim \in [pc : {"idle", "listed", "files", "rows"},
                      live : SUBSET AttachmentId, thumbnails : SUBSET AttachmentId,
                      todo : SUBSET (FileName \cup AttachmentId)]
      /\ reclaim.thumbnails \subseteq reclaim.live
  BY ONLY <1>0 DEF NoPass
<1>6. TypeOK
  BY ONLY <1>0, <1>2, <1>4, <1>5 DEF TypeOK, Table, Row, DelRow
<1>7. Nothing \in Kept
  BY DEF Nothing, Kept
<1>8. DataType
  <2>1. archives \in Seq(Archive) /\ published \in Nat /\ place \subseteq {"db", "attachments"}
    BY ONLY <1>0a
  <2>2. restore \in Staged /\ restore.pc = "idle"
    BY ONLY <1>0a, <1>1
  <2>3. backup \in [pc : {"idle", "snapshot", "walk", "published"}, table : Table,
                    todo : SUBSET FileName, have : SUBSET FileName]
    BY ONLY <1>0a, NoBackupFacts
  <2>4. aside \in Kept /\ owed \in Kept /\ group \in BOOLEAN /\ torn \in BOOLEAN
    BY ONLY <1>0a, <1>7, Zenon
  <2> QED BY ONLY <1>5, <1>6, <2>1, <2>2, <2>3, <2>4 DEF DataType
<1>9. \A f \in FileName : ~Names(rows, f) /\ ~Names(durable, f)
  BY ONLY <1>0, <1>1, NoBackupFacts
<1>10. /\ Stopped /\ RowsRecorded /\ ThumbnailsRecorded /\ FilesRenamed /\ AgedEnded
       /\ UploadsKept /\ DeletesCommitted /\ PassSpares
  <2>1. Stopped /\ DeletesCommitted /\ PassSpares
    BY ONLY <1>0, <1>0a, <1>1, <1>3, NoBackupFacts DEF Stopped, DeletesCommitted, PassSpares
  <2>2. RowsRecorded /\ ThumbnailsRecorded
    BY ONLY <1>0, <1>0a, <1>1, NoBackupFacts DEF RowsRecorded, ThumbnailsRecorded
  <2>3. FilesRenamed /\ AgedEnded /\ UploadsKept
    BY ONLY <1>0, <1>0a, <1>1, NoBackupFacts DEF FilesRenamed, AgedEnded, UploadsKept
  <2> QED BY ONLY <2>1, <2>2, <2>3
<1>11. WholeUntilMoved /\ BackupGathers /\ ArchivesWhole /\ RestoreProgress
  <2>1. /\ backup = NoBackup /\ archives = <<>> /\ restore.pc = "idle" /\ "db" \in place
        /\ \A a \in AttachmentId : rows[a].state = "none" /\ durable[a].state = "none"
    BY ONLY <1>0, <1>0a, <1>1, NoBackupFacts
  <2>2. Whole
    BY ONLY <1>9, <2>1 DEF Whole, Backed
  <2>3. BackupGathers
    BY ONLY <2>1, NoBackupFacts DEF BackupGathers
  <2> QED BY ONLY <2>1, <2>2, <2>3 DEF WholeUntilMoved, ArchivesWhole, RestoreProgress
<1> QED BY <1>8, <1>10, <1>11 DEF DataInv

\* The last r elements of a sequence, where they were.
LEMMA LastOnes ==
  ASSUME NEW S, NEW s \in Seq(S), NEW r \in Nat, r < Len(s)
  PROVE  LET t == SubSeq(s, Len(s) - r + 1, Len(s))
         IN  Len(t) = r /\ \A k \in 1..r : t[k] = s[(Len(s) - r) + k]
OBVIOUS

\* A restore reads the archives and leaves them.
LEMMA RestoreLeavesBackups ==
  ASSUME Restore
  PROVE  UNCHANGED backupVars
<1>1. CASE \E k \in DOMAIN archives : RestoreStage(archives[k])
  BY ONLY <1>1 DEF RestoreStage
<1>2. CASE RestorePreserveDb \/ RestorePreserveAttachments
  BY ONLY <1>2 DEF RestorePreserveDb, RestorePreserveAttachments, RestoreGoes
<1>3. CASE RestorePlaceDb \/ RestorePlaceAttachments
  BY ONLY <1>3 DEF RestorePlaceDb, RestorePlaceAttachments, RestoreGoes
<1>4. CASE RestoreCommit \/ RestoreCutOff
  BY ONLY <1>4 DEF RestoreCommit, RestoreCutOff
<1> QED BY ONLY <1>1, <1>2, <1>3, <1>4, Restore DEF Restore

\* Whatever a backup does, it goes from one stage to another.
LEMMA BackupGoing ==
  ASSUME Backup
  PROVE  \E from, to : BackupGoes(from, to)
<1>1. ASSUME BackupSnapshot PROVE \E from, to : BackupGoes(from, to)
  BY ONLY <1>1, Zenon DEF BackupSnapshot
<1>2. ASSUME BackupWalk PROVE \E from, to : BackupGoes(from, to)
  BY ONLY <1>2, Zenon DEF BackupWalk
<1>3. ASSUME BackupPublish PROVE \E from, to : BackupGoes(from, to)
  BY ONLY <1>3, Zenon DEF BackupPublish
<1>4. ASSUME BackupPrune PROVE \E from, to : BackupGoes(from, to)
  BY ONLY <1>4, Zenon DEF BackupPrune
<1>5. ASSUME BackupFails PROVE \E from, to : BackupGoes(from, to)
  BY ONLY <1>5, Zenon DEF BackupFails
<1>6. ASSUME NEW f \in FileName, BackupEntry(f) PROVE \E from, to : BackupGoes(from, to)
  BY ONLY <1>6, Zenon DEF BackupEntry
<1> QED BY ONLY <1>1, <1>2, <1>3, <1>4, <1>5, <1>6, Backup, Zenon DEF Backup

\* Publishing adds the next number at the end and pruning keeps the last
\* Retain, so the newest are there after every step.
LEMMA NumberedStep == DataInv /\ Numbered /\ [DataNext]_allVars => Numbered'
<1> SUFFICES ASSUME DataInv, Numbered, [DataNext]_allVars PROVE Numbered'
  OBVIOUS
<1>1. archives \in Seq(Archive) /\ published \in Nat
  BY DEF DataInv, DataType
<1>2. CASE UNCHANGED <<archives, published>>
  BY <1>2 DEF Numbered
<1>3. CASE BackupPublish
  <2>1. PICK ar : archives' = Append(archives, ar) /\ ar.number = published + 1
    BY <1>3 DEF BackupPublish
  <2>2. published' = published + 1
    BY <1>3 DEF BackupPublish
  <2>3. Len(archives') = Len(archives) + 1 /\ Len(archives) \in Nat
    BY <1>1, <2>1
  <2>4. ASSUME NEW k \in 1..Len(archives')
        PROVE  archives'[k].number = (published' - Len(archives')) + k
    <3>1. CASE k = Len(archives')
      BY <1>1, <2>1, <2>2, <2>3, <3>1
    <3>2. CASE k # Len(archives')
      <4>1. k \in 1..Len(archives) /\ archives'[k] = archives[k]
        BY <1>1, <2>1, <2>3, <3>2
      <4> QED BY <1>1, <2>2, <2>3, <4>1 DEF Numbered
    <3> QED BY <3>1, <3>2
  <2> QED BY <1>1, <2>2, <2>3, <2>4, BoundsAssumption DEF Numbered
<1>4. CASE BackupPrune /\ Len(archives) > Retain
  <2>1. archives' = SubSeq(archives, Len(archives) - Retain + 1, Len(archives))
        /\ published' = published
    BY <1>4, Zenon DEF BackupPrune
  <2>2. Retain \in Nat /\ Retain > 0 /\ Retain < Len(archives)
    BY ONLY <1>4, BoundsAssumption
  <2>3. /\ Len(archives') = Retain
        /\ \A k \in 1..Retain : archives'[k] = archives[(Len(archives) - Retain) + k]
    BY ONLY <1>1, <2>1, <2>2, LastOnes
  <2> QED BY <1>1, <2>1, <2>2, <2>3, BoundsAssumption DEF Numbered
<1>5. CASE GroupStep \/ TimePasses \/ ServerStops
  BY ONLY <1>2, <1>5 DEF GroupStep, TimePasses, ServerStops, backupVars
<1>6. CASE Backup
  <2>1. CASE BackupSnapshot \/ BackupWalk \/ BackupFails
    BY ONLY <1>2, <2>1 DEF BackupSnapshot, BackupWalk, BackupFails
  <2>2. CASE \E f \in FileName : BackupEntry(f)
    BY ONLY <1>2, <2>2 DEF BackupEntry
  <2>3. CASE BackupPrune /\ ~(Len(archives) > Retain)
    BY ONLY <1>2, <2>3 DEF BackupPrune
  <2> QED BY ONLY <1>3, <1>4, <1>6, <2>1, <2>2, <2>3 DEF Backup
<1>7. CASE Restore
  <2>1. UNCHANGED backupVars
    BY <1>7, RestoreLeavesBackups
  <2> QED BY ONLY <1>2, <2>1 DEF backupVars
<1>8. CASE DataServeStart \/ UNCHANGED allVars
  BY ONLY <1>2, <1>8 DEF DataServeStart, allVars, backupVars
<1> QED BY ONLY <1>5, <1>6, <1>7, <1>8, [DataNext]_allVars DEF DataNext

\* The upload handler of a, as far as the directory goes: each step takes the
\* upload on and adds, syncs or removes at most one of its two files.  The
\* table changes only in the two transactions.
UploadMoves(a) ==
  /\ serving /\ UNCHANGED <<del, reclaim, serving, userDeleted>>
  /\ up[a] \notin {"done", "ended"} /\ up' \in [AttachmentId -> Stage]
  /\ \A b \in AttachmentId : b # a => up'[b] = up[b]
  /\ aged' \subseteq aged
  /\ \/ /\ UNCHANGED dirVars
        /\ up'[a] \in {"staged", "recorded", "done", "ended"}
        /\ up'[a] = "staged" => up[a] = "idle"
        /\ up'[a] = "recorded" => up[a] = "synced"
     \/ /\ up[a] = "staged" /\ up'[a] = "renamed"
        /\ RenameInto(Original(a))
     \/ /\ \/ up[a] = "renamed" /\ up'[a] = "synced"
           \/ up[a] = "thumbRenamed" /\ up'[a] = "thumbSynced"
        /\ fsyncDir
     \/ /\ up[a] = "synced" /\ up'[a] = "ended"
        /\ Remove(Original(a))
     \/ /\ up[a] = "recorded" /\ up'[a] = "thumbRenamed"
        /\ RenameInto(Thumbnail(a))
     \/ /\ up[a] \in {"thumbRenamed", "thumbSynced"} /\ up'[a] = "done"
        /\ Remove(Thumbnail(a))
  /\ UNCHANGED tableVars \/ UploadRecord(a) \/ ThumbnailRecord(a)

\* The upload handler's file operations do no more than UploadMoves allows.
LEMMA UploadDirs ==
  ASSUME DataInv, NEW a \in AttachmentId, attachmentUploadHandler(a)
  PROVE  UploadMoves(a)
<1>1. up \in [AttachmentId -> Stage]
  BY DEF DataInv, DataType, TypeOK, Stage
<1>2. ASSUME NEW from, NEW to \in Stage, UploadGoes(a, from, to)
      PROVE  /\ serving /\ UNCHANGED <<del, reclaim, serving, userDeleted>>
             /\ up[a] = from /\ up'[a] = to /\ up' \in [AttachmentId -> Stage]
             /\ \A b \in AttachmentId : b # a => up'[b] = up[b]
  BY ONLY <1>1, <1>2 DEF UploadGoes
<1> USE DEF UploadMoves, Stage
<1>3. CASE UploadStage(a)
  BY ONLY <1>2, <1>3 DEF UploadStage, dirVars
<1>4. CASE UploadAbandon(a)
  BY ONLY <1>2, <1>4 DEF UploadAbandon, dirVars
<1>5. CASE UploadRename(a)
  BY ONLY <1>2, <1>5 DEF UploadRename, RenameInto
<1>6. CASE UploadSync(a)
  BY ONLY <1>2, <1>6 DEF UploadSync, fsyncDir
<1>7. CASE UploadSyncFails(a)
  BY ONLY <1>2, <1>7 DEF UploadSyncFails, dirVars
<1>8. CASE UploadRecord(a)
  BY ONLY <1>2, <1>8 DEF UploadRecord, dirVars
<1>9. CASE UploadRecordFails(a)
  BY ONLY <1>2, <1>9 DEF UploadRecordFails, Remove
<1>10. CASE ThumbnailRename(a)
  BY ONLY <1>2, <1>10 DEF ThumbnailRename, RenameInto
<1>11. CASE ThumbnailFails(a)
  BY ONLY <1>2, <1>11 DEF ThumbnailFails, dirVars
<1>12. CASE ThumbnailSync(a)
  BY ONLY <1>2, <1>12 DEF ThumbnailSync, fsyncDir
<1>13. CASE ThumbnailRecord(a)
  BY ONLY <1>2, <1>13 DEF ThumbnailRecord, dirVars
<1>14. CASE ThumbnailDiscard(a)
  BY ONLY <1>2, <1>14 DEF ThumbnailDiscard, Remove
<1> HIDE DEF UploadMoves, Stage
<1> QED
  BY ONLY <1>3, <1>4, <1>5, <1>6, <1>7, <1>8, <1>9, <1>10, <1>11, <1>12, <1>13, <1>14,
     attachmentUploadHandler(a) DEF attachmentUploadHandler

\* A restore moves what it found aside before it puts anything in its place,
\* and a server that works on the group's data owes nothing that is not aside.
LEMMA OwedStep == DataInv /\ OwedSafe /\ [DataNext]_allVars => OwedSafe'
<1> SUFFICES ASSUME DataInv, OwedSafe, [DataNext]_allVars PROVE OwedSafe'
  OBVIOUS
<1> USE DEF OwedSafe
<1>s. OwedSafe
  OBVIOUS
<1>0. aside \in Kept /\ owed \in Kept /\ group \in BOOLEAN
  BY DEF DataInv, DataType
<1>1. CASE UNCHANGED <<rows, durable, files, serving, place, group, aside, owed>>
  BY ONLY <1>s, <1>1
<1>2. CASE GroupStep
  <2>0. group /\ UNCHANGED <<backupVars, restoreVars>>
    BY ONLY <1>2 DEF GroupStep
  <2>1. serving /\ group
    <3>1. ASSUME NEW a \in AttachmentId, attachmentUploadHandler(a) PROVE serving
      BY <3>1, UploadDirs DEF UploadMoves
    <3>2. ASSUME NEW a \in AttachmentId, attachmentDeleteHandler(a) PROVE serving
      BY ONLY <3>2 DEF attachmentDeleteHandler, DeleteRead, DeleteTombstone, DeleteNotFound,
         DeleteOriginal, DeleteThumbnail, DeleteGoes
    <3>3. ASSUME Reclaim PROVE serving
      BY ONLY <3>3, Zenon DEF Reclaim, ReclaimList, ReclaimReadDir, ReclaimFile, ReclaimFilesDone,
         ReclaimRow, ReclaimEnd, PassGoes
    <3> QED BY ONLY <1>2, <2>0, <3>1, <3>2, <3>3 DEF GroupStep
  <2>2. UNCHANGED <<group, aside, owed>>
    BY ONLY <2>0 DEF restoreVars
  <2> QED BY ONLY <1>s, <2>1, <2>2
<1>3. CASE TimePasses
  <2>1. /\ UNCHANGED <<rows, files, serving, place, group, aside, owed>>
        /\ durable' = durable \/ durable' = rows
    BY ONLY <1>3 DEF TimePasses, Age, SyncWal, tableVars, dirVars, restoreVars
  <2> QED BY ONLY <1>s, <2>1
<1>4. CASE ServerStops
  <2>1. /\ serving /\ ~serving' /\ UNCHANGED <<durable, place, group, aside>>
        /\ rows' = rows \/ rows' = durable
        /\ files' = files => owed' = owed
        /\ files' # files =>
             owed' = [owed EXCEPT !.attachments = owed.attachments \cap aside.attachments]
    BY ONLY <1>4 DEF ServerStops, Crash, PowerLoss, ProcessEnds, tableVars, dirVars
  <2>2. /\ owed'.db = owed.db
        /\ files' = files => owed'.attachments = owed.attachments
        /\ files' # files => owed'.attachments \subseteq aside.attachments
        /\ owed'.attachments \subseteq owed.attachments
    BY ONLY <1>0, <2>1 DEF Kept
  <2> QED BY ONLY <1>s, <2>1, <2>2
<1>5. CASE DataServeStart
  <2>1. /\ serving' /\ UNCHANGED <<files, aside>> /\ "db" \in place'
        /\ "db" \in place => rows' = rows /\ durable' = durable
        /\ "db" \notin place => rows' = durable' /\ group' = FALSE
        /\ group' => group /\ owed' = Common(owed, aside)
        /\ ~group' => owed' = owed
        /\ "db" \in place => group' = group
    BY ONLY <1>0, <1>5, Zenon DEF DataServeStart, dirVars
  <2>2. CASE group'
    BY ONLY <1>s, <2>1, <2>2 DEF Common
  <2>3. CASE ~group'
    BY ONLY <1>s, <2>1, <2>3
  <2> QED BY ONLY <2>2, <2>3
<1>6. ASSUME NEW k \in DOMAIN archives, RestoreStage(archives[k]) PROVE OwedSafe'
  <2>1. /\ ~serving' /\ UNCHANGED <<rows, durable, files, place, group, aside>>
        /\ owed' = Both(Common(owed, aside), InPlace)
    BY ONLY <1>6 DEF RestoreStage, probeServerNotRunning, vars
  <2>2. /\ \A t \in owed'.db : t \in aside.db \/ ("db" \in place /\ t = rows)
        /\ \A d \in owed'.attachments : d \in aside.attachments \/ (files # {} /\ d = files)
    BY ONLY <2>1 DEF Both, Common, InPlace
  <2> QED BY ONLY <1>s, <2>1, <2>2
<1>7. CASE RestorePreserveDb
  <2>1. /\ aside' = [aside EXCEPT !.db = aside.db \cup InPlace.db]
        /\ place' = place \ {"db"} /\ ~serving'
        /\ UNCHANGED <<rows, durable, files, group, owed>>
    BY <1>0, <1>7, Zenon DEF RestorePreserveDb, InPlace, RestoreGoes, preserveIfExists, tableVars, dirVars,
       Kept, DataInv, Stopped
  <2>2. aside'.db = aside.db \cup InPlace.db /\ aside'.attachments = aside.attachments
    BY ONLY <1>0, <2>1 DEF Kept
  <2>3. \A t : "db" \in place /\ t = rows => t \in aside'.db
    BY ONLY <2>2 DEF InPlace
  <2> QED BY ONLY <1>s, <2>1, <2>2, <2>3
<1>8. CASE RestorePreserveAttachments
  <2>1. /\ aside' = [aside EXCEPT !.attachments = aside.attachments \cup InPlace.attachments]
        /\ ~serving' /\ place' = place \ {"attachments"}
        /\ UNCHANGED <<rows, durable, group, owed>>
    BY <1>0, <1>8, Zenon DEF RestorePreserveAttachments, InPlace, RestoreGoes, preserveIfExists, tableVars,
       Kept, DataInv, Stopped
  <2>2. /\ aside'.attachments = aside.attachments \cup InPlace.attachments
        /\ aside'.db = aside.db
    BY ONLY <1>0, <2>1 DEF Kept
  <2>3. \A d : files # {} /\ d = files => d \in aside'.attachments
    BY ONLY <2>2 DEF InPlace
  <2> QED BY ONLY <1>s, <2>1, <2>2, <2>3
<1>9. CASE RestorePlaceDb
  <2>1. /\ "db" \notin place /\ ~serving' /\ UNCHANGED <<files, aside, owed>> /\ group'
    BY <1>9 DEF RestorePlaceDb, RestoreGoes, dirVars, DataInv, RestoreProgress, Stopped
  <2> QED BY ONLY <1>s, <2>1
<1>10. CASE RestorePlaceAttachments
  <2>1. /\ files = {} /\ ~serving' /\ UNCHANGED <<rows, durable, aside, owed, group>>
        /\ place' = place \cup {"attachments"}
    BY <1>10 DEF RestorePlaceAttachments, RestoreGoes, tableVars, DataInv, RestoreProgress,
       Stopped
  <2> QED BY ONLY <1>s, <2>1
<1>11. CASE Backup
  <2>1. UNCHANGED <<vars, restoreVars>>
    BY ONLY <1>11, BackupGoing DEF BackupGoes
  <2> QED BY ONLY <1>1, <2>1 DEF vars, restoreVars
<1>12. CASE RestoreCommit \/ RestoreCutOff \/ UNCHANGED allVars
  <2>1. UNCHANGED <<vars, place, group, aside, owed>>
    BY ONLY <1>12 DEF RestoreCommit, RestoreCutOff, allVars, restoreVars
  <2> QED BY ONLY <1>1, <2>1 DEF vars
<1> HIDE DEF OwedSafe
<1>13. CASE Restore
  BY ONLY <1>6, <1>7, <1>8, <1>9, <1>10, <1>12, <1>13 DEF Restore
<1> QED
  BY ONLY <1>2, <1>3, <1>4, <1>5, <1>11, <1>12, <1>13, [DataNext]_allVars DEF DataNext

\* The upload handler of a, as far as the tables go: it adds a row for the
\* original once that is synced, and names the thumbnail once that is.
UploadNames(a) ==
  /\ durable' = durable
  /\ \A f \in FileName : Names(rows, f) => Names(rows', f)
  /\ \A f \in FileName : Names(rows', f) =>
       \/ Names(rows, f)
       \/ f = Original(a) /\ up[a] = "synced" /\ UNCHANGED dirVars
       \/ f = Thumbnail(a) /\ up[a] = "thumbSynced" /\ UNCHANGED dirVars
  /\ \A b \in AttachmentId : rows'[b].state = "tombstone" => rows[b].state = "tombstone"
  /\ \A b \in AttachmentId : b # a => rows'[b] = rows[b]
  /\ \/ rows' = rows
     \/ up[a] = "synced" /\ ~rows'[a].thumbnail
     \/ up[a] = "thumbSynced" /\ up'[a] = "done"

\* The upload handler's transactions do no more than UploadNames allows.
LEMMA UploadRows ==
  ASSUME DataInv, NEW a \in AttachmentId, attachmentUploadHandler(a)
  PROVE  UploadNames(a) /\ rows' \in Table
<1>0. rows \in Table /\ RowsRecorded /\ up \in [AttachmentId -> Stage]
  BY DEF DataInv, DataType, TypeOK, Table, Row, Stage
<1>1. CASE UNCHANGED tableVars
  BY ONLY <1>0, <1>1 DEF tableVars, UploadNames
<1>2. CASE UploadRecord(a)
  <2>1. /\ rows' = [rows EXCEPT ![a] = [state |-> "live", thumbnail |-> FALSE]]
        /\ durable' = durable /\ up[a] = "synced" /\ UNCHANGED dirVars
    BY ONLY <1>2 DEF UploadRecord, Create, CreateAttachment, UploadGoes
  <2>2. rows[a].state = "none"
    BY ONLY <1>0, <2>1, a \in AttachmentId DEF RowsRecorded, NoRowYet, NoRow
  <2>3. /\ rows'[a].state = "live" /\ ~rows'[a].thumbnail
        /\ \A b \in AttachmentId : b # a => rows'[b] = rows[b]
        /\ rows' \in Table
    BY ONLY <1>0, <2>1, RowPut, a \in AttachmentId DEF Table, Row
  <2>4. ASSUME NEW f \in FileName
        PROVE  /\ Names(rows, f) => Names(rows', f)
               /\ Names(rows', f) => Names(rows, f) \/ f = Original(a)
    <3>1. f = Original(a) \/ f = Thumbnail(a) \/ (Names(rows', f) <=> Names(rows, f))
      BY <2>3, NamesElsewhere
    <3>2. /\ Names(rows', Original(a)) /\ ~Names(rows', Thumbnail(a))
          /\ ~Names(rows, Thumbnail(a))
      BY ONLY <2>2, <2>3, NamesAt, a \in AttachmentId DEF Live
    <3> QED BY ONLY <3>1, <3>2
  <2>5. \A b \in AttachmentId : rows'[b].state = "tombstone" => rows[b].state = "tombstone"
    BY ONLY <2>3
  <2> QED BY ONLY <2>1, <2>3, <2>4, <2>5, Zenon DEF UploadNames
<1>3. CASE ThumbnailRecord(a)
  <2>1. /\ rows' = [rows EXCEPT ![a].thumbnail = TRUE] /\ rows[a].state = "live"
        /\ durable' = durable /\ up[a] = "thumbSynced" /\ UNCHANGED dirVars
        /\ up' = [up EXCEPT ![a] = "done"]
    BY ONLY <1>3 DEF ThumbnailRecord, SetThumbnailPath, SetAttachmentThumbnailPath, Live,
       UploadGoes
  <2>2. rows' \in Table
    BY ONLY <1>0, <2>1, RowPut, a \in AttachmentId, Zenon
  <2>3. /\ rows'[a].state = "live" /\ rows'[a].thumbnail
        /\ \A b \in AttachmentId : b # a => rows'[b] = rows[b]
        /\ up'[a] = "done"
    BY ONLY <1>0, <2>1, a \in AttachmentId DEF Table, Row
  <2>4. ASSUME NEW f \in FileName
        PROVE  /\ Names(rows, f) => Names(rows', f)
               /\ Names(rows', f) => Names(rows, f) \/ f = Thumbnail(a)
    <3>1. f = Original(a) \/ f = Thumbnail(a) \/ (Names(rows', f) <=> Names(rows, f))
      BY <2>3, NamesElsewhere
    <3>2. /\ Names(rows', Original(a)) /\ Names(rows', Thumbnail(a))
          /\ Names(rows, Original(a))
      BY ONLY <2>1, <2>3, NamesAt, a \in AttachmentId, Zenon DEF Live
    <3> QED BY ONLY <3>1, <3>2
  <2>5. \A b \in AttachmentId : rows'[b].state = "tombstone" => rows[b].state = "tombstone"
    BY ONLY <2>3
  <2> QED BY ONLY <2>1, <2>2, <2>3, <2>4, <2>5, Zenon DEF UploadNames
<1> QED BY <1>1, <1>2, <1>3, UploadDirs DEF UploadMoves

\* The files it removes are named by no row.
LEMMA UploadFiles ==
  ASSUME DataInv, NEW a \in AttachmentId, attachmentUploadHandler(a)
  PROVE  \A f \in FileName : /\ Names(rows, f) /\ f \in files \cap onDisk
                             => f \in files' \cap onDisk'
<1>0. RowsRecorded /\ ThumbnailsRecorded
  BY DEF DataInv
<1>1. \/ files \subseteq files' /\ files \cap onDisk \subseteq onDisk'
      \/ up[a] = "synced" /\ Remove(Original(a))
      \/ up[a] \in {"thumbRenamed", "thumbSynced"} /\ Remove(Thumbnail(a))
  <2>1. UploadMoves(a)
    BY UploadDirs
  <2> QED BY ONLY <2>1 DEF UploadMoves, dirVars, RenameInto, fsyncDir
<1>2. CASE up[a] = "synced" /\ Remove(Original(a))
  <2>1. ~Names(rows, Original(a)) /\ files' = files \ {Original(a)} /\ onDisk' = onDisk
    BY ONLY <1>0, <1>2, NamesAt, a \in AttachmentId DEF Remove, RowsRecorded, NoRowYet, Live, NoRow
  <2> QED BY ONLY <2>1
<1>3. CASE up[a] \in {"thumbRenamed", "thumbSynced"} /\ Remove(Thumbnail(a))
  <2>1. ~Names(rows, Thumbnail(a)) /\ files' = files \ {Thumbnail(a)} /\ onDisk' = onDisk
    BY ONLY <1>0, <1>3, NamesAt, a \in AttachmentId DEF Remove, ThumbnailsRecorded
  <2> QED BY ONLY <2>1
<1> QED BY ONLY <1>1, <1>2, <1>3

\* Every step of the upload handler keeps the invariant.
LEMMA UploadStep ==
  ASSUME DataInv, NEW a \in AttachmentId, attachmentUploadHandler(a),
         UNCHANGED <<backupVars, restoreVars>>
  PROVE  DataInv'
<1>0. UploadNames(a) /\ rows' \in Table
  BY UploadRows
<1>0a. UploadMoves(a)
  BY UploadDirs
<1>0b. UNCHANGED <<backup, archives, published, restore, restores, place, group,
                   aside, owed, torn>>
  BY DEF backupVars, restoreVars
<1>0c. /\ files \subseteq FileName /\ onDisk \subseteq FileName /\ aged \subseteq files
       /\ up \in [AttachmentId -> Stage]
  BY DEF DataInv, DataType, TypeOK, Stage
<1>1. DataType'
  <2>2. files' \subseteq FileName /\ onDisk' \subseteq FileName /\ aged' \subseteq files'
    BY ONLY <1>0a, <1>0c, FileNames, a \in AttachmentId DEF UploadMoves, RenameInto, Remove, fsyncDir, dirVars
  <2>3. UNCHANGED <<durable, del, reclaim, serving, userDeleted>>
    BY ONLY <1>0, <1>0a DEF UploadNames, UploadMoves
  <2>4. DataType
    BY DEF DataInv
  <2>5. TypeOK'
    BY ONLY <1>0, <1>0a, <2>2, <2>3, <2>4 DEF UploadMoves, DataType, TypeOK, Table, Row, Stage
  <2> QED BY ONLY <1>0b, <2>3, <2>4, <2>5 DEF DataType
<1>2. Stopped'
  <2>1. Stopped
    BY DEF DataInv
  <2> QED BY ONLY <1>0a, <1>0b, <2>1 DEF Stopped, UploadMoves
<1>3. RowsRecorded'
  <2>1. RowsRecorded
    BY DEF DataInv
  <2>2. ASSUME NEW b \in AttachmentId, NoRowYet(b)'
        PROVE  NoRowYet(b) /\ rows'[b] = rows[b]
    BY ONLY <1>0, <1>0a, <2>2, a \in AttachmentId DEF UploadNames, UploadMoves, NoRowYet
  <2>3. durable' = durable
    BY ONLY <1>0 DEF UploadNames
  <2> QED BY ONLY <1>0b, <2>1, <2>2, <2>3 DEF RowsRecorded
<1>4. ThumbnailsRecorded'
  <2>1. RowsRecorded /\ ThumbnailsRecorded
    BY DEF DataInv
  <2>2. ASSUME NEW b \in AttachmentId, up'[b] \in {"recorded", "thumbRenamed", "thumbSynced"}
        PROVE  ~rows'[b].thumbnail /\ ~durable[b].thumbnail /\ ~backup.table[b].thumbnail
    <3>1. CASE b # a
      BY ONLY <1>0, <1>0a, <2>1, <2>2, <3>1 DEF UploadNames, UploadMoves, ThumbnailsRecorded
    <3>2. CASE b = a /\ up'[a] = "recorded"
      <4>1. up[a] = "synced"
        BY ONLY <1>0a, <3>2 DEF UploadMoves
      <4>2. rows[a] = NoRow /\ durable[a] = NoRow /\ backup.table[a] = NoRow
        BY ONLY <2>1, <4>1, a \in AttachmentId DEF RowsRecorded, NoRowYet
      <4>3. rows' = rows \/ ~rows'[a].thumbnail
        BY ONLY <1>0, <4>1 DEF UploadNames
      <4> QED BY ONLY <3>2, <4>2, <4>3, NoBackupFacts
    <3>3. CASE b = a /\ up'[a] # "recorded"
      <4>1. up[a] \in {"recorded", "thumbRenamed"}
        BY ONLY <1>0a, <2>2, <3>3 DEF UploadMoves
      <4> QED BY ONLY <1>0, <2>1, <2>2, <3>3, <4>1 DEF UploadNames, ThumbnailsRecorded
    <3> QED BY ONLY <3>1, <3>2, <3>3
  <2> QED BY ONLY <1>0, <1>0b, <2>2 DEF UploadNames, ThumbnailsRecorded
<1>5. FilesRenamed'
  <2>1. FilesRenamed
    BY DEF DataInv
  <2>2. ASSUME NEW f \in FileName, NoFileYet(f[1])'
        PROVE  NoFileYet(f[1]) /\ f \notin files' /\ f \notin onDisk'
    BY ONLY <1>0a, <2>1, <2>2, FileNames, a \in AttachmentId
       DEF UploadMoves, FilesRenamed, NoFileYet, RenameInto, Remove, fsyncDir, dirVars
  <2> QED BY ONLY <1>0b, <2>1, <2>2 DEF FilesRenamed
<1>6. AgedEnded'
  <2>1. AgedEnded
    BY DEF DataInv
  <2>2. ASSUME NEW f \in aged' PROVE f[1] # a /\ f[1] \in AttachmentId /\ f \in aged
    BY ONLY <1>0a, <1>0c, <2>1, <2>2, FileNames DEF UploadMoves, AgedEnded
  <2> QED BY ONLY <1>0a, <2>1, <2>2 DEF UploadMoves, AgedEnded
<1>7. UploadsKept'
  <2>1. UploadsKept
    BY DEF DataInv
  <2>2. \A b \in AttachmentId : b # a =>
           /\ Original(b) \in files => Original(b) \in files'
           /\ Thumbnail(b) \in files => Thumbnail(b) \in files'
           /\ Original(b) \in files \cap onDisk => Original(b) \in onDisk'
           /\ Thumbnail(b) \in files \cap onDisk => Thumbnail(b) \in onDisk'
    BY ONLY <1>0a, FileNames, a \in AttachmentId
       DEF UploadMoves, RenameInto, Remove, fsyncDir, dirVars
  <2>3. /\ up'[a] = "renamed" => Original(a) \in files'
        /\ up'[a] = "thumbRenamed" => Thumbnail(a) \in files'
    BY ONLY <1>0a DEF UploadMoves, RenameInto
  <2>4. a \notin userDeleted =>
          /\ up'[a] = "synced" => Original(a) \in files' \cap onDisk'
          /\ up'[a] = "thumbSynced" => Thumbnail(a) \in files' \cap onDisk'
    BY ONLY <1>0a, <2>1, a \in AttachmentId DEF UploadMoves, UploadsKept, fsyncDir
  <2>5. userDeleted' = userDeleted /\ \A b \in AttachmentId : b # a => up'[b] = up[b]
    BY ONLY <1>0a DEF UploadMoves
  <2> QED BY ONLY <2>1, <2>2, <2>3, <2>4, <2>5 DEF UploadsKept
<1>8. DeletesCommitted'
  <2>1. DeletesCommitted
    BY DEF DataInv
  <2> QED BY ONLY <1>0a, <2>1 DEF UploadMoves, DeletesCommitted
<1>9. PassSpares'
  <2>1. aged' \subseteq aged /\ UNCHANGED <<reclaim, userDeleted>>
    BY ONLY <1>0a DEF UploadMoves
  <2>2. AgedEnded /\ PassSpares
    BY DEF DataInv
  <2>3. ASSUME NEW f \in aged', Names(rows', f) PROVE Names(rows, f)
    <3>1. f \in FileName /\ up[f[1]] \in {"done", "ended"}
      BY ONLY <1>0c, <2>1, <2>2, <2>3 DEF AgedEnded
    <3> QED BY ONLY <1>0, <2>3, <3>1, FileNames, a \in AttachmentId DEF UploadNames
  <2> QED BY ONLY <2>1, <2>2, <2>3 DEF PassSpares, PassReferences
<1>10. WholeUntilMoved'
  <2>1. SUFFICES ASSUME Whole PROVE Whole'
    BY <1>0b DEF DataInv, WholeUntilMoved
  <2>2. ASSUME NEW f \in FileName, Names(rows', f), f[1] \notin userDeleted
        PROVE  f \in files' \cap onDisk'
    <3>1. CASE Names(rows, f)
      BY <2>1, <2>2, <3>1, UploadFiles DEF Whole, Backed
    <3>2. CASE ~Names(rows, f)
      <4>1. UploadsKept
        BY DEF DataInv
      <4> QED BY ONLY <1>0, <2>2, <3>2, <4>1, FileNames, a \in AttachmentId
                 DEF UploadNames, UploadsKept, dirVars
    <3> QED BY <3>1, <3>2
  <2>3. UNCHANGED <<userDeleted, place>>
    BY ONLY <1>0a, <1>0b DEF UploadMoves
  <2> QED BY ONLY <1>0, <2>1, <2>2, <2>3 DEF Whole, Backed, UploadNames
<1>11. BackupGathers'
  <2>1. BackupGathers
    BY DEF DataInv
  <2> QED BY ONLY <1>0, <1>0a, <1>0b, <2>1 DEF BackupGathers, UploadNames, UploadMoves
<1>12. ArchivesWhole'
  <2>1. ArchivesWhole
    BY DEF DataInv
  <2> QED BY ONLY <1>0b, <2>1 DEF ArchivesWhole
<1>13. RestoreProgress'
  <2>1. Stopped
    BY DEF DataInv
  <2> QED BY ONLY <1>0a, <1>0b, <2>1 DEF Stopped, RestoreProgress, UploadMoves
<1> QED
  BY ONLY <1>1, <1>2, <1>3, <1>4, <1>5, <1>6, <1>7, <1>8, <1>9, <1>10, <1>11, <1>12, <1>13
     DEF DataInv

-----------------------------------------------------------------------------
(***************************************************************************)
(* Deletes and the reclaim pass take rows and files away.  With a whole    *)
(* data directory they take only what users deleted, or files nothing      *)
(* names that are old.                                                     *)
(***************************************************************************)
Spared(f) == f[1] \notin userDeleted'

Shrinks ==
  /\ UNCHANGED <<durable, up, serving, onDisk>> /\ serving
  /\ userDeleted \subseteq userDeleted' /\ userDeleted' \subseteq AttachmentId
  /\ rows' \in Table
  /\ \A f \in FileName : Names(rows', f) => Names(rows, f)
  /\ \A b \in AttachmentId : /\ rows[b] = NoRow => rows'[b] = NoRow
                             /\ rows'[b].thumbnail => rows[b].thumbnail
  /\ files' \subseteq files /\ aged' = aged \cap files'
  /\ \A f \in files \ files' : Spared(f) => ~Names(rows, f) /\ f \in aged
  /\ torn \/ \A f \in FileName : Names(rows, f) /\ Spared(f) => Names(rows', f)
  /\ torn \/ \A b \in AttachmentId :
       rows'[b].state = "tombstone" => rows[b].state = "tombstone" \/ b \in userDeleted'

\* A step that shrinks the data in this way keeps the invariant.
LEMMA ShrinkStep ==
  ASSUME DataInv, Shrinks, UNCHANGED <<backupVars, restoreVars>>,
         del' \in [AttachmentId -> DelRow],
         reclaim' \in [pc : {"idle", "listed", "files", "rows"},
                       live : SUBSET AttachmentId, thumbnails : SUBSET AttachmentId,
                       todo : SUBSET (FileName \cup AttachmentId)],
         reclaim'.thumbnails \subseteq reclaim'.live,
         DeletesCommitted', PassSpares'
  PROVE  DataInv'
<1>a. /\ UNCHANGED <<durable, up, serving, onDisk, backup, archives, published, restore,
                     restores, place, group, aside, owed, torn>>
      /\ serving
      /\ userDeleted \subseteq userDeleted' /\ userDeleted' \subseteq AttachmentId
  BY DEF Shrinks, backupVars, restoreVars
<1>b. /\ rows' \in Table
      /\ \A f \in FileName : Names(rows', f) => Names(rows, f)
      /\ \A b \in AttachmentId : /\ rows[b] = NoRow => rows'[b] = NoRow
                                 /\ rows'[b].thumbnail => rows[b].thumbnail
  BY DEF Shrinks
<1>c. /\ files' \subseteq files /\ aged' = aged \cap files'
      /\ \A f \in files \ files' : f[1] \notin userDeleted' => ~Names(rows, f) /\ f \in aged
  BY DEF Shrinks, Spared
<1>d. /\ torn \/ \A f \in FileName :
                   Names(rows, f) /\ f[1] \notin userDeleted' => Names(rows', f)
      /\ torn \/ \A b \in AttachmentId :
                   rows'[b].state = "tombstone" => rows[b].state = "tombstone" \/ b \in userDeleted'
  BY DEF Shrinks, Spared
<1>e. /\ DataType /\ Stopped /\ RowsRecorded /\ ThumbnailsRecorded /\ FilesRenamed
      /\ AgedEnded /\ UploadsKept
  BY DEF DataInv
<1>f. WholeUntilMoved /\ BackupGathers /\ ArchivesWhole
  BY DEF DataInv
<1>1. DataType'
  <2>1. files' \subseteq FileName /\ onDisk' \subseteq FileName /\ aged' \subseteq files'
    BY ONLY <1>a, <1>c, <1>e DEF DataType, TypeOK
  <2>2. TypeOK'
    BY <1>a, <1>b, <1>e, <2>1 DEF DataType, TypeOK, Table, Row, DelRow
  <2> QED BY <1>a, <1>e, <2>2 DEF DataType
<1>2. Stopped'
  BY ONLY <1>a, <1>e DEF Stopped
<1>3. RowsRecorded'
  BY ONLY <1>a, <1>b, <1>e DEF RowsRecorded, NoRowYet
<1>4. ThumbnailsRecorded'
  BY ONLY <1>a, <1>b, <1>e DEF ThumbnailsRecorded
<1>5. FilesRenamed'
  BY ONLY <1>a, <1>c, <1>e DEF FilesRenamed, NoFileYet
<1>6. AgedEnded'
  BY ONLY <1>a, <1>c, <1>e DEF AgedEnded
<1>7. UploadsKept'
  BY ONLY <1>a, <1>c, <1>e, FileNames DEF UploadsKept, AgedEnded
<1>8. WholeUntilMoved'
  <2>1. SUFFICES ASSUME Whole, ~torn PROVE Whole'
    BY <1>a, <1>f DEF WholeUntilMoved
  <2>2. ASSUME NEW f \in FileName, Names(rows', f), f[1] \notin userDeleted'
        PROVE  f \in files' \cap onDisk'
    BY ONLY <1>a, <1>b, <1>c, <2>1, <2>2 DEF Whole, Backed
  <2>3. ASSUME NEW b \in AttachmentId, rows'[b].state = "tombstone"
        PROVE  b \in userDeleted'
    BY ONLY <1>a, <1>d, <2>1, <2>3 DEF Whole, Backed
  <2>4. ASSUME NEW f \in FileName, Names(durable', f), f[1] \notin userDeleted'
        PROVE  Names(rows', f)
    BY ONLY <1>a, <1>d, <2>1, <2>4 DEF Whole
  <2>5. \A b \in AttachmentId : durable'[b].state = "tombstone" => b \in userDeleted'
    BY ONLY <1>a, <2>1 DEF Whole
  <2> QED BY ONLY <1>a, <2>1, <2>2, <2>3, <2>4, <2>5 DEF Whole, Backed
<1>9. BackupGathers'
  BY ONLY <1>a, <1>d, <1>f DEF BackupGathers
<1>10. ArchivesWhole'
  BY ONLY <1>a, <1>f DEF ArchivesWhole
<1>11. RestoreProgress'
  BY ONLY <1>a, <1>e DEF Stopped, RestoreProgress
<1> QED
  BY <1>1, <1>2, <1>3, <1>4, <1>5, <1>6, <1>7, <1>8, <1>9, <1>10, <1>11 DEF DataInv

\* One row turned into a tombstone, or without its thumbnail.
Taken(t, u, a) ==
  /\ Live(t, a)
  /\ u = [t EXCEPT ![a].state = "tombstone"] \/ u = [t EXCEPT ![a].thumbnail = FALSE]

\* Nothing but the names of that row's files goes.
LEMMA RowTaken ==
  ASSUME NEW t \in Table, NEW a \in AttachmentId, NEW u, Taken(t, u, a)
  PROVE  /\ u \in Table
         /\ \A f \in FileName : Names(u, f) => Names(t, f)
         /\ \A f \in FileName : Names(t, f) /\ f[1] # a => Names(u, f)
         /\ \A b \in AttachmentId : /\ t[b] = NoRow => u[b] = NoRow
                                    /\ u[b].thumbnail => t[b].thumbnail
                                    /\ b # a => u[b] = t[b]
<1> USE DEF Taken
<1>1. u \in Table
  BY RowPut, Zenon
<1>2. /\ \A b \in AttachmentId : b # a => u[b] = t[b]
      /\ u[a].thumbnail => t[a].thumbnail
      /\ t[a] # NoRow
  BY DEF Table, Row, Live, NoRow
<1>3. ASSUME NEW f \in FileName
      PROVE  (Names(u, f) => Names(t, f)) /\ (Names(t, f) /\ f[1] # a => Names(u, f))
  <2>1. f = Original(a) \/ f = Thumbnail(a) \/ (Names(u, f) <=> Names(t, f))
    BY <1>2, NamesElsewhere
  <2>2. CASE f = Original(a)
    BY <2>2, NamesAt, FileNames
  <2>3. CASE f = Thumbnail(a)
    BY <1>2, <2>3, NamesAt, FileNames
  <2> QED BY <2>1, <2>2, <2>3
<1> QED BY <1>1, <1>2, <1>3

\* Every step of the delete handler keeps the invariant.
LEMMA DeleteStep ==
  ASSUME DataInv, NEW a \in AttachmentId, attachmentDeleteHandler(a),
         UNCHANGED <<backupVars, restoreVars>>
  PROVE  DataInv'
<1>0. /\ rows \in Table /\ del \in [AttachmentId -> DelRow] /\ userDeleted \subseteq AttachmentId
      /\ aged \subseteq files /\ files \subseteq FileName
  BY DEF DataInv, DataType, TypeOK, Table, Row, DelRow
<1>0a. DeletesCommitted /\ PassSpares
  BY DEF DataInv
<1>1. serving /\ UNCHANGED <<up, reclaim, serving>> /\ userDeleted \subseteq userDeleted'
  BY DEF attachmentDeleteHandler, DeleteRead, DeleteTombstone, DeleteNotFound,
     DeleteOriginal, DeleteThumbnail, DeleteGoes
<1>2. PICK d \in DelRow :
        /\ del' = [del EXCEPT ![a] = d]
        /\ d.pc \in {"tombstoned", "unlinked"} => a \in userDeleted'
  <2>0. del[a] \in DelRow /\ rows[a].thumbnail \in BOOLEAN
    BY <1>0 DEF Table, Row
  <2>1. NoDelete \in DelRow /\ NoDelete.pc = "idle"
    BY DEF NoDelete, DelRow
  <2>2. CASE DeleteRead(a)
    <3> DEFINE d == [pc |-> "read", thumbnail |-> rows[a].thumbnail]
    <3>1. d \in DelRow /\ d.pc = "read"
      BY ONLY <2>0 DEF DelRow
    <3>2. del' = [del EXCEPT ![a] = d]
      BY ONLY <2>2 DEF DeleteRead, DeleteGoes
    <3> QED BY ONLY <3>1, <3>2, Zenon
  <2>3. CASE DeleteTombstone(a)
    <3> DEFINE d == [del[a] EXCEPT !.pc = "tombstoned"]
    <3>1. d \in DelRow
      BY ONLY <2>0 DEF DelRow
    <3>2. del' = [del EXCEPT ![a] = d] /\ a \in userDeleted'
      BY ONLY <2>3 DEF DeleteTombstone, DeleteGoes
    <3> QED BY ONLY <3>1, <3>2, Zenon
  <2>4. CASE DeleteNotFound(a) \/ DeleteThumbnail(a)
    BY ONLY <2>1, <2>4 DEF DeleteNotFound, DeleteThumbnail, DeleteGoes
  <2>5. CASE DeleteOriginal(a)
    <3> DEFINE d == [del[a] EXCEPT !.pc = "unlinked"]
    <3>1. d \in DelRow
      BY ONLY <2>0 DEF DelRow
    <3>2. del' = [del EXCEPT ![a] = d] \/ del' = [del EXCEPT ![a] = NoDelete]
      BY ONLY <2>5, Zenon DEF DeleteOriginal, DeleteGoes
    <3>3. a \in userDeleted'
      BY <1>0a, <1>1, <2>5 DEF DeleteOriginal, DeleteGoes, DeletesCommitted
    <3> QED BY ONLY <2>1, <3>1, <3>2, <3>3
  <2> QED BY <2>2, <2>3, <2>4, <2>5 DEF attachmentDeleteHandler
<1>2a. del' \in [AttachmentId -> DelRow] /\ DeletesCommitted'
  BY ONLY <1>0, <1>0a, <1>1, <1>2, a \in AttachmentId DEF DeletesCommitted
<1>3. Shrinks
  <2>1. CASE UNCHANGED <<tableVars, dirVars, userDeleted>>
    BY ONLY <1>0, <1>1, <2>1 DEF Shrinks, Spared, tableVars, dirVars
  <2>2. CASE DeleteTombstone(a)
    <3>1. /\ Taken(rows, rows', a)
          /\ UNCHANGED <<durable, files, onDisk, aged>>
          /\ userDeleted' = userDeleted \cup {a}
      BY ONLY <2>2 DEF DeleteTombstone, DeleteRow, DeleteAttachment, dirVars, Taken
    <3>2. /\ rows' \in Table
          /\ \A f \in FileName : Names(rows', f) => Names(rows, f)
          /\ \A f \in FileName : Names(rows, f) /\ f[1] # a => Names(rows', f)
          /\ \A b \in AttachmentId : /\ rows[b] = NoRow => rows'[b] = NoRow
                                     /\ rows'[b].thumbnail => rows[b].thumbnail
                                     /\ b # a => rows'[b] = rows[b]
      BY ONLY <1>0, <3>1, RowTaken
    <3> QED BY ONLY <1>0, <1>1, <3>1, <3>2, a \in AttachmentId DEF Shrinks, Spared
  <2>3. ASSUME NEW g \in {Original(a), Thumbnail(a)}, Remove(g), a \in userDeleted,
               UNCHANGED <<tableVars, userDeleted>>
        PROVE  Shrinks
    <3>1. /\ files' = files \ {g} /\ aged' = aged \ {g} /\ onDisk' = onDisk /\ g[1] = a
          /\ UNCHANGED <<rows, durable, userDeleted>>
      BY <2>3, FileNames DEF Remove, tableVars
    <3> QED BY ONLY <1>0, <1>1, <2>3, <3>1 DEF Shrinks, Spared
  <2>4. CASE DeleteOriginal(a) \/ DeleteThumbnail(a)
    <3>1. a \in userDeleted
      BY <1>0a, <2>4 DEF DeleteOriginal, DeleteThumbnail, DeleteGoes, DeletesCommitted
    <3> QED BY ONLY <2>3, <2>4, <3>1 DEF DeleteOriginal, DeleteThumbnail
  <2> QED
    BY <2>1, <2>2, <2>4 DEF attachmentDeleteHandler, DeleteRead, DeleteNotFound
<1>4. PassSpares'
  BY ONLY <1>0, <1>0a, <1>1, <1>3 DEF Shrinks, PassSpares, PassReferences
<1>5. /\ reclaim' \in [pc : {"idle", "listed", "files", "rows"},
                       live : SUBSET AttachmentId, thumbnails : SUBSET AttachmentId,
                       todo : SUBSET (FileName \cup AttachmentId)]
      /\ reclaim'.thumbnails \subseteq reclaim'.live
  BY <1>1 DEF DataInv, DataType, TypeOK
<1> QED BY <1>2a, <1>3, <1>4, <1>5, ShrinkStep

\* A step of the pass that touches neither table nor directory.
LEMMA QuietShrinks ==
  ASSUME DataInv, serving, UNCHANGED <<tableVars, dirVars, up, serving, userDeleted>>
  PROVE  Shrinks
BY DEF DataInv, DataType, TypeOK, Table, Row, Shrinks, tableVars, dirVars

\* The pass removes an old file that no listed row names: none does now.
LEMMA FileShrinks ==
  ASSUME DataInv, NEW f \in FileName, ReclaimFile(f)
  PROVE  Shrinks
<1>0. /\ serving /\ UNCHANGED <<up, serving, userDeleted, rows, durable>>
      /\ f \in reclaim.todo /\ reclaim.pc = "files"
      /\ IF OldEnough(f) THEN Remove(f) ELSE UNCHANGED dirVars
  BY DEF ReclaimFile, PassGoes, tableVars
<1>1. CASE OldEnough(f)
  <2>1. rows \in Table /\ userDeleted \subseteq AttachmentId /\ aged \subseteq files
    BY DEF DataInv, DataType, TypeOK, Table, Row
  <2>2. PassSpares
    BY DEF DataInv
  <2>3. f \in aged /\ (f[1] \notin userDeleted => ~Names(rows, f))
    BY ONLY <1>0, <1>1, <2>2 DEF OldEnough, PassSpares
  <2>4. files' = files \ {f} /\ aged' = aged \ {f} /\ onDisk' = onDisk
    BY ONLY <1>0, <1>1 DEF Remove
  <2> QED BY ONLY <1>0, <2>1, <2>3, <2>4 DEF Shrinks, Spared
<1>2. CASE ~OldEnough(f)
  BY <1>0, <1>2, QuietShrinks DEF tableVars
<1> QED BY <1>1, <1>2

\* The pass takes a row, or its thumbnail column, whose file is gone: with a
\* whole data directory a user has deleted that attachment.
LEMMA RowShrinks ==
  ASSUME DataInv, NEW a \in AttachmentId, ReclaimRow(a)
  PROVE  Shrinks
<1>0. serving /\ UNCHANGED <<up, serving, dirVars, userDeleted>>
  BY DEF ReclaimRow, PassGoes
<1>1. CASE UNCHANGED tableVars
  BY <1>0, <1>1, QuietShrinks
<1>2. CASE ~UNCHANGED tableVars
  <2>1. rows \in Table /\ userDeleted \subseteq AttachmentId /\ aged \subseteq files
    BY DEF DataInv, DataType, TypeOK, Table, Row
  <2>2. /\ Taken(rows, rows', a) /\ durable' = durable
        /\ \/ Original(a) \notin files
           \/ /\ Thumbnail(a) \notin files
              /\ rows' = [rows EXCEPT ![a].thumbnail = FALSE]
    BY ONLY <1>2, ReclaimRow(a), Zenon DEF ReclaimRow, DeleteRow, ClearThumbnailPath,
       DeleteAttachment, ClearAttachmentThumbnailPath, Taken
  <2>3. /\ rows' \in Table
        /\ \A f \in FileName : Names(rows', f) => Names(rows, f)
        /\ \A f \in FileName : Names(rows, f) /\ f[1] # a => Names(rows', f)
        /\ \A b \in AttachmentId : /\ rows[b] = NoRow => rows'[b] = NoRow
                                   /\ rows'[b].thumbnail => rows[b].thumbnail
                                   /\ b # a => rows'[b] = rows[b]
    BY ONLY <2>1, <2>2, RowTaken
  <2>4. ASSUME ~torn, a \notin userDeleted
        PROVE  /\ rows'[a].state # "tombstone"
               /\ \A f \in FileName : Names(rows, f) /\ f[1] = a => Names(rows', f)
    <3>0. Whole
      BY <1>0, <2>4 DEF DataInv, WholeUntilMoved, Stopped
    <3>1. Original(a) \in files
      <4>1. Names(rows, Original(a))
        BY <2>2, NamesAt DEF Taken
      <4> QED BY ONLY <2>4, <3>0, <4>1, FileNames, a \in AttachmentId DEF Whole, Backed
    <3>2. /\ rows' = [rows EXCEPT ![a].thumbnail = FALSE] /\ rows[a].state = "live"
          /\ Thumbnail(a) \notin files
      BY ONLY <2>2, <3>1 DEF Taken, Live
    <3>3. ~Names(rows, Thumbnail(a))
      BY ONLY <2>4, <3>0, <3>2, FileNames, a \in AttachmentId DEF Whole, Backed
    <3>4. rows'[a].state = "live"
      BY ONLY <2>1, <3>2, a \in AttachmentId DEF Table, Row
    <3>5. Names(rows', Original(a))
      BY <3>4, NamesAt DEF Live
    <3> QED BY <3>3, <3>4, <3>5, FileNames
  <2> QED BY ONLY <1>0, <2>1, <2>2, <2>3, <2>4 DEF Shrinks, Spared, dirVars
<1> QED BY <1>1, <1>2

\* Every step of the reclaim pass keeps the invariant.
LEMMA ReclaimStep ==
  ASSUME DataInv, Reclaim, UNCHANGED <<backupVars, restoreVars>>
  PROVE  DataInv'
<1> DEFINE Pass == [pc : {"idle", "listed", "files", "rows"},
                    live : SUBSET AttachmentId, thumbnails : SUBSET AttachmentId,
                    todo : SUBSET (FileName \cup AttachmentId)]
<1>0. /\ reclaim \in Pass /\ reclaim.thumbnails \subseteq reclaim.live
      /\ rows \in Table /\ files \subseteq FileName /\ aged \subseteq files
      /\ del \in [AttachmentId -> DelRow]
  BY DEF DataInv, DataType, TypeOK, Table, Row, DelRow
<1>0a. DeletesCommitted /\ PassSpares
  BY DEF DataInv
<1>1. ASSUME Shrinks, UNCHANGED <<del, userDeleted>>, reclaim' \in Pass,
             reclaim'.thumbnails \subseteq reclaim'.live, PassSpares'
      PROVE  DataInv'
  <2>1. del' \in [AttachmentId -> DelRow] /\ DeletesCommitted'
    BY ONLY <1>0, <1>0a, <1>1 DEF DeletesCommitted
  <2> QED BY <1>1, <2>1, ShrinkStep
<1>2. CASE ReclaimList
  <2>1. Shrinks /\ UNCHANGED <<del, userDeleted, rows, aged>>
    BY <1>2, QuietShrinks DEF ReclaimList, PassGoes, tableVars, dirVars
  <2>2. reclaim' = [pc |-> "listed", live |-> LiveRows(rows),
                    thumbnails |-> WithThumbnail(rows), todo |-> {}]
    BY <1>2 DEF ReclaimList, PassGoes
  <2>3. reclaim' \in Pass /\ reclaim'.thumbnails \subseteq reclaim'.live
    BY ONLY <2>2 DEF LiveRows, WithThumbnail
  <2>4. PassReferences' = Referenced(rows)
    BY ONLY <2>2 DEF PassReferences, Referenced
  <2>5. PassSpares'
    BY ONLY <1>0, <2>1, <2>2, <2>4, ReferencedNames DEF PassSpares
  <2> QED BY <1>1, <2>1, <2>3, <2>5
<1>3. CASE ReclaimReadDir
  <2>1. Shrinks /\ UNCHANGED <<del, userDeleted, rows, aged>>
    BY <1>3, QuietShrinks DEF ReclaimReadDir, PassGoes, tableVars, dirVars
  <2>2. /\ reclaim' = [reclaim EXCEPT !.pc = "files", !.todo = files \ PassReferences]
        /\ reclaim.pc = "listed"
    BY <1>3 DEF ReclaimReadDir, PassGoes
  <2>3. reclaim' \in Pass /\ reclaim'.thumbnails \subseteq reclaim'.live
    BY ONLY <1>0, <2>2, Zenon
  <2>4. PassReferences' = PassReferences
    BY ONLY <1>0, <2>2 DEF PassReferences
  <2>5. PassSpares'
    BY ONLY <1>0, <1>0a, <2>1, <2>2, <2>4 DEF PassSpares
  <2> QED BY <1>1, <2>1, <2>3, <2>5
<1>4. ASSUME NEW f \in FileName, ReclaimFile(f) PROVE DataInv'
  <2>1. Shrinks /\ UNCHANGED <<del, userDeleted>>
    BY <1>4, FileShrinks DEF ReclaimFile, PassGoes
  <2>2. reclaim' = [reclaim EXCEPT !.todo = reclaim.todo \ {f}] /\ reclaim.pc = "files"
    BY <1>4 DEF ReclaimFile, PassGoes
  <2>3. reclaim' \in Pass /\ reclaim'.thumbnails \subseteq reclaim'.live
    BY ONLY <1>0, <2>2
  <2>4. PassReferences' = PassReferences
    BY ONLY <1>0, <2>2 DEF PassReferences
  <2>5. PassSpares'
    BY ONLY <1>0, <1>0a, <2>1, <2>2, <2>4 DEF PassSpares, Shrinks
  <2> QED BY <1>1, <2>1, <2>3, <2>5
<1>5. CASE ReclaimFilesDone \/ ReclaimEnd
  <2>1. Shrinks /\ UNCHANGED <<del, userDeleted>>
    BY <1>5, QuietShrinks DEF ReclaimFilesDone, ReclaimEnd, PassGoes
  <2>2. \/ reclaim' = [reclaim EXCEPT !.pc = "rows", !.todo = reclaim.live]
        \/ reclaim' = NoPass
    BY <1>5 DEF ReclaimFilesDone, ReclaimEnd, PassGoes
  <2>3. /\ reclaim' \in Pass /\ reclaim'.thumbnails \subseteq reclaim'.live
        /\ reclaim'.pc \in {"rows", "idle"}
    <3>1. CASE reclaim' = NoPass
      BY <3>1 DEF NoPass
    <3>2. CASE reclaim' = [reclaim EXCEPT !.pc = "rows", !.todo = reclaim.live]
      BY ONLY <1>0, <3>2, Zenon
    <3> QED BY <2>2, <3>1, <3>2
  <2>4. PassSpares'
    BY ONLY <2>3 DEF PassSpares
  <2> QED BY <1>1, <2>1, <2>3, <2>4
<1>6. ASSUME NEW a \in AttachmentId, ReclaimRow(a) PROVE DataInv'
  <2>1. Shrinks /\ UNCHANGED <<del, userDeleted>>
    BY <1>6, RowShrinks, Zenon DEF ReclaimRow, PassGoes
  <2>2. reclaim' = [reclaim EXCEPT !.todo = reclaim.todo \ {a}] /\ reclaim.pc = "rows"
    BY <1>6 DEF ReclaimRow, PassGoes
  <2>3. /\ reclaim' \in Pass /\ reclaim'.thumbnails \subseteq reclaim'.live
        /\ reclaim'.pc = "rows"
    BY ONLY <1>0, <2>2
  <2>4. PassSpares'
    BY ONLY <2>3 DEF PassSpares
  <2> QED BY <1>1, <2>1, <2>3, <2>4
<1> QED BY <1>2, <1>3, <1>4, <1>5, <1>6 DEF Reclaim

-----------------------------------------------------------------------------
(***************************************************************************)
(* Time, crashes and power losses.                                         *)
(***************************************************************************)

\* Files growing old and WAL syncs keep the invariant.
LEMMA TimeStep ==
  ASSUME DataInv, TimePasses
  PROVE  DataInv'
<1>0. /\ DataType /\ Stopped /\ RowsRecorded /\ ThumbnailsRecorded /\ FilesRenamed
      /\ AgedEnded /\ UploadsKept /\ DeletesCommitted /\ PassSpares
  BY DEF DataInv
<1>0a. WholeUntilMoved /\ BackupGathers /\ ArchivesWhole /\ RestoreProgress
  BY DEF DataInv
<1>0b. /\ restore.pc = "idle"
       /\ UNCHANGED <<backup, archives, published, restore, restores, place, group,
                      aside, owed, torn>>
  BY DEF TimePasses, backupVars, restoreVars
<1>1. ASSUME NEW f \in FileName, Age(f) PROVE DataInv'
  <2>0. /\ f \in files /\ up[f[1]] \in {"idle", "done", "ended"} /\ reclaim.pc = "idle"
        /\ aged' = aged \cup {f}
        /\ UNCHANGED <<rows, durable, files, onDisk, up, del, reclaim, serving, userDeleted>>
    BY <1>1 DEF Age, tableVars
  <2>1. DataType'
    BY ONLY <1>0, <1>0b, <2>0 DEF DataType, TypeOK
  <2>2. AgedEnded'
    BY ONLY <1>0, <2>0, FileNames, f \in FileName DEF AgedEnded, FilesRenamed, NoFileYet
  <2>3. PassSpares'
    BY ONLY <2>0 DEF PassSpares
  <2>4. Stopped' /\ RowsRecorded' /\ ThumbnailsRecorded' /\ FilesRenamed'
    BY ONLY <1>0, <1>0b, <2>0
       DEF Stopped, RowsRecorded, NoRowYet, ThumbnailsRecorded, FilesRenamed, NoFileYet
  <2>5. UploadsKept' /\ DeletesCommitted'
    BY ONLY <1>0, <2>0 DEF UploadsKept, DeletesCommitted
  <2>6. WholeUntilMoved' /\ BackupGathers' /\ ArchivesWhole' /\ RestoreProgress'
    BY ONLY <1>0a, <1>0b, <2>0
       DEF WholeUntilMoved, Whole, BackupGathers, ArchivesWhole, RestoreProgress
  <2> QED BY <2>1, <2>2, <2>3, <2>4, <2>5, <2>6 DEF DataInv
<1>2. CASE SyncWal
  <2>0. /\ durable' = rows
        /\ UNCHANGED <<rows, files, onDisk, aged, up, del, reclaim, serving, userDeleted>>
    BY <1>2 DEF SyncWal, dirVars
  <2>1. DataType'
    BY ONLY <1>0, <1>0b, <2>0 DEF DataType, TypeOK
  <2>2. AgedEnded' /\ PassSpares'
    BY ONLY <1>0, <2>0 DEF AgedEnded, PassSpares, PassReferences
  <2>3. Stopped' /\ FilesRenamed'
    BY ONLY <1>0, <1>0b, <2>0 DEF Stopped, FilesRenamed, NoFileYet
  <2>4. RowsRecorded' /\ ThumbnailsRecorded'
    BY ONLY <1>0, <1>0b, <2>0 DEF RowsRecorded, NoRowYet, ThumbnailsRecorded
  <2>5. UploadsKept' /\ DeletesCommitted'
    BY ONLY <1>0, <2>0 DEF UploadsKept, DeletesCommitted
  <2>6. WholeUntilMoved'
    BY ONLY <1>0a, <1>0b, <2>0 DEF WholeUntilMoved, Whole, Backed
  <2>7. BackupGathers' /\ ArchivesWhole' /\ RestoreProgress'
    BY ONLY <1>0a, <1>0b, <2>0 DEF BackupGathers, ArchivesWhole, RestoreProgress
  <2> QED BY <2>1, <2>2, <2>3, <2>4, <2>5, <2>6, <2>7 DEF DataInv
<1> QED BY <1>1, <1>2 DEF TimePasses

\* A crash, or a power loss that falls back to the table and the directory
\* on the disk: what is named has been synced before it was named.
LEMMA StopStep ==
  ASSUME DataInv, ServerStops
  PROVE  DataInv'
<1>0. /\ DataType /\ Stopped /\ RowsRecorded /\ ThumbnailsRecorded /\ FilesRenamed
      /\ AgedEnded /\ WholeUntilMoved /\ ArchivesWhole
  BY DEF DataInv
<1>1. /\ serving /\ ~serving' /\ serving' \in BOOLEAN
      /\ up' = [a \in AttachmentId |->
           IF up[a] \in {"idle", "done"} THEN up[a] ELSE "ended"]
      /\ del' = [a \in AttachmentId |-> NoDelete]
      /\ reclaim' = NoPass /\ backup' = NoBackup
      /\ UNCHANGED <<durable, userDeleted, archives, published, restore, restores, place,
                     group, aside, torn>>
      /\ restore.pc = "idle"
  BY ONLY <1>0, ServerStops, Zenon
     DEF ServerStops, Crash, PowerLoss, ProcessEnds, tableVars, Stopped
<1>2. /\ rows' = rows \/ rows' = durable
      /\ files' \subseteq files \cup onDisk /\ onDisk' \subseteq files \cup onDisk
      /\ files \cap onDisk \subseteq files' \cap onDisk'
      /\ aged' \subseteq aged \cap files'
  BY ONLY <1>0, ServerStops
     DEF ServerStops, Crash, PowerLoss, tableVars, dirVars, DataType, TypeOK
<1>3. owed' = owed \/ owed' = [owed EXCEPT !.attachments = owed.attachments \cap aside.attachments]
  BY DEF ServerStops
<1>4. NoDelete.pc = "idle" /\ NoDelete \in DelRow
  BY DEF NoDelete, DelRow
<1>5. \A a \in AttachmentId : up'[a] \in {"idle", "done", "ended"}
                              /\ (up'[a] = "idle" => up[a] = "idle")
                              /\ (up[a] \in {"done", "ended"} => up'[a] = up[a])
  BY ONLY <1>1
<1>6. DataType'
  <2>1. owed' \in Kept
    BY ONLY <1>0, <1>3 DEF DataType, Kept
  <2>2. up' \in [AttachmentId -> {"idle", "staged", "renamed", "synced", "recorded",
                              "thumbRenamed", "thumbSynced", "done", "ended"}]
    BY ONLY <1>1, <1>5
  <2>3. del' \in [AttachmentId -> DelRow]
    BY ONLY <1>1, <1>4
  <2>4. reclaim' \in [pc : {"idle", "listed", "files", "rows"},
                  live : SUBSET AttachmentId, thumbnails : SUBSET AttachmentId,
                  todo : SUBSET (FileName \cup AttachmentId)]
        /\ reclaim'.thumbnails \subseteq reclaim'.live
    BY ONLY <1>1 DEF NoPass
  <2>5. rows' \in Table
    BY ONLY <1>0, <1>2 DEF DataType, TypeOK, Table, Row
  <2>6. TypeOK'
    BY ONLY <1>0, <1>1, <1>2, <2>2, <2>3, <2>4, <2>5
       DEF DataType, TypeOK, Table, Row, DelRow
  <2>7. backup' \in [pc : {"idle", "snapshot", "walk", "published"}, table : Table,
                 todo : SUBSET FileName, have : SUBSET FileName]
    BY ONLY <1>1, NoBackupFacts
  <2> QED BY ONLY <1>0, <1>1, <2>1, <2>4, <2>6, <2>7 DEF DataType
<1>7. Stopped'
  <2>1. /\ \A a \in AttachmentId : del'[a].pc = "idle"
        /\ reclaim'.pc = "idle" /\ backup' = NoBackup /\ ~serving'
    BY ONLY <1>1, <1>4 DEF NoPass
  <2> QED BY ONLY <1>5, <2>1 DEF Stopped
<1>8. RowsRecorded'
  BY ONLY <1>0, <1>1, <1>2, <1>5, NoBackupFacts DEF RowsRecorded, NoRowYet
<1>9. ThumbnailsRecorded'
  BY ONLY <1>5 DEF ThumbnailsRecorded
<1>10. FilesRenamed'
  BY ONLY <1>0, <1>1, <1>2, <1>5, NoBackupFacts, FileNames DEF FilesRenamed, NoFileYet
<1>11. AgedEnded'
  BY ONLY <1>0, <1>2, <1>5, FileNames DEF AgedEnded, DataType, TypeOK
<1>12. UploadsKept' /\ DeletesCommitted' /\ PassSpares'
  BY ONLY <1>1, <1>4, <1>5 DEF UploadsKept, DeletesCommitted, PassSpares, NoPass
<1>13. WholeUntilMoved'
  <2>1. SUFFICES ASSUME Whole PROVE Whole'
    BY <1>0, <1>1 DEF WholeUntilMoved
  <2>2. \A f \in FileName : Names(rows', f) => Names(rows, f) \/ f[1] \in userDeleted
    BY ONLY <1>2, <2>1 DEF Whole
  <2>3. \A f \in FileName : Names(durable, f) => Names(rows', f) \/ f[1] \in userDeleted
    BY ONLY <1>2, <2>1 DEF Whole
  <2>4. \A a \in AttachmentId : rows'[a].state = "tombstone" => a \in userDeleted
    BY ONLY <1>2, <2>1 DEF Whole, Backed
  <2> QED BY ONLY <1>1, <1>2, <2>1, <2>2, <2>3, <2>4 DEF Whole, Backed
<1>14. BackupGathers'
  BY ONLY <1>1, NoBackupFacts DEF BackupGathers
<1>15. ArchivesWhole' /\ RestoreProgress'
  BY ONLY <1>0, <1>1 DEF ArchivesWhole, RestoreProgress
<1> QED
  BY ONLY <1>6, <1>7, <1>8, <1>9, <1>10, <1>11, <1>12, <1>13, <1>14, <1>15 DEF DataInv

-----------------------------------------------------------------------------
(***************************************************************************)
(* Backups.                                                                *)
(***************************************************************************)

\* What the rest of the invariant needs of a step that only the backup takes.
Gathers ==
  /\ serving /\ UNCHANGED <<vars, restoreVars>>
  /\ backup' \in [pc : {"idle", "snapshot", "walk", "published"}, table : Table,
                  todo : SUBSET FileName, have : SUBSET FileName]
  /\ \A a \in AttachmentId : backup'.table[a] \in {NoRow, rows[a], backup.table[a]}
  /\ backup'.todo \subseteq backup.todo \cup files
  /\ backup'.have \subseteq backup.have \cup files
  /\ BackupGathers'

\* Such a step keeps the invariant if the archives it leaves are complete.
LEMMA GatherStep ==
  ASSUME DataInv, Gathers, archives' \in Seq(Archive), published' \in Nat,
         \A k \in DOMAIN archives' :
           \/ \E j \in DOMAIN archives : archives'[k] = archives[j]
           \/ /\ archives'[k].table = backup.table /\ archives'[k].files = backup.have
              /\ Complete(archives'[k])
  PROVE  DataInv'
<1>0. /\ DataType /\ Stopped /\ RowsRecorded /\ ThumbnailsRecorded /\ FilesRenamed
      /\ AgedEnded /\ UploadsKept /\ DeletesCommitted /\ PassSpares
  BY DEF DataInv
<1>0a. WholeUntilMoved /\ ArchivesWhole /\ RestoreProgress
  BY DEF DataInv
<1>0b. UNCHANGED <<rows, durable, files, onDisk, aged, up, del, reclaim, serving, userDeleted,
                   restore, restores, place, group, aside, owed, torn>>
  BY DEF Gathers, vars, restoreVars
<1>0c. /\ backup' \in [pc : {"idle", "snapshot", "walk", "published"}, table : Table,
                       todo : SUBSET FileName, have : SUBSET FileName]
       /\ \A a \in AttachmentId : backup'.table[a] \in {NoRow, rows[a], backup.table[a]}
       /\ backup'.todo \subseteq backup.todo \cup files
       /\ backup'.have \subseteq backup.have \cup files
       /\ BackupGathers'
  BY DEF Gathers
<1>1. restore.pc = "idle" /\ serving /\ serving' /\ restore' = restore
  BY <1>0, <1>0b DEF Gathers, Stopped
<1>2. DataType'
  <2>1. TypeOK'
    BY ONLY <1>0, <1>0b DEF DataType, TypeOK
  <2> QED BY <1>0, <1>0b, <1>0c, <2>1 DEF DataType
<1>3. Stopped'
  BY ONLY <1>1 DEF Stopped
<1>4. RowsRecorded'
  <2>1. ASSUME NEW a \in AttachmentId, NoRowYet(a)
        PROVE  /\ rows[a] = NoRow /\ durable[a] = NoRow /\ backup'.table[a] = NoRow
               /\ \A k \in DOMAIN archives' : archives'[k].table[a] = NoRow
    <3>1. /\ rows[a] = NoRow /\ durable[a] = NoRow /\ backup.table[a] = NoRow
          /\ \A k \in DOMAIN archives : archives[k].table[a] = NoRow
      BY ONLY <1>0, <2>1 DEF RowsRecorded
    <3>2. backup'.table[a] = NoRow
      BY ONLY <1>0c, <2>1, <3>1
    <3> QED BY <2>1, <3>1, <3>2 DEF Gathers
  <2> QED BY ONLY <1>0b, <1>1, <2>1 DEF RowsRecorded, NoRowYet
<1>5. ThumbnailsRecorded'
  BY ONLY <1>0, <1>0b, <1>0c, NoBackupFacts DEF ThumbnailsRecorded
<1>6. FilesRenamed'
  <2>1. ASSUME NEW f \in FileName, NoFileYet(f[1])
        PROVE  /\ f \notin files /\ f \notin onDisk /\ f \notin backup'.have
               /\ f \notin backup'.todo
               /\ \A k \in DOMAIN archives' : f \notin archives'[k].files
    BY <1>0, <1>0c, <2>1 DEF FilesRenamed
  <2> QED BY ONLY <1>0b, <1>1, <2>1 DEF FilesRenamed, NoFileYet
<1>7. AgedEnded' /\ UploadsKept' /\ DeletesCommitted' /\ PassSpares'
  BY ONLY <1>0, <1>0b DEF AgedEnded, UploadsKept, DeletesCommitted, PassSpares, PassReferences
<1>8. WholeUntilMoved' /\ RestoreProgress'
  BY ONLY <1>0a, <1>0b DEF WholeUntilMoved, Whole, RestoreProgress
<1>9. ArchivesWhole'
  BY <1>0a, <1>1 DEF ArchivesWhole
<1> QED BY <1>0c, <1>2, <1>3, <1>4, <1>5, <1>6, <1>7, <1>8, <1>9 DEF DataInv

\* Every step of a scheduled backup keeps the invariant.
LEMMA BackupStep ==
  ASSUME DataInv, Backup
  PROVE  DataInv'
<1> DEFINE Bk == [pc : {"idle", "snapshot", "walk", "published"}, table : Table,
                  todo : SUBSET FileName, have : SUBSET FileName]
<1>0. /\ backup \in Bk /\ rows \in Table /\ files \subseteq FileName
      /\ archives \in Seq(Archive) /\ published \in Nat
      /\ userDeleted \subseteq AttachmentId /\ torn \in BOOLEAN
  BY DEF DataInv, DataType, TypeOK, Table, Row
<1>1. serving /\ UNCHANGED <<vars, restoreVars>>
  BY BackupGoing DEF BackupGoes
<1>1a. UNCHANGED <<rows, files, userDeleted, torn>>
  BY <1>1 DEF vars, restoreVars
<1>2. torn \/ (Whole /\ \A f \in FileName : Names(rows, f) => f \in files \/ f[1] \in userDeleted)
  BY <1>1 DEF DataInv, Stopped, WholeUntilMoved, Whole, Backed
<1>2a. BackupGathers
  BY DEF DataInv
<1>3. ASSUME UNCHANGED <<archives, published>>, Gathers PROVE DataInv'
  BY <1>0, <1>3, GatherStep
<1>4. CASE BackupSnapshot
  <2>1. backup' = [NoBackup EXCEPT !.pc = "snapshot", !.table = rows]
        /\ UNCHANGED <<archives, published>>
    BY <1>4 DEF BackupSnapshot, BackupGoes
  <2>2. backup' \in Bk /\ backup'.pc = "snapshot" /\ backup'.table = rows
        /\ backup'.todo = {} /\ backup'.have = {}
    BY ONLY <1>0, <2>1, NoBackupFacts, Zenon
  <2>3. BackupGathers'
    BY ONLY <1>1a, <1>2, <2>2 DEF BackupGathers, Whole, Backed
  <2> QED BY <1>1, <1>3, <2>1, <2>2, <2>3 DEF Gathers
<1>5. CASE BackupWalk
  <2>1. backup' = [backup EXCEPT !.pc = "walk", !.todo = files]
        /\ UNCHANGED <<archives, published>>
    BY <1>5 DEF BackupWalk, BackupGoes
  <2>2. backup' \in Bk /\ backup'.pc = "walk" /\ backup'.table = backup.table
        /\ backup'.todo = files /\ backup'.have = backup.have
    BY ONLY <1>0, <2>1, Zenon
  <2>3. BackupGathers'
    BY ONLY <1>1a, <1>2, <1>2a, <2>2 DEF BackupGathers
  <2> QED BY <1>1, <1>3, <2>1, <2>2, <2>3 DEF Gathers
<1>6. ASSUME NEW f \in FileName, BackupEntry(f) PROVE DataInv'
  <2>1. backup' = [backup EXCEPT !.todo = backup.todo \ {f},
                                 !.have = backup.have \cup ({f} \cap files)]
        /\ UNCHANGED <<archives, published>> /\ backup.pc = "walk"
    BY <1>6 DEF BackupEntry, BackupGoes
  <2>2. backup' \in Bk /\ backup'.pc = "walk" /\ backup'.table = backup.table
        /\ backup'.todo = backup.todo \ {f}
        /\ backup'.have = backup.have \cup ({f} \cap files)
    BY ONLY <1>0, <2>1, Zenon
  <2>3. BackupGathers'
    BY ONLY <1>1a, <1>2, <1>2a, <2>1, <2>2 DEF BackupGathers
  <2> QED BY <1>1, <1>3, <2>1, <2>2, <2>3 DEF Gathers
<1>7. CASE BackupFails
  <2>1. backup' = NoBackup /\ UNCHANGED <<archives, published>>
    BY <1>7 DEF BackupFails, BackupGoes
  <2>2. BackupGathers'
    BY ONLY <2>1, NoBackupFacts DEF BackupGathers
  <2> QED BY <1>1, <1>3, <2>1, <2>2, NoBackupFacts DEF Gathers
<1>8. CASE BackupPublish
  <2> DEFINE ar == [number |-> published + 1, table |-> backup.table, files |-> backup.have,
                    deleted |-> userDeleted, torn |-> torn]
  <2>1. /\ backup.pc = "walk" /\ backup.todo = {} /\ published' = published + 1
        /\ backup' = [NoBackup EXCEPT !.pc = "published"]
        /\ archives' = Append(archives, ar)
    BY <1>8 DEF BackupPublish, BackupGoes
  <2>2. backup' \in Bk /\ backup'.pc = "published" /\ backup'.todo = {} /\ backup'.have = {}
        /\ backup'.table = NoBackup.table
    BY ONLY <2>1, NoBackupFacts
  <2>3. BackupGathers'
    BY ONLY <2>2, NoBackupFacts DEF BackupGathers
  <2>4. Gathers
    BY ONLY <1>0, <1>1, <2>2, <2>3, NoBackupFacts DEF Gathers
  <2>5. /\ ar \in Archive /\ ar.table = backup.table /\ ar.files = backup.have
        /\ ar.deleted = userDeleted /\ ar.torn = torn
    BY ONLY <1>0 DEF Archive
  <2>6. Complete(ar)
    BY ONLY <1>2a, <1>2, <2>1, <2>5 DEF Complete, Backed, BackupGathers
  <2> HIDE DEF ar
  <2>7. /\ archives' \in Seq(Archive)
        /\ \A k \in DOMAIN archives' :
             archives'[k] = ar \/ \E j \in DOMAIN archives : archives'[k] = archives[j]
    BY ONLY <1>0, <2>1, <2>5
  <2>8. published' \in Nat
    BY <1>0, <2>1
  <2> QED BY <2>4, <2>5, <2>6, <2>7, <2>8, GatherStep
<1>9. CASE BackupPrune
  <2>1. /\ backup' = NoBackup /\ published' = published
        /\ archives' = IF Len(archives) > Retain
                   THEN SubSeq(archives, Len(archives) - Retain + 1, Len(archives))
                   ELSE archives
    BY <1>9 DEF BackupPrune, BackupGoes
  <2>2. BackupGathers'
    BY ONLY <2>1, NoBackupFacts DEF BackupGathers
  <2>3. Gathers
    BY ONLY <1>0, <1>1, <2>1, <2>2, NoBackupFacts DEF Gathers
  <2>4. /\ archives' \in Seq(Archive)
        /\ \A k \in DOMAIN archives' : \E j \in DOMAIN archives : archives'[k] = archives[j]
    BY ONLY <1>0, <2>1, BoundsAssumption
  <2> QED BY <1>0, <2>1, <2>3, <2>4, GatherStep
<1> QED BY <1>4, <1>5, <1>6, <1>7, <1>8, <1>9 DEF Backup

-----------------------------------------------------------------------------
(***************************************************************************)
(* Restores and the start of the server.  No request, pass or backup is    *)
(* under way, so only the data itself matters.                             *)
(***************************************************************************)
Replaces ==
  /\ ~serving /\ UNCHANGED <<up, del, reclaim, backupVars>>
  /\ serving' \in BOOLEAN /\ (serving' => restore'.pc = "idle")
  /\ rows' \in Table /\ durable' \in Table /\ userDeleted' \subseteq AttachmentId
  /\ files' \subseteq FileName /\ onDisk' \subseteq FileName
  /\ aged' \subseteq files' \cap aged
  /\ \A a \in AttachmentId : NoRowYet(a) => rows'[a] = NoRow /\ durable'[a] = NoRow
  /\ \A f \in FileName : NoFileYet(f[1]) => f \notin files' /\ f \notin onDisk'
  /\ restore' \in Staged
  /\ \/ restore'.pc = "idle"
     \/ restore.pc # "idle" /\ restore'.archive = restore.archive
     \/ \E k \in DOMAIN archives : restore'.archive = archives[k]
  /\ place' \subseteq {"db", "attachments"} /\ aside' \in Kept /\ owed' \in Kept
  /\ group' \in BOOLEAN /\ torn' \in BOOLEAN

\* Such a step keeps the invariant once the data is accounted for.
LEMMA ReplaceStep ==
  ASSUME DataInv, Replaces, WholeUntilMoved', RestoreProgress'
  PROVE  DataInv'
<1>0. /\ DataType /\ Stopped /\ RowsRecorded /\ FilesRenamed /\ AgedEnded /\ ArchivesWhole
  BY DEF DataInv
<1>a. /\ ~serving /\ UNCHANGED <<up, del, reclaim, backup, archives, published>>
      /\ serving' \in BOOLEAN /\ (serving' => restore'.pc = "idle")
  BY DEF Replaces, backupVars
<1>b. /\ rows' \in Table /\ durable' \in Table /\ userDeleted' \subseteq AttachmentId
      /\ \A a \in AttachmentId : NoRowYet(a) => rows'[a] = NoRow /\ durable'[a] = NoRow
  BY DEF Replaces
<1>c. /\ files' \subseteq FileName /\ onDisk' \subseteq FileName
      /\ aged' \subseteq files' \cap aged
      /\ \A f \in FileName : NoFileYet(f[1]) => f \notin files' /\ f \notin onDisk'
  BY DEF Replaces
<1>d. \/ restore'.pc = "idle"
      \/ restore.pc # "idle" /\ restore'.archive = restore.archive
      \/ \E k \in DOMAIN archives : restore'.archive = archives[k]
  BY DEF Replaces
<1>1. /\ backup = NoBackup /\ backup' = NoBackup /\ reclaim'.pc = "idle"
      /\ \A a \in AttachmentId : up'[a] \in {"idle", "done", "ended"} /\ del'[a].pc = "idle"
  BY ONLY <1>0, <1>a DEF Stopped
<1>2. DataType'
  <2>1. TypeOK'
    BY ONLY <1>0, <1>a, <1>b, <1>c DEF DataType, TypeOK, Table, Row
  <2>2. \A k \in DOMAIN archives : archives[k] \in Archive
    BY ONLY <1>0 DEF DataType
  <2>3. restore'.pc # "idle" => restore'.archive \in Archive
    BY ONLY <1>0, <1>d, <2>2 DEF DataType
  <2>4. /\ restore' \in Staged /\ place' \subseteq {"db", "attachments"}
        /\ aside' \in Kept /\ owed' \in Kept /\ group' \in BOOLEAN /\ torn' \in BOOLEAN
    BY DEF Replaces
  <2> QED BY ONLY <1>0, <1>a, <2>1, <2>3, <2>4 DEF DataType
<1>3. Stopped'
  BY ONLY <1>a, <1>1 DEF Stopped
<1>4. RowsRecorded'
  <2>1. ASSUME NEW a \in AttachmentId, NoRowYet(a), restore'.pc # "idle"
        PROVE  restore'.archive.table[a] = NoRow
    BY ONLY <1>0, <1>d, <2>1 DEF RowsRecorded
  <2> QED BY ONLY <1>0, <1>a, <1>b, <2>1 DEF RowsRecorded, NoRowYet
<1>5. ThumbnailsRecorded' /\ UploadsKept' /\ DeletesCommitted' /\ PassSpares'
  BY ONLY <1>1 DEF ThumbnailsRecorded, UploadsKept, DeletesCommitted, PassSpares
<1>6. FilesRenamed'
  <2>1. ASSUME NEW f \in FileName, NoFileYet(f[1]), restore'.pc # "idle"
        PROVE  f \notin restore'.archive.files
    BY ONLY <1>0, <1>d, <2>1 DEF FilesRenamed
  <2> QED BY ONLY <1>0, <1>a, <1>c, <2>1 DEF FilesRenamed, NoFileYet
<1>7. AgedEnded'
  BY ONLY <1>0, <1>a, <1>c DEF AgedEnded
<1>8. BackupGathers'
  BY ONLY <1>1, NoBackupFacts DEF BackupGathers
<1>9. ArchivesWhole'
  BY ONLY <1>0, <1>a, <1>d DEF ArchivesWhole
<1> QED BY <1>2, <1>3, <1>4, <1>5, <1>6, <1>7, <1>8, <1>9 DEF DataInv

\* Every rename of a restore, and its end at any point, keeps the invariant.
LEMMA RestoreStep ==
  ASSUME DataInv, Restore
  PROVE  DataInv'
<1>a. DataType /\ Stopped /\ WholeUntilMoved /\ ArchivesWhole /\ RestoreProgress
  BY DEF DataInv
<1>b. RowsRecorded /\ FilesRenamed
  BY DEF DataInv
<1>0. /\ rows \in Table /\ durable \in Table /\ userDeleted \subseteq AttachmentId
      /\ files \subseteq FileName /\ onDisk \subseteq FileName /\ aged \subseteq files
      /\ restore \in Staged /\ place \subseteq {"db", "attachments"}
      /\ aside \in Kept /\ owed \in Kept /\ group \in BOOLEAN /\ torn \in BOOLEAN
      /\ archives \in Seq(Archive)
      /\ restore.pc # "idle" => restore.archive \in Archive
      /\ serving \in BOOLEAN
  BY ONLY <1>a DEF DataType, TypeOK, Table, Row
<1>1. /\ \A a \in AttachmentId : NoRowYet(a) => rows[a] = NoRow /\ durable[a] = NoRow
      /\ \A f \in FileName : NoFileYet(f[1]) => f \notin files /\ f \notin onDisk
  BY ONLY <1>b DEF RowsRecorded, FilesRenamed
<1>2. InPlace \in Kept
  BY ONLY <1>0 DEF InPlace, Kept
<1>3. NoRestore \in Staged /\ NoRestore.pc = "idle"
  BY DEF NoRestore, Staged
<1>4. ASSUME NEW k \in DOMAIN archives, RestoreStage(archives[k]) PROVE DataInv'
  <2> DEFINE r == [pc |-> IF dataDirHasExistingData THEN "preserveDb" ELSE "placeDb",
                   archive |-> archives[k]]
  <2>1. /\ ~serving /\ restore.pc = "idle" /\ restore' = r
        /\ owed' = Both(Common(owed, aside), InPlace)
        /\ UNCHANGED <<vars, backupVars, place, group, aside, torn>>
    BY ONLY <1>4 DEF RestoreStage, probeServerNotRunning
  <2>2. archives[k] \in Archive
    BY ONLY <1>0, <1>4
  <2>3. r \in Staged /\ r.archive = archives[k] /\ r.pc \in {"preserveDb", "placeDb"}
        /\ (r.pc = "placeDb" => "db" \notin place /\ files = {})
    BY <2>2 DEF Staged, dataDirHasExistingData
  <2> HIDE DEF r
  <2>4. owed' \in Kept
    BY ONLY <1>0, <1>2, <2>1 DEF Kept, Both, Common
  <2>5. Replaces
    BY ONLY <1>0, <1>1, <1>4, <2>1, <2>3, <2>4 DEF Replaces, vars
  <2>6. WholeUntilMoved' /\ RestoreProgress'
    BY ONLY <1>a, <2>1, <2>3 DEF WholeUntilMoved, Whole, RestoreProgress, vars
  <2> QED BY <2>5, <2>6, ReplaceStep
<1>5. ASSUME NEW from \in {"preserveDb", "preserveAttachments", "placeDb", "placeAttachments"},
             NEW to \in {"preserveAttachments", "placeDb", "placeAttachments", "sync"},
             RestoreGoes(from, to)
      PROVE  /\ ~serving /\ UNCHANGED <<up, del, reclaim, serving, backupVars>>
             /\ restore.pc = from /\ restore.archive \in Archive
             /\ restore' \in Staged /\ restore'.pc = to /\ restore'.archive = restore.archive
  <2>1. restore' = [restore EXCEPT !.pc = to] /\ restore.pc = from /\ restore.pc # "idle"
    BY ONLY <1>5 DEF RestoreGoes
  <2>2. restore' \in Staged /\ restore'.pc = to /\ restore'.archive = restore.archive
    BY ONLY <1>0, <1>5, <2>1 DEF Staged
  <2> QED BY ONLY <1>a, <1>0, <1>5, <2>1, <2>2 DEF RestoreGoes, Stopped
<1>6. CASE RestorePreserveDb
  <2>1. /\ ~serving /\ UNCHANGED <<up, del, reclaim, serving, backupVars>>
        /\ restore.pc = "preserveDb" /\ restore.archive \in Archive
        /\ restore' \in Staged /\ restore'.pc = "preserveAttachments"
        /\ restore'.archive = restore.archive
    BY ONLY <1>5, <1>6 DEF RestorePreserveDb
  <2>2. /\ aside' = [aside EXCEPT !.db = aside.db \cup InPlace.db]
        /\ place' = place \ {"db"}
        /\ UNCHANGED <<rows, durable, files, onDisk, aged, group, owed, torn, userDeleted>>
    BY ONLY <1>0, <1>6, Zenon DEF RestorePreserveDb, preserveIfExists, tableVars, dirVars, InPlace, Kept
  <2>3. aside' \in Kept
    BY ONLY <1>0, <1>2, <2>2 DEF Kept
  <2>4. Replaces
    BY ONLY <1>0, <1>1, <2>1, <2>2, <2>3 DEF Replaces
  <2>5. WholeUntilMoved' /\ RestoreProgress'
    BY ONLY <1>a, <2>1, <2>2 DEF WholeUntilMoved, RestoreProgress
  <2> QED BY <2>4, <2>5, ReplaceStep
<1>7. CASE RestorePreserveAttachments
  <2>1. /\ ~serving /\ UNCHANGED <<up, del, reclaim, serving, backupVars>>
        /\ restore.pc = "preserveAttachments" /\ restore.archive \in Archive
        /\ restore' \in Staged /\ restore'.pc = "placeDb"
        /\ restore'.archive = restore.archive
    BY ONLY <1>5, <1>7 DEF RestorePreserveAttachments
  <2>2. /\ aside' = [aside EXCEPT !.attachments = aside.attachments \cup InPlace.attachments]
        /\ place' = place \ {"attachments"}
        /\ files' = {} /\ onDisk' = {} /\ aged' = {}
        /\ UNCHANGED <<rows, durable, group, owed, torn, userDeleted>>
    BY ONLY <1>0, <1>7, Zenon DEF RestorePreserveAttachments, preserveIfExists, tableVars, dirVars,
       InPlace, Kept
  <2>3. aside' \in Kept
    BY ONLY <1>0, <1>2, <2>2 DEF Kept
  <2>4. Replaces
    BY ONLY <1>0, <1>1, <2>1, <2>2, <2>3 DEF Replaces
  <2>5. WholeUntilMoved' /\ RestoreProgress'
    BY ONLY <1>a, <2>1, <2>2 DEF WholeUntilMoved, RestoreProgress
  <2> QED BY <2>4, <2>5, ReplaceStep
<1>8. CASE RestorePlaceDb
  <2>1. /\ ~serving /\ UNCHANGED <<up, del, reclaim, serving, backupVars>>
        /\ restore.pc = "placeDb" /\ restore.archive \in Archive
        /\ restore' \in Staged /\ restore'.pc = "placeAttachments"
        /\ restore'.archive = restore.archive
    BY ONLY <1>5, <1>8 DEF RestorePlaceDb
  <2>2. /\ place' = place \cup {"db"} /\ group' = TRUE
        /\ rows' = restore.archive.table /\ durable' = restore.archive.table
        /\ userDeleted' = restore.archive.deleted
        /\ UNCHANGED <<files, onDisk, aged, aside, owed, torn>>
    BY ONLY <1>8 DEF RestorePlaceDb, dirVars
  <2>3. rows' \in Table /\ durable' \in Table /\ userDeleted' \subseteq AttachmentId
    BY ONLY <2>1, <2>2 DEF Archive
  <2>4. \A a \in AttachmentId : NoRowYet(a) => rows'[a] = NoRow /\ durable'[a] = NoRow
    BY ONLY <1>b, <2>1, <2>2 DEF RowsRecorded
  <2>5. Replaces
    BY ONLY <1>0, <1>1, <2>1, <2>2, <2>3, <2>4 DEF Replaces
  <2>6. WholeUntilMoved' /\ RestoreProgress'
    BY ONLY <1>a, <2>1, <2>2 DEF WholeUntilMoved, RestoreProgress
  <2> QED BY <2>5, <2>6, ReplaceStep
<1>9. CASE RestorePlaceAttachments
  <2>1. /\ ~serving /\ UNCHANGED <<up, del, reclaim, serving, backupVars>>
        /\ restore.pc = "placeAttachments" /\ restore.archive \in Archive
        /\ restore' \in Staged /\ restore'.pc = "sync"
        /\ restore'.archive = restore.archive
    BY ONLY <1>5, <1>9 DEF RestorePlaceAttachments
  <2>2. /\ place' = place \cup {"attachments"}
        /\ files' = restore.archive.files /\ onDisk' = restore.archive.files /\ aged' = {}
        /\ UNCHANGED <<rows, durable, group, aside, owed, torn, userDeleted>>
    BY ONLY <1>9 DEF RestorePlaceAttachments, tableVars
  <2>3. files' \subseteq FileName /\ onDisk' \subseteq FileName
    BY ONLY <2>1, <2>2 DEF Archive
  <2>4. \A f \in FileName : NoFileYet(f[1]) => f \notin files' /\ f \notin onDisk'
    BY ONLY <1>b, <2>1, <2>2 DEF FilesRenamed
  <2>5. Replaces
    BY ONLY <1>0, <1>1, <2>1, <2>2, <2>3, <2>4 DEF Replaces
  <2>6. WholeUntilMoved' /\ RestoreProgress'
    BY ONLY <1>a, <2>1, <2>2 DEF WholeUntilMoved, RestoreProgress
  <2> QED BY <2>5, <2>6, ReplaceStep
<1>10. CASE RestoreCommit \/ RestoreCutOff
  <2>1. /\ restore.pc # "idle" /\ restore' = NoRestore /\ ~serving
        /\ UNCHANGED <<vars, backupVars, restores, place, group, aside, owed>>
        /\ restore.archive \in Archive
    BY ONLY <1>a, <1>0, <1>10 DEF RestoreCommit, RestoreCutOff, Stopped
  <2>2. /\ torn' \in BOOLEAN
        /\ restore.pc = "preserveDb" => torn' = torn
        /\ restore.pc = "sync" => torn' = restore.archive.torn
        /\ restore.pc \notin {"preserveDb", "sync"} => torn'
    BY ONLY <1>0, <1>10, <2>1, Zenon DEF RestoreCommit, RestoreCutOff, Archive
  <2>3. Replaces
    BY ONLY <1>0, <1>1, <1>3, <2>1, <2>2 DEF Replaces, vars
  <2>4. CASE restore.pc = "preserveDb"
    <3>1. WholeUntilMoved' /\ RestoreProgress'
      <4>1. restore'.pc = "idle"
        BY ONLY <1>3, <2>1
      <4>2. torn \/ Whole
        BY ONLY <1>a, <2>4 DEF WholeUntilMoved
      <4>3. torn' \/ Whole'
        <5>1. torn' = torn /\ UNCHANGED <<rows, durable, files, onDisk, userDeleted, place>>
          BY ONLY <2>1, <2>2, <2>4 DEF vars
        <5> QED BY ONLY <4>2, <5>1 DEF Whole, Backed
      <4> QED BY ONLY <4>1, <4>3 DEF WholeUntilMoved, RestoreProgress
    <3> QED BY <2>3, <3>1, ReplaceStep
  <2>5. CASE restore.pc = "sync"
    <3>1. restore.archive.torn \/ Whole
      BY ONLY <1>a, <2>5 DEF RestoreProgress, ArchivesWhole, Complete, Backed, Whole
    <3>2. WholeUntilMoved' /\ RestoreProgress'
      <4>1. restore'.pc = "idle"
        BY ONLY <1>3, <2>1
      <4>2. torn' \/ Whole'
        <5>1. /\ torn' = restore.archive.torn
              /\ UNCHANGED <<rows, durable, files, onDisk, userDeleted, place>>
          BY ONLY <2>1, <2>2, <2>5 DEF vars
        <5> QED BY ONLY <3>1, <5>1 DEF Whole, Backed
      <4> QED BY ONLY <4>1, <4>2 DEF WholeUntilMoved, RestoreProgress
    <3> QED BY <2>3, <3>2, ReplaceStep
  <2>6. CASE restore.pc \notin {"preserveDb", "sync"}
    <3>1. WholeUntilMoved' /\ RestoreProgress'
      BY ONLY <1>3, <2>1, <2>2, <2>6 DEF WholeUntilMoved, RestoreProgress
    <3> QED BY <2>3, <3>1, ReplaceStep
  <2> QED BY <2>4, <2>5, <2>6
<1> QED BY <1>4, <1>6, <1>7, <1>8, <1>9, <1>10 DEF Restore

\* A start changes the data only where a restore took the database away.
LEMMA ServeStep ==
  ASSUME DataInv, DataServeStart
  PROVE  DataInv'
<1>a. DataType /\ WholeUntilMoved /\ RowsRecorded /\ FilesRenamed
  BY DEF DataInv
<1>1. /\ rows \in Table /\ durable \in Table /\ userDeleted \subseteq AttachmentId
      /\ files \subseteq FileName /\ onDisk \subseteq FileName /\ aged \subseteq files
      /\ restore \in Staged /\ aside \in Kept /\ owed \in Kept
      /\ group \in BOOLEAN /\ torn \in BOOLEAN
  BY ONLY <1>a DEF DataType, TypeOK, Table, Row
<1>2. /\ rows' \in Table /\ durable' \in Table
      /\ \A a \in AttachmentId : NoRowYet(a) => rows'[a] = NoRow /\ durable'[a] = NoRow
  <2>1. [a \in AttachmentId |-> NoRow] \in Table
    BY ONLY NoBackupFacts DEF Table
  <2>2. \/ rows' = rows /\ durable' = durable
        \/ rows' = [a \in AttachmentId |-> NoRow] /\ durable' = [a \in AttachmentId |-> NoRow]
    BY DEF DataServeStart
  <2> QED BY ONLY <1>a, <1>1, <2>1, <2>2 DEF RowsRecorded
<1>3. \A f \in FileName : NoFileYet(f[1]) => f \notin files /\ f \notin onDisk
  BY ONLY <1>a DEF FilesRenamed
<1>4. owed' \in Kept
  BY <1>1 DEF Kept, Common, DataServeStart
<1>5. /\ serving' = TRUE /\ ~serving /\ restore' = restore /\ restore.pc = "idle"
      /\ UNCHANGED <<files, onDisk, aged, up, del, reclaim, userDeleted, backupVars, aside, torn>>
      /\ place' \subseteq {"db", "attachments"} /\ "db" \in place'
      /\ group' \in BOOLEAN
      /\ "db" \in place => rows' = rows /\ durable' = durable
  BY <1>1 DEF dirVars, DataServeStart
<1>6. Replaces
  BY ONLY <1>1, <1>2, <1>3, <1>4, <1>5 DEF Replaces
<1>7. WholeUntilMoved' /\ RestoreProgress'
  <2>1. torn \/ Whole
    BY ONLY <1>a, <1>5 DEF WholeUntilMoved
  <2>2. torn' \/ Whole'
    BY ONLY <1>5, <2>1 DEF Whole
  <2> QED BY ONLY <1>5, <2>2 DEF WholeUntilMoved, RestoreProgress
<1> QED BY <1>6, <1>7, ReplaceStep

-----------------------------------------------------------------------------
(***************************************************************************)
(* The invariants for every behaviour, and what follows from them.         *)
(***************************************************************************)

\* Every step keeps the invariant.
LEMMA DataInvStep == DataInv /\ [DataNext]_allVars => DataInv'
<1> SUFFICES ASSUME DataInv, [DataNext]_allVars PROVE DataInv'
  OBVIOUS
<1>1. CASE GroupStep
  BY <1>1, UploadStep, DeleteStep, ReclaimStep DEF GroupStep
<1>2. CASE UNCHANGED allVars
  <2>1. UNCHANGED <<rows, durable, files, onDisk, aged, up, del, reclaim, serving,
          userDeleted, backup, archives, published, restore, restores, place, group,
          aside, owed, torn>>
    BY <1>2 DEF allVars, vars, backupVars, restoreVars
  <2>0. /\ DataType /\ Stopped /\ RowsRecorded /\ ThumbnailsRecorded /\ FilesRenamed
        /\ AgedEnded /\ UploadsKept /\ DeletesCommitted /\ PassSpares
        /\ WholeUntilMoved /\ BackupGathers /\ ArchivesWhole /\ RestoreProgress
    BY DEF DataInv
  <2>2. DataType'
    BY ONLY <2>1, <2>0 DEF DataType, TypeOK
  <2>3. Stopped' /\ RowsRecorded' /\ ThumbnailsRecorded' /\ AgedEnded' /\ DeletesCommitted'
    BY ONLY <2>0, <2>1 DEF Stopped, RowsRecorded, NoRowYet, ThumbnailsRecorded, AgedEnded,
       DeletesCommitted
  <2>4. FilesRenamed' /\ UploadsKept' /\ PassSpares'
    BY ONLY <2>0, <2>1 DEF FilesRenamed, NoFileYet, UploadsKept, PassSpares, PassReferences
  <2>5. WholeUntilMoved' /\ BackupGathers' /\ ArchivesWhole' /\ RestoreProgress'
    BY ONLY <2>0, <2>1 DEF WholeUntilMoved, Whole, BackupGathers, ArchivesWhole, RestoreProgress
  <2> QED BY ONLY <2>2, <2>3, <2>4, <2>5 DEF DataInv
<1> QED
  BY <1>1, <1>2, TimeStep, StopStep, BackupStep, RestoreStep, ServeStep DEF DataNext

\* The inductive invariant holds throughout.
LEMMA DataInvCorrect == DataSpec => []DataInv
<1>1. DataInit => DataInv
  BY DataInitOK
<1>2. DataInv /\ [DataNext]_allVars => DataInv'
  BY DataInvStep
<1> QED BY <1>1, <1>2, PTL DEF DataSpec

\* Rows, files, uploads, deletes and passes keep their types with any number
\* of backups, crashes and restores.
THEOREM TypeOKCorrect == DataSpec => []TypeOK
<1>1. DataInv => TypeOK
  BY DEF DataInv, DataType
<1> QED BY <1>1, DataInvCorrect, PTL

\* Unless a restore was cut off half-way, a live row has its original and
\* its thumbnail in the directory and no row is a tombstone, except for
\* attachments a user deleted: uploads, deletes, the reclaim pass, crashes,
\* power losses and restores may interleave in any way.
THEOREM RestoredDataWholeCorrect == DataSpec => []RestoredDataWhole
<1>1. DataInv => RestoredDataWhole
  <2> SUFFICES ASSUME DataInv, ~torn, restore.pc = "idle"
               PROVE  NoAttachmentLost /\ OnlyUsersDelete
    BY DEF RestoredDataWhole
  <2>1. Whole
    BY DEF DataInv, WholeUntilMoved
  <2>2. ASSUME NEW a \in AttachmentId \ userDeleted
        PROVE  /\ Live(rows, a) => Original(a) \in files
               /\ a \in WithThumbnail(rows) => Thumbnail(a) \in files
    <3>1. /\ Original(a) \in FileName /\ Original(a)[1] = a
          /\ Thumbnail(a) \in FileName /\ Thumbnail(a)[1] = a
      BY ONLY FileNames, a \in AttachmentId \ userDeleted
    <3>2. /\ Live(rows, a) => Names(rows, Original(a))
          /\ a \in WithThumbnail(rows) => Names(rows, Thumbnail(a))
      BY ONLY NamesAt, a \in AttachmentId \ userDeleted DEF WithThumbnail, LiveRows
    <3> QED BY ONLY <2>1, <3>1, <3>2, a \in AttachmentId \ userDeleted DEF Whole, Backed
  <2> QED BY ONLY <2>1, <2>2 DEF NoAttachmentLost, OnlyUsersDelete, Whole, Backed
<1> QED BY <1>1, DataInvCorrect, PTL

\* Every finished archive has the files that its database names, although
\* the directory was walked after the snapshot with the server running;
\* only attachments that users deleted before it was finished may lack theirs.
THEOREM ArchivesCompleteCorrect == DataSpec => []ArchivesComplete
<1>1. DataInv => ArchivesComplete
  <2> SUFFICES ASSUME DataInv, NEW k \in DOMAIN archives, ~archives[k].torn,
                      NEW f \in Referenced(archives[k].table)
               PROVE  f \in archives[k].files \/ f[1] \in archives[k].deleted
    BY DEF ArchivesComplete
  <2>0. archives[k] \in Archive
    BY DEF DataInv, DataType
  <2>1. archives[k].table \in Table
    BY ONLY <2>0 DEF Archive
  <2>2. f \in FileName /\ Names(archives[k].table, f)
    BY <2>1, ReferencedNames
  <2> QED BY <2>2 DEF DataInv, ArchivesWhole, Complete, Backed
<1> QED BY <1>1, DataInvCorrect, PTL

-----------------------------------------------------------------------------
\* The Retain newest backups are never pruned, wherever the server is killed.
THEOREM NewestBackupsKeptCorrect == DataSpec => []NewestBackupsKept
<1>1. DataInit => Numbered
  BY BoundsAssumption DEF DataInit, Numbered
<1>2. DataInv /\ Numbered /\ [DataNext]_allVars => Numbered'
  BY NumberedStep
<1>3. DataInv /\ Numbered => NewestBackupsKept
  <2> SUFFICES ASSUME DataInv, Numbered, NEW n \in 1..published, n > published - Retain
               PROVE  \E k \in DOMAIN archives : archives[k].number = n
    BY DEF NewestBackupsKept
  <2>1. archives \in Seq(Archive) /\ published \in Nat /\ Len(archives) \in Nat
    BY DEF DataInv, DataType
  <2>2. PICK k \in 1..Len(archives) : k = n - (published - Len(archives))
    <3>1. n - (published - Len(archives)) \in 1..Len(archives)
      BY <2>1, BoundsAssumption DEF Numbered
    <3> QED BY <3>1
  <2>3. DOMAIN archives = 1..Len(archives)
    BY <2>1
  <2>4. archives[k].number = (published - Len(archives)) + k
    BY DEF Numbered
  <2>5. archives[k].number = n
    BY <2>1, <2>2, <2>4
  <2> QED BY <2>3, <2>5
<1> QED BY <1>1, <1>2, <1>3, DataInvCorrect, PTL DEF DataSpec

-----------------------------------------------------------------------------
\* The data a restore found in place is in place or set aside at every later
\* moment, wherever this restore and those after it are cut off.
THEOREM NothingLostCorrect == DataSpec => []NothingLost
<1>1. DataInit => OwedSafe
  BY DEF DataInit, Init, OwedSafe, Nothing
<1>2. DataInv /\ OwedSafe /\ [DataNext]_allVars => OwedSafe'
  BY OwedStep
<1>3. OwedSafe => NothingLost
  BY DEF OwedSafe, NothingLost, InPlace
<1> QED BY <1>1, <1>2, <1>3, DataInvCorrect, PTL DEF DataSpec
=============================================================================
