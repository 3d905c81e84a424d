---------------------------- MODULE Attachments ----------------------------
(***************************************************************************)
(* The attachments of one group: rows of the attachments table and files   *)
(* in the group's directory.  No transaction spans the two, so an upload,  *)
(* a delete and the hourly reclaim pass each take several steps, and every *)
(* step below is one file-system call or one database transaction.         *)
(*                                                                         *)
(* The process may be killed between any two steps (Crash), and the power  *)
(* may fail (PowerLoss): SQLite runs in WAL mode with synchronous=NORMAL,  *)
(* so commits made since the last WAL sync are lost, and of the directory  *)
(* entries changed since the last fsync of the directory any may be lost.  *)
(***************************************************************************)
EXTENDS Naturals

CONSTANTS
  AttachmentId,  \* ids newID hands out; each names one upload
  Image          \* the uploads whose content type gets a thumbnail

ASSUME ImageAssumption == Image \subseteq AttachmentId

VARIABLES
  rows,        \* the attachments table: id -> state and thumbnail_path
  durable,     \* the table as the last WAL sync left it on the disk
  files,       \* the names in the group's directory
  onDisk,      \* the names its last fsync put on the disk
  aged,        \* the names at least minOrphanFileAge old
  up,          \* how far the upload of each id has come
  del,         \* how far a delete request of each id has come
  reclaim,     \* the reclaim pass: the rows it listed and what is left to do
  serving,     \* a server process runs
  userDeleted  \* history: the ids whose delete request committed

tableVars == <<rows, durable>>
dirVars == <<files, onDisk, aged>>
vars == <<rows, durable, files, onDisk, aged, up, del, reclaim, serving,
          userDeleted>>

Original(a) == <<a, "original">>
Thumbnail(a) == <<a, "thumbnail">>
FileName == AttachmentId \X {"original", "thumbnail"}

Live(table, a) == table[a].state = "live"
LiveRows(table) == {a \in AttachmentId : Live(table, a)}
\* Mutant: the tombstoned rows count as well.
WithThumbnail_Tombstoned(table) == {a \in AttachmentId : table[a].thumbnail}

WithThumbnail(table) == {a \in LiveRows(table) : table[a].thumbnail}
Referenced(table) ==
  {Original(a) : a \in LiveRows(table)}
    \cup {Thumbnail(a) : a \in WithThumbnail(table)}

NoRow == [state |-> "none", thumbnail |-> FALSE]
NoDelete == [pc |-> "idle", thumbnail |-> FALSE]
NoPass == [pc |-> "idle", live |-> {}, thumbnails |-> {}, todo |-> {}]

Init ==
  /\ rows = [a \in AttachmentId |-> NoRow] /\ durable = rows
  /\ files = {} /\ onDisk = {} /\ aged = {}
  /\ up = [a \in AttachmentId |-> "idle"]
  /\ del = [a \in AttachmentId |-> NoDelete]
  /\ reclaim = NoPass
  /\ serving = TRUE
  /\ userDeleted = {}

(***************************************************************************)
(* The file system: a name appears or disappears at once, and is on the    *)
(* disk for good once the directory is synced.  rename keeps the age of    *)
(* the file, which was written a moment ago.                               *)
(***************************************************************************)
RenameInto(f) == /\ files' = files \cup {f}
                 /\ UNCHANGED <<onDisk, aged>>
Remove(f) == /\ files' = files \ {f}
             /\ aged' = aged \ {f}
             /\ UNCHANGED onDisk
fsyncDir == onDisk' = files /\ UNCHANGED <<files, aged>>

(***************************************************************************)
(* The statements, as the table each leaves, and the storage layer's       *)
(* transactions; 0 rows updated (the row is a tombstone by now) is         *)
(* ErrNotFound and rolls the transaction back.                             *)
(***************************************************************************)
CreateAttachment(a) == [rows EXCEPT ![a] = [state |-> "live", thumbnail |-> FALSE]]
SetAttachmentThumbnailPath(a) == [rows EXCEPT ![a].thumbnail = TRUE]
ClearAttachmentThumbnailPath(a) == [rows EXCEPT ![a].thumbnail = FALSE]
DeleteAttachment(a) == [rows EXCEPT ![a].state = "tombstone"]

Create(a) == rows' = CreateAttachment(a) /\ UNCHANGED durable
SetThumbnailPath(a) ==
  Live(rows, a) /\ rows' = SetAttachmentThumbnailPath(a) /\ UNCHANGED durable
ClearThumbnailPath(a) ==
  Live(rows, a) /\ rows' = ClearAttachmentThumbnailPath(a) /\ UNCHANGED durable
DeleteRow(a) ==
  Live(rows, a) /\ rows' = DeleteAttachment(a) /\ UNCHANGED durable

(***************************************************************************)
(* Upload.  A failed step ends the request; what it has already renamed    *)
(* into the directory stays there unless the code removes it.  "done" is   *)
(* the 201 answer, "ended" an error or a request cut off.                  *)
(***************************************************************************)
UploadGoes(a, from, to) ==
  /\ serving /\ up[a] = from
  /\ up' = [up EXCEPT ![a] = to]
  /\ UNCHANGED <<del, reclaim, serving, userDeleted>>

\* The item is live, the body is in a staging file in tmp/.
UploadStage(a) ==
  /\ UploadGoes(a, "idle", "staged")
  /\ UNCHANGED <<tableVars, dirVars>>

\* Too large, a broken body, a full disk, or the staging file was emptied
\* out of tmp/ by a second "serve" before the rename.
UploadAbandon(a) ==
  /\ UploadGoes(a, "staged", "ended")
  /\ UNCHANGED <<tableVars, dirVars>>

UploadRename(a) ==
  /\ UploadGoes(a, "staged", "renamed")
  /\ RenameInto(Original(a))
  /\ UNCHANGED tableVars

UploadSync(a) ==
  /\ UploadGoes(a, "renamed", "synced")
  /\ fsyncDir
  /\ UNCHANGED tableVars

UploadSyncFails(a) ==
  /\ UploadGoes(a, "renamed", "ended")
  /\ UNCHANGED <<tableVars, dirVars>>

UploadRecord(a) ==
  /\ UploadGoes(a, "synced", IF a \in Image THEN "recorded" ELSE "done")
  /\ Create(a)
  /\ UNCHANGED dirVars

\* The item was deleted meanwhile, or the transaction failed.
UploadRecordFails(a) ==
  /\ UploadGoes(a, "synced", "ended")
  /\ Remove(Original(a))
  /\ UNCHANGED tableVars

\* generateThumbnail reads the original that a delete may have removed.
ThumbnailRename(a) ==
  /\ Original(a) \in files
  /\ UploadGoes(a, "recorded", "thumbRenamed")
  /\ RenameInto(Thumbnail(a))
  /\ UNCHANGED tableVars

ThumbnailFails(a) ==
  /\ UploadGoes(a, "recorded", "done")
  /\ UNCHANGED <<tableVars, dirVars>>

ThumbnailSync(a) ==
  /\ UploadGoes(a, "thumbRenamed", "thumbSynced")
  /\ fsyncDir
  /\ UNCHANGED tableVars

ThumbnailRecord(a) ==
  /\ UploadGoes(a, "thumbSynced", "done")
  /\ SetThumbnailPath(a)
  /\ UNCHANGED dirVars

\* The fsync failed, or SetThumbnailPath did: the thumbnail is removed.
ThumbnailDiscard(a) ==
  /\ \/ UploadGoes(a, "thumbRenamed", "done")
     \/ UploadGoes(a, "thumbSynced", "done")
  /\ Remove(Thumbnail(a))
  /\ UNCHANGED tableVars

(***************************************************************************)
(* The delete handler: it reads the row, tombstones it, and then unlinks   *)
(* the files named by the copy it read first.                              *)
(***************************************************************************)
DeleteGoes(a, from, to) ==
  /\ serving /\ del[a].pc = from
  /\ del' = [del EXCEPT ![a] = to]
  /\ UNCHANGED <<up, reclaim, serving>>

DeleteRead(a) ==
  /\ Live(rows, a)
  /\ DeleteGoes(a, "idle", [pc |-> "read", thumbnail |-> rows[a].thumbnail])
  /\ UNCHANGED <<tableVars, dirVars, userDeleted>>

DeleteTombstone(a) ==
  /\ DeleteGoes(a, "read", [del[a] EXCEPT !.pc = "tombstoned"])
  /\ DeleteRow(a)
  /\ userDeleted' = userDeleted \cup {a}
  /\ UNCHANGED dirVars

\* A reclaim pass tombstoned the row in between: ErrNotFound.
DeleteNotFound(a) ==
  /\ ~Live(rows, a)
  /\ DeleteGoes(a, "read", NoDelete)
  /\ UNCHANGED <<tableVars, dirVars, userDeleted>>

DeleteOriginal(a) ==
  /\ DeleteGoes(a, "tombstoned",
                IF del[a].thumbnail THEN [del[a] EXCEPT !.pc = "unlinked"]
                                    ELSE NoDelete)
  /\ Remove(Original(a))
  /\ UNCHANGED <<tableVars, userDeleted>>

DeleteThumbnail(a) ==
  /\ DeleteGoes(a, "unlinked", NoDelete)
  /\ Remove(Thumbnail(a))
  /\ UNCHANGED <<tableVars, userDeleted>>

(***************************************************************************)
(* The reclaim pass.  It lists the rows once, reads the directory, removes *)
(* the old files no listed row names, and then looks at each row it listed.*)
(***************************************************************************)
PassGoes(from, to) ==
  /\ serving /\ reclaim.pc = from
  /\ reclaim' = to
  /\ UNCHANGED <<up, del, serving, userDeleted>>

ReclaimList ==
  /\ PassGoes("idle", [pc |-> "listed", live |-> LiveRows(rows),
                       thumbnails |-> WithThumbnail(rows), todo |-> {}])
  /\ UNCHANGED <<tableVars, dirVars>>

PassReferences == {Original(a) : a \in reclaim.live}
                    \cup {Thumbnail(a) : a \in reclaim.thumbnails}

ReclaimReadDir ==
  /\ PassGoes("listed", [reclaim EXCEPT !.pc = "files",
                                        !.todo = files \ PassReferences])
  /\ UNCHANGED <<tableVars, dirVars>>

\* Mutants: any unreferenced file goes; the age is compared the wrong way.
OldEnough_AnyAge(f) == f \in files
OldEnough_Young(f) == f \in files \ aged

\* A file gone by now, or younger than minOrphanFileAge, is skipped.
OldEnough(f) == f \in files \cap aged

ReclaimFile(f) ==
  /\ f \in reclaim.todo
  /\ PassGoes("files", [reclaim EXCEPT !.todo = @ \ {f}])
  /\ IF OldEnough(f) THEN Remove(f) ELSE UNCHANGED dirVars
  /\ UNCHANGED tableVars

ReclaimFilesDone ==
  /\ reclaim.todo = {}
  /\ PassGoes("files", [reclaim EXCEPT !.pc = "rows", !.todo = reclaim.live])
  /\ UNCHANGED <<tableVars, dirVars>>

\* A listed row that is gone by now makes both updates a no-op.
ReclaimRow(a) ==
  /\ a \in reclaim.todo
  /\ PassGoes("rows", [reclaim EXCEPT !.todo = @ \ {a}])
  /\ CASE ~Live(rows, a) -> UNCHANGED tableVars
       [] Live(rows, a) /\ Original(a) \notin files -> DeleteRow(a)
       [] Live(rows, a) /\ Original(a) \in files ->
            IF a \in reclaim.thumbnails /\ Thumbnail(a) \notin files
              THEN ClearThumbnailPath(a)
              ELSE UNCHANGED tableVars
  /\ UNCHANGED dirVars

ReclaimEnd ==
  /\ reclaim.todo = {}
  /\ PassGoes("rows", NoPass)
  /\ UNCHANGED <<tableVars, dirVars>>

(***************************************************************************)
(* The environment.  A file grows old only between passes and only after   *)
(* the request that wrote it has ended: minOrphanFileAge, one hour, is     *)
(* longer than the rest of an upload and longer than a pass.               *)
(***************************************************************************)
Age(f) ==
  /\ f \in files \ aged
  /\ up[f[1]] \in {"idle", "done", "ended"}
  /\ reclaim.pc = "idle"
  /\ aged' = aged \cup {f}
  /\ UNCHANGED <<tableVars, files, onDisk, up, del, reclaim, serving, userDeleted>>

SyncWal ==
  /\ rows # durable
  /\ durable' = rows
  /\ UNCHANGED <<rows, dirVars, up, del, reclaim, serving, userDeleted>>

\* What every request and the pass leave behind when the process dies; tmp/
\* is emptied by the next start.
ProcessEnds ==
  /\ serving /\ serving' = FALSE
  /\ up' = [a \in AttachmentId |->
           IF up[a] \in {"idle", "done"} THEN up[a] ELSE "ended"]
  /\ del' = [a \in AttachmentId |-> NoDelete]
  /\ reclaim' = NoPass
  /\ UNCHANGED userDeleted

Crash == ProcessEnds /\ UNCHANGED <<tableVars, dirVars>>

PowerLoss ==
  /\ ProcessEnds
  /\ rows' = durable
  /\ \E kept \in SUBSET ((files \ onDisk) \cup (onDisk \ files)) :
       files' = (files \cap onDisk) \cup kept
  /\ onDisk' = files'
  /\ aged' = aged \cap files'
  /\ UNCHANGED durable

attachmentUploadHandler(a) ==
  \/ UploadStage(a) \/ UploadAbandon(a) \/ UploadRename(a)
  \/ UploadSync(a) \/ UploadSyncFails(a)
  \/ UploadRecord(a) \/ UploadRecordFails(a)
  \/ ThumbnailRename(a) \/ ThumbnailFails(a) \/ ThumbnailSync(a)
  \/ ThumbnailRecord(a) \/ ThumbnailDiscard(a)

attachmentDeleteHandler(a) ==
  \/ DeleteRead(a) \/ DeleteTombstone(a) \/ DeleteNotFound(a)
  \/ DeleteOriginal(a) \/ DeleteThumbnail(a)

Reclaim ==
  \/ ReclaimList \/ ReclaimReadDir \/ ReclaimFilesDone \/ ReclaimEnd
  \/ \E f \in FileName : ReclaimFile(f)
  \/ \E a \in AttachmentId : ReclaimRow(a)

(***************************************************************************)
(* Fairness.  The reclaim loop is a goroutine with a ticker, so passes     *)
(* start again and again and each finishes; a request that has begun runs  *)
(* to its end; time passes, so files grow old.  A WAL sync, a crash and a  *)
(* restart need not happen.                                                *)
(***************************************************************************)
UploadEnds(a) ==
  \/ UploadAbandon(a) \/ UploadRename(a) \/ UploadSync(a)
  \/ UploadRecord(a) \/ UploadRecordFails(a) \/ ThumbnailRename(a)
  \/ ThumbnailFails(a) \/ ThumbnailSync(a) \/ ThumbnailRecord(a)
  \/ ThumbnailDiscard(a)

DeleteEnds(a) ==
  \/ DeleteTombstone(a) \/ DeleteNotFound(a) \/ DeleteOriginal(a)
  \/ DeleteThumbnail(a)

-----------------------------------------------------------------------------
(***************************************************************************)
(* Properties                                                              *)
(***************************************************************************)

\* Rows, files and the steps of the three kinds of process have their types.
TypeOK ==
  /\ rows \in [AttachmentId -> [state : {"none", "live", "tombstone"},
                                thumbnail : BOOLEAN]]
  /\ durable \in [AttachmentId -> [state : {"none", "live", "tombstone"},
                                   thumbnail : BOOLEAN]]
  /\ files \subseteq FileName /\ onDisk \subseteq FileName
  /\ aged \subseteq files
  /\ up \in [AttachmentId -> {"idle", "staged", "renamed", "synced", "recorded",
                              "thumbRenamed", "thumbSynced", "done", "ended"}]
  /\ del \in [AttachmentId ->
                [pc : {"idle", "read", "tombstoned", "unlinked"},
                 thumbnail : BOOLEAN]]
  /\ reclaim.pc \in {"idle", "listed", "files", "rows"}
  /\ reclaim.live \subseteq AttachmentId
  /\ reclaim.thumbnails \subseteq reclaim.live
  /\ reclaim.todo \subseteq FileName \cup AttachmentId
  /\ serving \in BOOLEAN
  /\ userDeleted \subseteq AttachmentId

\* No attachment is lost: what a live row names, its original and the
\* thumbnail it records, is in the directory, through crashes, power losses
\* and reclaim passes that race uploads, unless a user deleted it (a power
\* loss can undo the tombstone but not the unlink).
NoAttachmentLost ==
  \A a \in AttachmentId \ userDeleted :
    /\ Live(rows, a) => Original(a) \in files
    /\ a \in WithThumbnail(rows) => Thumbnail(a) \in files

\* The reclaim pass tombstones a row only when a user deleted it: the row of
\* an attachment nobody deleted never turns into a tombstone.
OnlyUsersDelete ==
  \A a \in AttachmentId : rows[a].state = "tombstone" => a \in userDeleted
=============================================================================
