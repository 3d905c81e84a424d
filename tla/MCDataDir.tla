----------------------------- MODULE MCDataDir -----------------------------
(***************************************************************************)
(* One image attachment, two backups of which one is kept, two restores.   *)
(* Two bounds keep the product small: a second backup is taken only with   *)
(* nothing else going on (it is there for the retention), and a second     *)
(* restore only to repair one that was cut off, up to the next start.      *)
(***************************************************************************)
EXTENDS DataDir

CONSTANT a1

Quiet ==
  /\ reclaim.pc = "idle"
  /\ \A a \in AttachmentId : up[a] \in {"idle", "done"} /\ del[a].pc = "idle"
  /\ aged = {} /\ rows = durable /\ files = onDisk

SecondBackupQuiet ==
  published = 0 \/ (published = 1 /\ backup.pc \in {"idle", "published"})
    \/ (restores = 0 /\ Quiet)

SecondRestoreRepairs ==
  restores < 2 \/ (~serving /\ (torn \/ restore.pc = "idle"))

Instance == SecondBackupQuiet /\ SecondRestoreRepairs
=============================================================================
