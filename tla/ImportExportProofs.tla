------------------------- MODULE ImportExportProofs -------------------------
(***************************************************************************)
(* An import is written at most once, for any number of sessions, requests, *)
(* files and transactions around them.                                      *)
(***************************************************************************)
EXTENDS ImportExport, TLAPS

(* What a request is about, once it has found its session. *)
RequestsKnown ==
    /\ DOMAIN req = Proc
    /\ \A p \in Proc : req[p].pc # "idle" => req[p].session \in ImportId

(* A session that is not yet committed has not been written: this is what     *)
(* MarkImportSessionCommitted's WHERE clause relies on.                        *)
WrittenOnce ==
    /\ session \in [ImportId -> {"none", "staged", "committed", "deleted"}]
    /\ applied \in [ImportId -> {0, 1}]
    /\ \A s \in ImportId :
         /\ session[s] \in {"none", "staged"} => applied[s] = 0
         /\ session[s] = "committed" => applied[s] = 1

ImportInv == RequestsKnown /\ WrittenOnce

(* Ending a request and starting one keep what is known of the others. *)
LEMMA RequestStep ==
    ASSUME RequestsKnown, NEW p \in Proc, NEW r, req' = [req EXCEPT ![p] = r],
           r.pc # "idle" => r.session \in ImportId
    PROVE  RequestsKnown'
  BY DEF RequestsKnown

LEMMA IdlePc == Idle.pc = "idle"
  BY DEF Idle

(* A commit request, which is also a preview request up to a point. *)
LEMMA RequestOK ==
    ASSUME ImportInv, NEW p \in Proc, importCommitHandler(p)
    PROVE  ImportInv'
<1> USE DEF ImportInv, Goes
<1>1. CASE \E s \in ImportId : resolveStagedImportSession(p, s)
  <2>1. PICK s \in ImportId : resolveStagedImportSession(p, s)
    BY <1>1
  <2>2. PICK r : r = [pc |-> IF s \in expired THEN "expired" ELSE "resolved", session |-> s]
    OBVIOUS
  <2>3. req' = [req EXCEPT ![p] = r] /\ r.session \in ImportId
    BY <2>1, <2>2 DEF resolveStagedImportSession
  <2>4. WrittenOnce'
    BY <2>1 DEF resolveStagedImportSession, WrittenOnce
  <2> QED BY <2>3, <2>4, RequestStep
<1>2. CASE DropExpired(p) \/ DropMissing(p)
  <2>1. PICK s \in ImportId : s = req[p].session
    BY <1>2 DEF DropExpired, DropMissing, RequestsKnown
  <2>2. /\ session' = [session EXCEPT ![s] = "deleted"] /\ applied' = applied
        /\ req' = [req EXCEPT ![p] = Idle]
    BY <1>2, <2>1 DEF DropExpired, DropMissing, DeleteImportSession
  <2>3. WrittenOnce'
    BY <2>2 DEF WrittenOnce
  <2> QED BY <2>2, <2>3, RequestStep, IdlePc
<1>3. CASE classifyImportRows(p)
  <2>1. PICK s \in ImportId : s = req[p].session
    BY <1>3 DEF classifyImportRows, RequestsKnown
  <2>2. PICK r : r = Planned(req[p].session, Plan(staged[req[p].session]))
    OBVIOUS
  <2>3. req' = [req EXCEPT ![p] = r]
    BY <1>3, <2>2 DEF classifyImportRows, RequestsKnown
  <2>4. r.pc # "idle" => r.session \in ImportId
    BY <2>1, <2>2, IdlePc DEF Planned
  <2>5. WrittenOnce'
    BY <1>3 DEF classifyImportRows, WrittenOnce
  <2> QED BY <2>3, <2>4, <2>5, RequestStep
<1>4. CASE RequestEnds(p) \/ CommitDone(p)
  <2>1. req' = [req EXCEPT ![p] = Idle] /\ session' = session /\ applied' = applied
    BY <1>4 DEF RequestEnds, CommitDone
  <2>2. WrittenOnce'
    BY <2>1 DEF WrittenOnce
  <2> QED BY <2>1, <2>2, RequestStep, IdlePc
<1>5. CASE Commit(p)
  <2>1. PICK s \in ImportId : s = req[p].session
    BY <1>5 DEF Commit, RequestsKnown
  <2>2. /\ session[s] = "staged" /\ session' = [session EXCEPT ![s] = "committed"]
        /\ applied' = [applied EXCEPT ![s] = @ + 1]
    BY <1>5, <2>1 DEF Commit, MarkImportSessionCommitted
  <2>3. PICK r : r = [pc |-> "applied", session |-> s]
    OBVIOUS
  <2>4. req' = [req EXCEPT ![p] = r] /\ r.session \in ImportId
    BY <1>5, <2>1, <2>3 DEF Commit, RequestsKnown
  <2>5. applied[s] = 0
    BY <2>2 DEF WrittenOnce
  <2>6. applied' = [applied EXCEPT ![s] = 1]
    BY <2>2, <2>5 DEF WrittenOnce
  <2>7. WrittenOnce'
    BY <2>2, <2>6 DEF WrittenOnce
  <2> QED BY <2>4, <2>7, RequestStep
<1> QED
  BY <1>1, <1>2, <1>3, <1>4, <1>5 DEF importCommitHandler, importPreviewHandler

(* An upload, or a session that expires. *)
LEMMA UploadOK ==
    ASSUME ImportInv, NEW s \in ImportId, importNativeUploadHandler(s) \/ Expire(s)
    PROVE  ImportInv'
<1>1. req' = req /\ applied' = applied
  BY DEF importNativeUploadHandler, Stage, CreateImportSession, UploadFails, Expire
<1>2. \/ session' = session
      \/ session[s] = "none" /\ session' = [session EXCEPT ![s] = "staged"]
  BY DEF importNativeUploadHandler, Stage, CreateImportSession, UploadFails, Expire
<1> QED
  BY <1>1, <1>2 DEF ImportInv, RequestsKnown, WrittenOnce

LEMMA ImportInvNext == ImportInv /\ [ImportNext]_allVars => ImportInv'
<1> SUFFICES ASSUME ImportInv, [ImportNext]_allVars PROVE ImportInv'
  OBVIOUS
<1>1. CASE UNCHANGED importVars
  BY <1>1 DEF importVars, ImportInv, RequestsKnown, WrittenOnce
<1>2. CASE Restart
  BY <1>2, IdlePc DEF Restart, ImportInv, RequestsKnown, WrittenOnce
<1> QED
  BY <1>1, <1>2, RequestOK, UploadOK DEF ImportNext, UploadNext, RequestNext, allVars

(* However many commit requests of a session race, end early and are          *)
(* repeated, across restarts, its rows are written once at most, and a session *)
(* is marked committed only when they were.                                    *)
THEOREM ImportedOnceCorrect == ImportSpec => []ImportedOnce
<1>1. ImportInit => ImportInv
  BY IdlePc DEF ImportInit, ImportInv, RequestsKnown, WrittenOnce
<1>2. ImportInv => ImportedOnce
  BY DEF ImportInv, WrittenOnce, ImportedOnce
<1> QED
  BY <1>1, <1>2, ImportInvNext, PTL DEF ImportSpec

=============================================================================
