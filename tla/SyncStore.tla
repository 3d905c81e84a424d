----------------------------- MODULE SyncStore -----------------------------
(***************************************************************************)
(* The per-group synchronisation state every repository of                 *)
(* server/internal/storage writes through: the change_seq counter of the   *)
(* group, the versioned rows of its mergeable tables, the field_versions    *)
(* ledger, the mutation ledger and the conflict log.                        *)
(*                                                                         *)
(* All writers share one SQLite write connection opened with               *)
(* _txlock=immediate, so a transaction is one step of this model.  A        *)
(* transaction that returns an error is rolled back and is no step at all.  *)
(*                                                                         *)
(* The module declares the state and the operators; the modules that        *)
(* extend it (Inventory, ...) hold the transactions.                        *)
(***************************************************************************)
EXTENDS Integers

CONSTANTS
    EntityId,    \* ids of the rows of the mergeable tables
    FieldName,   \* their column names
    Value,       \* column values, Null among them
    Null,        \* the value of a column the row's table does not have
    MutationId,  \* client-chosen ids of pushed mutations
    MaxSeq       \* bound on the transactions that allocate a change_seq

ASSUME NullAssumption == Null \in Value
ASSUME MaxSeqAssumption == MaxSeq \in Nat

VARIABLES
    changeSeq,      \* groups.change_seq_counter
    rows,           \* id -> row: state, version, change_seq, column values
    fieldVersions,  \* id -> column -> recorded version, 0 when untracked
    ledger,         \* mutation id -> outcome of the mutations row, or "none"
    conflicts,      \* <<mutation id, field name>> of the conflicts rows
    changedAt,      \* history: row version at which a column last changed
    lostUpdates     \* history: <<mutation id, column>> silently overwritten

storeVars == <<changeSeq, rows, fieldVersions, ledger, conflicts, changedAt, lostUpdates>>

(* Conflicts that are not about one column of the row. *)
EntityConflictField == "_entity"
ConflictField == FieldName \cup {EntityConflictField, "item_id", "label_id", "short_code"}

Row == [state : {"absent", "live", "tombstoned"},
        version : Nat, seq : Nat, val : [FieldName -> Value]]

AbsentRow == [state |-> "absent", version |-> 0, seq |-> 0,
              val |-> [f \in FieldName |-> Null]]

StoreTypeOK ==
    /\ changeSeq \in Nat
    /\ rows \in [EntityId -> Row]
    /\ fieldVersions \in [EntityId -> [FieldName -> Nat]]
    /\ ledger \in [MutationId -> {"none", "applied", "conflict"}]
    /\ conflicts \in SUBSET (MutationId \X ConflictField)
    /\ changedAt \in [EntityId -> [FieldName -> Nat]]
    /\ lostUpdates \in SUBSET (MutationId \X FieldName)

StoreInit ==
    /\ changeSeq = 0
    /\ rows = [e \in EntityId |-> AbsentRow]
    /\ fieldVersions = [e \in EntityId |-> [f \in FieldName |-> 0]]
    /\ ledger = [m \in MutationId |-> "none"]
    /\ conflicts = {}
    /\ changedAt = [e \in EntityId |-> [f \in FieldName |-> 0]]
    /\ lostUpdates = {}

Exists(e) == rows[e].state # "absent"
Live(e) == rows[e].state = "live"

----------------------------------------------------------------------------
(* Row writes. *)

(* Mutant: a retry within the transaction does not advance the counter. *)
AllocChangeSeq_Once(n) ==
    /\ changeSeq + 1 <= MaxSeq
    /\ changeSeq' = changeSeq + 1

(* db.AllocChangeSeq, called n times in the transaction. *)
AllocChangeSeq(n) ==
    /\ changeSeq + n <= MaxSeq
    /\ changeSeq' = changeSeq + n

(* Mutant: the tombstone keeps the row's old change_seq. *)
Tombstoned_KeepsSeq(r, s) ==
    [state |-> "tombstoned", version |-> r.version + 1, seq |-> r.seq, val |-> r.val]

(* INSERT: version 1.  UPDATE and tombstone: version + 1. *)
Created(v, s) == [state |-> "live", version |-> 1, seq |-> s, val |-> v]
Revised(r, v, s) == [state |-> r.state, version |-> r.version + 1, seq |-> s, val |-> v]
Tombstoned(r, s) == [state |-> "tombstoned", version |-> r.version + 1, seq |-> s, val |-> r.val]

(* Commits the new contents of the tables.  changedAt is derived from the  *)
(* values before and after, not from what the code records.                 *)
StoreRows(new) ==
    /\ rows' = new
    /\ changedAt' =
         [e \in EntityId |-> [f \in FieldName |->
            IF /\ new[e].state # "absent"
               /\ rows[e].state = "absent" \/ new[e].val[f] # rows[e].val[f]
            THEN new[e].version ELSE changedAt[e][f]]]

(* The columns the diffXxxFieldVersions functions report. *)
Diff(before, after) == {f \in FieldName : before[f] # after[f]}

(* Mutant: records the version the row had before the write. *)
RecordFieldVersions_Before(e, version, changed) ==
    fieldVersions' = [fieldVersions EXCEPT ![e] =
        [f \in FieldName |-> IF f \in changed THEN version - 1 ELSE fieldVersions[e][f]]]

RecordFieldVersions(e, version, changed) ==
    fieldVersions' = [fieldVersions EXCEPT ![e] =
        [f \in FieldName |-> IF f \in changed THEN version ELSE fieldVersions[e][f]]]

(* An optimistic whole-row update and the field versions it records. *)
UpdateRow(e, v) ==
    /\ AllocChangeSeq(1)
    /\ StoreRows([rows EXCEPT ![e] = Revised(rows[e], v, changeSeq + 1)])
    /\ RecordFieldVersions(e, rows[e].version + 1, Diff(rows[e].val, v))

----------------------------------------------------------------------------
(* The push side: merge policy and settling a mutation. *)

(* An untracked column counts as last written at version 1. *)
FieldVersion(e, f) == IF fieldVersions[e][f] = 0 THEN 1 ELSE fieldVersions[e][f]

(* Mutant: tolerates one write after the base version. *)
PushFieldLevelMergePolicy_OffByOne(e, base, names) ==
    {f \in names : FieldVersion(e, f) > base + 1}

PushFieldLevelMergePolicy(e, base, names) == {f \in names : FieldVersion(e, f) > base}

(* The policy is consulted only when the base version is not the current one. *)
PushConflicts(e, base, names) ==
    IF rows[e].version = base THEN {} ELSE PushFieldLevelMergePolicy(e, base, names)

PushMerge(v, patch, allowed) ==
    [f \in FieldName |-> IF f \in allowed THEN patch[f] ELSE v[f]]

(* The tail of ApplyMutation: one ledger row, one conflict row per field.  *)
Settle(id, applied, fields) ==
    /\ ledger' = [ledger EXCEPT ![id] = IF applied THEN "applied" ELSE "conflict"]
    /\ conflicts' = conflicts \cup {<<id, f>> : f \in fields}

(* The columns of e this step overwrites although they changed after base. *)
Audit(id, e, base) ==
    lostUpdates' = lostUpdates \cup
        {<<id, f>> : f \in {g \in FieldName : /\ rows[e].state = "live"
                                              /\ rows'[e].val[g] # rows[e].val[g]
                                              /\ changedAt[e][g] > base}}

(* A conflicting mutation writes the ledger and the conflict log only. *)
SettleConflict(id, fields) ==
    /\ Settle(id, FALSE, fields)
    /\ UNCHANGED <<changeSeq, rows, fieldVersions, changedAt, lostUpdates>>

----------------------------------------------------------------------------
(* Properties every extending module keeps. *)

(* change_seq order: every stored row carries a sequence number the group's *)
(* counter has already passed (db.AllocChangeSeq before every row write),    *)
(* and no row's version outruns the transactions of its group.               *)
SeqOrder ==
    \A e \in EntityId : Exists(e) =>
        /\ rows[e].seq \in 1..changeSeq
        /\ rows[e].version \in 1..changeSeq

(* The ledger is final: once a mutation id is settled, no later transaction *)
(* changes its outcome or logs another conflict for it (ApplyMutation looks  *)
(* the id up before it does anything else).                                  *)
SettledOnce ==
    [][\A id \in MutationId : ledger[id] # "none" =>
          /\ ledger'[id] = ledger[id]
          /\ \A f \in ConflictField : <<id, f>> \in conflicts' => <<id, f>> \in conflicts]_storeVars

============================================================================
