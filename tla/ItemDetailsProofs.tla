------------------------- MODULE ItemDetailsProofs -------------------------
(***************************************************************************)
(* Proofs about ItemDetails for any number of items, blocks, parts, labels, *)
(* edges, definitions and mutations.                                        *)
(*                                                                         *)
(* Every handler writes one row, or tombstones a set of rows, or nothing.   *)
(* What the invariants demand of a written row is the predicate Fits; each  *)
(* handler is shown to write only rows that fit.                            *)
(***************************************************************************)
EXTENDS ItemDetails, FiniteSetTheorems, TLAPS

Hanging == BlockId \cup PartId \cup EdgeId

(* What a live row e with the columns v has to satisfy among the others. *)
Fits(e, v) ==
    /\ v \in [FieldName -> Value]
    /\ v["table"] \in TablesOf(e)
    /\ e \in Hanging => v["item_id"] \in {i \in ItemId : Live(i)}
    /\ e \in BlockId => \A b \in BlockId \ {e} :
          ~(Live(b) /\ rows[b].val["table"] = v["table"]
                    /\ rows[b].val["item_id"] = v["item_id"])
    /\ e \in EdgeId => \A x \in EdgeId \ {e} :
          ~(Exists(x) /\ rows[x].val["item_id"] = v["item_id"]
                      /\ rows[x].val["label_id"] = v["label_id"])
    /\ e \in LabelId => \A k \in LabelId \ {e} : ~(Live(k) /\ rows[k].val["name"] = v["name"])
    /\ e \in PartId /\ v["table"] = "item_custom_fields" => Coherent(v)

----------------------------------------------------------------------------
(* The inductive invariant. *)

OneBlock ==
    \A b, c \in BlockId :
        /\ Live(b) /\ Live(c)
        /\ rows[b].val["table"] = rows[c].val["table"]
        /\ rows[b].val["item_id"] = rows[c].val["item_id"]
        => b = c

OneEdge ==
    \A x, y \in EdgeId :
        /\ Exists(x) /\ Exists(y)
        /\ rows[x].val["item_id"] = rows[y].val["item_id"]
        /\ rows[x].val["label_id"] = rows[y].val["label_id"]
        => x = y

RowsInv == TypeOK /\ NoOrphans /\ OneBlock /\ OneEdge /\ LabelNamesUnique /\ UnionCoherent

(* The field versions of parts and labels know of every change, and no      *)
(* column changed later than the row's version says.                         *)
VersionsKnown ==
    /\ \A e \in PartId \cup LabelId, f \in FieldName : changedAt[e][f] <= FieldVersion(e, f)
    /\ \A e \in EntityId, f \in FieldName : changedAt[e][f] <= rows[e].version

DetailsInv == RowsInv /\ VersionsKnown /\ NoLostUpdate

----------------------------------------------------------------------------
(* What a statement does to the rows. *)

(* It writes the row e, which is live afterwards with the columns v, *)
Written(e, v) ==
    /\ rows'[e].state = "live" /\ rows'[e].val = v
    /\ \A x \in EntityId : x # e => rows'[x] = rows[x]

(* or turns the rows S into tombstones. *)
Gone(S) ==
    \A x \in EntityId :
        /\ x \in S => rows'[x].state = "tombstoned" /\ rows'[x].val = rows[x].val
        /\ x \notin S => rows'[x] = rows[x]

(* The tables of the store that a statement writes have their types after it. *)
TablesType ==
    /\ changeSeq \in Nat
    /\ rows \in [EntityId -> Row]
    /\ fieldVersions \in [EntityId -> [FieldName -> Nat]]
    /\ changedAt \in [EntityId -> [FieldName -> Nat]]

(* The tables an id can have a row in. *)
LEMMA IdTables ==
    /\ \A e \in ItemId : TablesOf(e) = {"items"}
    /\ \A e \in BlockId : TablesOf(e) = BlockTable
    /\ \A e \in PartId : TablesOf(e) = PartTable
    /\ \A e \in LabelId : TablesOf(e) = {"labels"}
    /\ \A e \in EdgeId : TablesOf(e) = {"item_labels"}
    /\ \A e \in DefId : TablesOf(e) = {"custom_field_defs"}
  BY IdAssumption DEF TablesOf

(* Writing one row that fits keeps what the invariant says of the rows. *)
LEMMA WrittenOK ==
    ASSUME RowsInv, NEW e \in EntityId, NEW v, Written(e, v), Fits(e, v), StoreTypeOK'
    PROVE  RowsInv'
<1> USE DEF RowsInv, Written, Fits, Live, Exists, Hanging
<1>1. TypeOK'
  BY DEF TypeOK
<1>2. NoOrphans'
  BY EntityAssumption DEF NoOrphans
<1>3. OneBlock'
  BY EntityAssumption DEF OneBlock
<1>4. OneEdge'
  BY EntityAssumption DEF OneEdge
<1>5. LabelNamesUnique'
  BY EntityAssumption DEF LabelNamesUnique
<1>6. UnionCoherent'
  BY EntityAssumption DEF UnionCoherent
<1> QED
  BY <1>1, <1>2, <1>3, <1>4, <1>5, <1>6

(* Rows can go unless one is an item that something stays hung off. *)
LEMMA GoneOK ==
    ASSUME RowsInv, NEW S \in SUBSET EntityId, Gone(S), \A x \in S : Exists(x), StoreTypeOK',
           \A e \in Hanging \ S : Live(e) => rows[e].val["item_id"] \notin S
    PROVE  RowsInv'
<1> USE DEF RowsInv, Gone, Live, Exists, Hanging
<1>1. TypeOK'
  BY DEF TypeOK
<1>2. NoOrphans'
  BY EntityAssumption DEF NoOrphans
<1>3. OneBlock'
  BY EntityAssumption DEF OneBlock
<1>4. OneEdge'
  BY EntityAssumption DEF OneEdge
<1>5. LabelNamesUnique'
  BY EntityAssumption DEF LabelNamesUnique
<1>6. UnionCoherent'
  BY EntityAssumption DEF UnionCoherent, Coherent
<1> QED
  BY <1>1, <1>2, <1>3, <1>4, <1>5, <1>6

(* INSERT *)
LEMMA InsertStmt ==
    ASSUME TypeOK, VersionsKnown, NEW e \in EntityId, ~Exists(e), NEW table, NEW p,
           InsertRow(e, table, p), NewRow(table, p) \in [FieldName -> Value]
    PROVE  Written(e, NewRow(table, p)) /\ VersionsKnown' /\ TablesType'
<1> DEFINE r == Created(NewRow(table, p), changeSeq + 1)
<1>1. /\ changeSeq \in Nat /\ rows \in [EntityId -> Row]
      /\ fieldVersions \in [EntityId -> [FieldName -> Nat]]
      /\ changedAt \in [EntityId -> [FieldName -> Nat]]
  BY DEF TypeOK, StoreTypeOK
<1>2. changeSeq' = changeSeq + 1 /\ fieldVersions' = fieldVersions
      /\ StoreRows([rows EXCEPT ![e] = r])
  BY DEF InsertRow, AllocChangeSeq
<1>3. /\ r \in Row /\ r.state = "live" /\ r.version = 1 /\ r.val = NewRow(table, p)
  BY <1>1 DEF Created, Row
<1> HIDE DEF r
<1>4. rows' = [rows EXCEPT ![e] = r]
  BY <1>2 DEF StoreRows
<1>5. rows' \in [EntityId -> Row] /\ rows'[e] = r
      /\ \A x \in EntityId : x # e => rows'[x] = rows[x]
  BY <1>1, <1>3, <1>4
<1>6. /\ changedAt' \in [EntityId -> [FieldName -> Nat]]
      /\ \A x \in EntityId, f \in FieldName :
           changedAt'[x][f] = IF x = e THEN 1 ELSE changedAt[x][f]
  BY <1>1, <1>2, <1>3, <1>5 DEF StoreRows, Exists
<1>7. VersionsKnown'
  BY <1>1, <1>2, <1>3, <1>5, <1>6, EntityAssumption DEF VersionsKnown, FieldVersion, Row
<1> QED
  BY <1>1, <1>2, <1>3, <1>5, <1>6, <1>7 DEF Written, TablesType

(* Storing new rows: what becomes of changedAt. *)
Stored(new) ==
    /\ rows' = new
    /\ \A x \in EntityId, f \in FieldName :
         changedAt'[x][f] =
           IF /\ new[x].state # "absent"
              /\ rows[x].state = "absent" \/ new[x].val[f] # rows[x].val[f]
           THEN new[x].version ELSE changedAt[x][f]

(* changedAt moves in the columns that change, to the row's new version. *)
LEMMA StoreStmt ==
    ASSUME TypeOK, NEW new \in [EntityId -> Row], StoreRows(new)
    PROVE  Stored(new) /\ changedAt' \in [EntityId -> [FieldName -> Nat]]
  BY DEF TypeOK, StoreTypeOK, StoreRows, Stored, Row

(* UPDATE of a live row.  The columns that change are the columns whose      *)
(* versions are recorded, both at the row's new version.                      *)
LEMMA UpdateStmt ==
    ASSUME TypeOK, VersionsKnown, NEW e \in EntityId, Live(e),
           NEW v \in [FieldName -> Value], UpdateRow(e, v)
    PROVE  Written(e, v) /\ VersionsKnown' /\ TablesType'
<1> DEFINE r == Revised(rows[e], v, changeSeq + 1)
           new == [rows EXCEPT ![e] = r]
<1>1. /\ changeSeq \in Nat /\ rows \in [EntityId -> Row]
      /\ fieldVersions \in [EntityId -> [FieldName -> Nat]]
      /\ changedAt \in [EntityId -> [FieldName -> Nat]]
  BY DEF TypeOK, StoreTypeOK
<1>2. changeSeq' = changeSeq + 1 /\ StoreRows(new)
      /\ RecordFieldVersions(e, rows[e].version + 1, Diff(rows[e].val, v))
  BY DEF UpdateRow, AllocChangeSeq
<1>3. r \in Row /\ r.state = "live" /\ r.version = rows[e].version + 1 /\ r.val = v
  BY <1>1 DEF Revised, Row, Live
<1>4. /\ fieldVersions' \in [EntityId -> [FieldName -> Nat]]
      /\ \A x \in EntityId, f \in FieldName :
           fieldVersions'[x][f] = IF x = e /\ rows[e].val[f] # v[f]
                                  THEN rows[e].version + 1 ELSE fieldVersions[x][f]
  BY <1>1, <1>2 DEF RecordFieldVersions, Diff, Row
<1> HIDE DEF r
<1>5. new \in [EntityId -> Row] /\ new[e] = r
      /\ \A x \in EntityId : x # e => new[x] = rows[x]
  BY <1>1, <1>3
<1> HIDE DEF new
<1>6. Stored(new) /\ changedAt' \in [EntityId -> [FieldName -> Nat]]
  BY <1>2, <1>5, StoreStmt
<1>7. /\ rows' \in [EntityId -> Row] /\ rows'[e] = r
      /\ \A x \in EntityId : x # e => rows'[x] = rows[x]
      /\ \A x \in EntityId, f \in FieldName :
           changedAt'[x][f] = IF x = e /\ rows[e].val[f] # v[f]
                              THEN rows[e].version + 1 ELSE changedAt[x][f]
  BY <1>3, <1>5, <1>6 DEF Stored, Live
<1>8. VersionsKnown'
  <2>1. ASSUME NEW x \in EntityId, NEW f \in FieldName
        PROVE  changedAt'[x][f] <= rows'[x].version
    BY <1>1, <1>3, <1>7 DEF VersionsKnown, Row
  <2>2. ASSUME NEW x \in PartId \cup LabelId, NEW f \in FieldName
        PROVE  changedAt'[x][f] <= FieldVersion(x, f)'
    <3>1. x \in EntityId /\ rows[e].version \in Nat /\ fieldVersions[x][f] \in Nat
      BY <1>1, EntityAssumption DEF Row
    <3>2. changedAt[x][f] <= FieldVersion(x, f)
      BY DEF VersionsKnown
    <3>3. CASE x = e /\ rows[e].val[f] # v[f]
      BY <1>4, <1>7, <3>1, <3>3 DEF FieldVersion
    <3>4. CASE ~(x = e /\ rows[e].val[f] # v[f])
      BY <1>4, <1>7, <3>1, <3>2, <3>4 DEF FieldVersion
    <3> QED BY <3>3, <3>4
  <2> QED BY <2>1, <2>2 DEF VersionsKnown
<1> QED
  BY <1>1, <1>2, <1>3, <1>4, <1>6, <1>7, <1>8 DEF Written, TablesType

(* An update that records no field versions, of a definition; and bringing a *)
(* tombstone back.                                                            *)
LEMMA PlainStmt ==
    ASSUME TypeOK, VersionsKnown, NEW e \in DefId \cup EdgeId, Exists(e), NEW r \in Row,
           r.state = "live", r.version = rows[e].version + 1,
           changeSeq' = changeSeq + 1, UNCHANGED fieldVersions,
           NEW new \in [EntityId -> Row], new[e] = r,
           \A x \in EntityId : x # e => new[x] = rows[x],
           StoreRows(new)
    PROVE  Written(e, r.val) /\ VersionsKnown' /\ TablesType'
<1>1. /\ changeSeq \in Nat /\ rows \in [EntityId -> Row]
      /\ fieldVersions \in [EntityId -> [FieldName -> Nat]]
      /\ changedAt \in [EntityId -> [FieldName -> Nat]]
      /\ e \in EntityId
  BY EntityAssumption DEF TypeOK, StoreTypeOK
<1>2. Stored(new) /\ changedAt' \in [EntityId -> [FieldName -> Nat]]
  BY StoreStmt
<1>3. VersionsKnown'
  <2>1. ASSUME NEW x \in EntityId, NEW f \in FieldName
        PROVE  changedAt'[x][f] <= rows'[x].version
    <3>1. /\ rows[x].version \in Nat /\ new[x].version \in Nat
          /\ rows[x].version <= new[x].version /\ rows' = new
      <4>1. rows[x].version \in Nat /\ new[x].version \in Nat /\ rows' = new
        BY <1>1, <1>2 DEF Stored, Row
      <4>2. CASE x = e
        BY <4>1, <4>2
      <4>3. CASE x # e
        BY <4>1, <4>3
      <4> QED BY <4>1, <4>2, <4>3
    <3>2. changedAt[x][f] \in Nat /\ changedAt[x][f] <= rows[x].version
      BY <1>1 DEF VersionsKnown
    <3>3. changedAt'[x][f] \in {new[x].version, changedAt[x][f]}
      BY <1>2 DEF Stored
    <3> QED BY <3>1, <3>2, <3>3
  <2>2. ASSUME NEW x \in PartId \cup LabelId, NEW f \in FieldName
        PROVE  changedAt'[x][f] <= FieldVersion(x, f)'
    <3>1. x # e /\ x \in EntityId
      BY IdAssumption, EntityAssumption
    <3>2. new[x] = rows[x]
      BY <3>1
    <3>3. changedAt'[x][f] = changedAt[x][f]
      BY ONLY <1>2, <3>1, <3>2, f \in FieldName DEF Stored
    <3>4. FieldVersion(x, f)' = FieldVersion(x, f)
      BY ONLY UNCHANGED fieldVersions DEF FieldVersion
    <3>5. changedAt[x][f] <= FieldVersion(x, f)
      BY ONLY VersionsKnown, x \in PartId \cup LabelId, f \in FieldName DEF VersionsKnown
    <3> QED BY ONLY <3>3, <3>4, <3>5
  <2> QED BY <2>1, <2>2 DEF VersionsKnown
<1> QED
  BY <1>1, <1>2, <1>3 DEF Stored, Written, TablesType

(* DELETE writes tombstones. *)
LEMMA TombstoneStmt ==
    ASSUME TypeOK, VersionsKnown, NEW S \in SUBSET EntityId, \A x \in S : Exists(x),
           TombstoneRows(S)
    PROVE  Gone(S) /\ VersionsKnown' /\ TablesType'
<1> DEFINE new == [e \in EntityId |->
                     IF e \in S THEN Tombstoned(rows[e], changeSeq + 1) ELSE rows[e]]
<1>1. /\ changeSeq \in Nat /\ rows \in [EntityId -> Row]
      /\ fieldVersions \in [EntityId -> [FieldName -> Nat]]
      /\ changedAt \in [EntityId -> [FieldName -> Nat]]
  BY DEF TypeOK, StoreTypeOK
<1>2. changeSeq' = changeSeq + 1 /\ UNCHANGED fieldVersions /\ StoreRows(new)
  BY DEF TombstoneRows, AllocChangeSeq
<1>3. ASSUME NEW x \in EntityId
      PROVE  /\ new[x] \in Row /\ new[x].val = rows[x].val
             /\ rows[x].version <= new[x].version
             /\ x \in S => new[x].state = "tombstoned"
             /\ x \notin S => new[x] = rows[x]
  <2>1. rows[x] \in Row
    BY <1>1
  <2>2. Tombstoned(rows[x], changeSeq + 1) \in Row
        /\ Tombstoned(rows[x], changeSeq + 1).val = rows[x].val
        /\ Tombstoned(rows[x], changeSeq + 1).version = rows[x].version + 1
        /\ Tombstoned(rows[x], changeSeq + 1).state = "tombstoned"
    BY <1>1, <2>1 DEF Tombstoned, Row
  <2>3. rows[x].version \in Nat
    BY <2>1 DEF Row
  <2> QED BY <2>1, <2>2, <2>3
<1>4. new \in [EntityId -> Row]
  BY <1>3
<1> HIDE DEF new
<1>5. Stored(new) /\ changedAt' \in [EntityId -> [FieldName -> Nat]]
  BY <1>2, <1>4, StoreStmt
<1>6. /\ rows' = new
      /\ \A x \in EntityId, f \in FieldName : changedAt'[x][f] = changedAt[x][f]
  BY <1>3, <1>5 DEF Stored, Exists
<1>7. VersionsKnown'
  <2>1. ASSUME NEW x \in EntityId, NEW f \in FieldName
        PROVE  changedAt'[x][f] <= rows'[x].version
    <3>1. /\ rows[x].version \in Nat /\ rows'[x].version \in Nat
          /\ rows[x].version <= rows'[x].version /\ changedAt[x][f] \in Nat
          /\ changedAt'[x][f] = changedAt[x][f] /\ changedAt[x][f] <= rows[x].version
      BY <1>1, <1>3, <1>6 DEF VersionsKnown, Row
    <3> QED BY <3>1
  <2>2. ASSUME NEW x \in PartId \cup LabelId, NEW f \in FieldName
        PROVE  changedAt'[x][f] <= FieldVersion(x, f)'
    BY <1>2, <1>6, EntityAssumption DEF VersionsKnown, FieldVersion
  <2> QED BY <2>1, <2>2 DEF VersionsKnown
<1> QED
  BY <1>1, <1>2, <1>3, <1>4, <1>5, <1>6, <1>7 DEF Gone, TablesType

----------------------------------------------------------------------------
(* Whole steps.  The ledger side of a step is left to its handler. *)
LedgerType ==
    /\ ledger \in [MutationId -> {"none", "applied", "conflict"}]
    /\ conflicts \in SUBSET (MutationId \X ConflictField)
    /\ lostUpdates \in SUBSET (MutationId \X FieldName)

LedgerOK == LedgerType /\ NoLostUpdate

(* A REST transaction writes no ledger row. *)
LEMMA RestLedger ==
    ASSUME DetailsInv, Rest
    PROVE  LedgerOK'
  BY DEF DetailsInv, RowsInv, TypeOK, StoreTypeOK, Rest, LedgerOK, LedgerType, NoLostUpdate

(* A step that inserts one row that fits keeps the invariant. *)
LEMMA InsertStep ==
    ASSUME DetailsInv, LedgerOK', NEW e \in EntityId, ~Exists(e), NEW table, NEW p,
           InsertRow(e, table, p), Fits(e, NewRow(table, p))
    PROVE  DetailsInv'
<1>1. PICK v : v = NewRow(table, p)
  OBVIOUS
<1>2. v \in [FieldName -> Value]
  BY <1>1 DEF Fits
<1>3. Written(e, v) /\ VersionsKnown' /\ TablesType'
  BY <1>1, <1>2, InsertStmt DEF DetailsInv, RowsInv
<1>4. StoreTypeOK'
  BY <1>3 DEF TablesType, LedgerOK, LedgerType, StoreTypeOK
<1>5. RowsInv'
  BY <1>1, <1>3, <1>4, WrittenOK DEF DetailsInv
<1> QED
  BY <1>3, <1>5 DEF DetailsInv, LedgerOK

(* A step that updates one row, recording field versions, keeps it too. *)
LEMMA UpdateStep ==
    ASSUME DetailsInv, LedgerOK', NEW e \in EntityId, Live(e), NEW v, UpdateRow(e, v), Fits(e, v)
    PROVE  DetailsInv'
<1>1. v \in [FieldName -> Value]
  BY DEF Fits
<1>2. Written(e, v) /\ VersionsKnown' /\ TablesType'
  BY <1>1, UpdateStmt DEF DetailsInv, RowsInv
<1>3. StoreTypeOK'
  BY <1>2 DEF TablesType, LedgerOK, LedgerType, StoreTypeOK
<1>4. RowsInv'
  BY <1>2, <1>3, WrittenOK DEF DetailsInv
<1> QED
  BY <1>2, <1>4 DEF DetailsInv, LedgerOK

(* A step that tombstones rows and leaves nothing hung off them keeps it. *)
LEMMA TombstoneStep ==
    ASSUME DetailsInv, LedgerOK', NEW S \in SUBSET EntityId, \A x \in S : Live(x),
           TombstoneRows(S),
           \A e \in Hanging \ S : Live(e) => rows[e].val["item_id"] \notin S
    PROVE  DetailsInv'
<1>1. \A x \in S : Exists(x)
  BY DEF Live, Exists
<1>2. Gone(S) /\ VersionsKnown' /\ TablesType'
  BY <1>1, TombstoneStmt DEF DetailsInv, RowsInv
<1>3. StoreTypeOK'
  BY <1>2 DEF TablesType, LedgerOK, LedgerType, StoreTypeOK
<1>4. RowsInv'
  BY <1>1, <1>2, <1>3, GoneOK DEF DetailsInv
<1> QED
  BY <1>2, <1>4 DEF DetailsInv, LedgerOK

(* Nothing hangs off a row that is no item. *)
LEMMA DetailGone ==
    ASSUME DetailsInv, LedgerOK', NEW S \in SUBSET (EntityId \ ItemId), \A x \in S : Live(x),
           TombstoneRows(S)
    PROVE  DetailsInv'
<1>1. \A e \in Hanging \ S : Live(e) => rows[e].val["item_id"] \notin S
  BY DEF DetailsInv, RowsInv, NoOrphans, Hanging
<1> QED
  BY <1>1, TombstoneStep

(* A step that writes no row. *)
LEMMA NothingStep ==
    ASSUME DetailsInv, LedgerOK', NothingWritten
    PROVE  DetailsInv'
<1> USE DEF NothingWritten, Live, Exists
<1>1. TypeOK'
  BY DEF DetailsInv, RowsInv, TypeOK, StoreTypeOK, LedgerOK, LedgerType
<1>2. NoOrphans' /\ OneBlock' /\ OneEdge' /\ LabelNamesUnique' /\ UnionCoherent'
  BY DEF DetailsInv, RowsInv, NoOrphans, OneBlock, OneEdge, LabelNamesUnique, UnionCoherent, Coherent
<1>3. VersionsKnown'
  BY DEF DetailsInv, VersionsKnown, FieldVersion
<1> QED
  BY <1>1, <1>2, <1>3 DEF DetailsInv, RowsInv, LedgerOK

----------------------------------------------------------------------------
(* Patches. *)
IsPatch(p) == DOMAIN p \subseteq FieldName \ {"table"} /\ \A f \in DOMAIN p : p[f] \in Value

(* What a client sends for a block names two of the columns. *)
LEMMA BlockPatches ==
    ASSUME NEW p \in [item_id : ItemId, holder : Text]
    PROVE  IsPatch(p) /\ DOMAIN p = {"item_id", "holder"} /\ p.item_id \in ItemId
  BY EntityAssumption, FieldAssumption, ValueAssumption DEF IsPatch

(* The same for an identification, *)
LEMMA IdentificationPatches ==
    ASSUME NEW p \in IdentificationPatch
    PROVE  IsPatch(p) /\ DOMAIN p = {"item_id", "name"} /\ p.item_id \in ItemId
  BY EntityAssumption, FieldAssumption, ValueAssumption DEF IsPatch, IdentificationPatch, Name

(* for the value of a custom field, which is coherent, *)
LEMMA UnionPatches ==
    ASSUME NEW p \in UnionPatch
    PROVE  /\ IsPatch(p) /\ DOMAIN p = {"item_id"} \cup Union
           /\ p.item_id \in ItemId /\ Coherent(p)
<1>1. CASE p \in [item_id : ItemId, field_type : {"text"}, text_value : Text,
                  number_value : {Null}]
  BY <1>1, EntityAssumption, FieldAssumption, ValueAssumption, NullAssumption
     DEF IsPatch, Union, Coherent
<1>2. CASE p \in [item_id : ItemId, field_type : {"number"}, text_value : {Null},
                  number_value : Numeral]
  BY <1>2, EntityAssumption, FieldAssumption, ValueAssumption, NumeralAssumption, NullAssumption
     DEF IsPatch, Union, Coherent
<1> QED BY <1>1, <1>2 DEF UnionPatch

(* for a whole custom field, *)
LEMMA CustomFieldPatches ==
    ASSUME NEW p \in CustomFieldPatch
    PROVE  /\ IsPatch(p) /\ DOMAIN p = {"item_id", "field_def_id", "name"} \cup Union
           /\ p.item_id \in ItemId /\ Coherent(p)
<1>1. PICK u \in UnionPatch, d \in DefId \cup {Null}, n \in Name :
        p = [item_id |-> u.item_id, field_def_id |-> d, name |-> n, field_type |-> u.field_type,
             text_value |-> u.text_value, number_value |-> u.number_value]
  BY DEF CustomFieldPatch
<1>2. IsPatch(u) /\ DOMAIN u = {"item_id"} \cup Union /\ u.item_id \in ItemId /\ Coherent(u)
  BY UnionPatches
<1>3. d \in Value /\ n \in Value
  BY EntityAssumption, ValueAssumption, NullAssumption DEF Name
<1>4. DOMAIN p = {"item_id", "field_def_id", "name"} \cup Union
  BY <1>1 DEF Union
<1>5. Coherent(p)
  BY <1>1, <1>2 DEF Coherent
<1>6. /\ u["item_id"] \in Value /\ u["field_type"] \in Value /\ u["text_value"] \in Value
      /\ u["number_value"] \in Value
  BY <1>2 DEF IsPatch, Union
<1>7. IsPatch(p)
  BY <1>1, <1>3, <1>4, <1>6, FieldAssumption DEF IsPatch, Union
<1> QED BY <1>1, <1>2, <1>4, <1>5, <1>7

(* for a label, *)
LEMMA LabelPatches ==
    ASSUME NEW p \in LabelPatch
    PROVE  IsPatch(p) /\ DOMAIN p = {"name", "color"}
  BY FieldAssumption, ValueAssumption DEF IsPatch, LabelPatch, Name

(* and for items, definitions and edges. *)
LEMMA OtherPatches ==
    /\ \A p \in ItemPatch : IsPatch(p)
    /\ \A p \in DefPatch : IsPatch(p)
    /\ \A p \in [item_id : ItemId, label_id : LabelId] :
         IsPatch(p) /\ DOMAIN p = {"item_id", "label_id"}
  BY EntityAssumption, FieldAssumption, ValueAssumption DEF IsPatch, ItemPatch, DefPatch, Name

(* The columns of a new row. *)
LEMMA NewRows ==
    ASSUME NEW p, IsPatch(p), NEW table \in Value
    PROVE  /\ NewRow(table, p) \in [FieldName -> Value]
           /\ NewRow(table, p)["table"] = table
           /\ \A f \in DOMAIN p : NewRow(table, p)[f] = p[f]
  BY FieldAssumption, NullAssumption DEF NewRow, IsPatch

(* The columns of a merged row. *)
LEMMA Merged ==
    ASSUME NEW v \in [FieldName -> Value], NEW p, IsPatch(p), NEW A \in SUBSET DOMAIN p
    PROVE  /\ PushMerge(v, p, A) \in [FieldName -> Value]
           /\ PushMerge(v, p, A)["table"] = v["table"]
           /\ \A f \in FieldName : PushMerge(v, p, A)[f] = IF f \in A THEN p[f] ELSE v[f]
  BY FieldAssumption DEF PushMerge, IsPatch

----------------------------------------------------------------------------
(* The transactions. *)

(* A row that stays in its table, with its item and label, still fits. *)
LEMMA FitsAgain ==
    ASSUME RowsInv, NEW e \in EntityId, Live(e), NEW v \in [FieldName -> Value],
           v["table"] = rows[e].val["table"],
           e \in Hanging => v["item_id"] = rows[e].val["item_id"],
           e \in EdgeId => v["label_id"] = rows[e].val["label_id"],
           e \in LabelId => ~NameTaken(e, v["name"]),
           e \in PartId /\ v["table"] = "item_custom_fields" => Coherent(v)
    PROVE  Fits(e, v)
<1>1. v["table"] \in TablesOf(e)
  BY DEF RowsInv, TypeOK, Live, Exists
<1>2. e \in Hanging => v["item_id"] \in {i \in ItemId : Live(i)}
  BY DEF RowsInv, NoOrphans, Hanging
<1>3. e \in BlockId => \A b \in BlockId \ {e} :
          ~(Live(b) /\ rows[b].val["table"] = v["table"]
                    /\ rows[b].val["item_id"] = v["item_id"])
  BY DEF RowsInv, OneBlock, Hanging
<1>4. e \in EdgeId => \A x \in EdgeId \ {e} :
          ~(Exists(x) /\ rows[x].val["item_id"] = v["item_id"]
                      /\ rows[x].val["label_id"] = v["label_id"])
  BY DEF RowsInv, OneEdge, Hanging, Live, Exists
<1>5. e \in LabelId => \A k \in LabelId \ {e} : ~(Live(k) /\ rows[k].val["name"] = v["name"])
  BY DEF NameTaken, GetLabelByName
<1> QED
  BY <1>1, <1>2, <1>3, <1>4, <1>5 DEF Fits

(* A block is created only when the item is live and has none in the table. *)
LEMMA BlockCreated ==
    ASSUME DetailsInv, LedgerOK', NEW t \in BlockTable, NEW b \in BlockId, ~Exists(b),
           NEW p \in [item_id : ItemId, holder : Text], Live(p.item_id),
           LiveRows(BlockId, t, p.item_id) = {}, InsertRow(b, t, p)
    PROVE  DetailsInv'
<1>1. IsPatch(p) /\ DOMAIN p = {"item_id", "holder"} /\ p.item_id \in ItemId
  BY BlockPatches
<1>2. b \in EntityId /\ t \in TablesOf(b) /\ t \in Value
  BY IdTables, EntityAssumption, ValueAssumption
<1>3. PICK v : v = NewRow(t, p)
  OBVIOUS
<1>4. v \in [FieldName -> Value] /\ v["table"] = t /\ v["item_id"] = p.item_id
  BY <1>1, <1>2, <1>3, NewRows
<1>5. Fits(b, v)
  BY <1>1, <1>2, <1>4, IdAssumption DEF Fits, LiveRows, LiveOf
<1> QED
  BY <1>2, <1>3, <1>5, InsertStep

(* A block is updated where it was found. *)
LEMMA BlockUpdated ==
    ASSUME DetailsInv, LedgerOK', NEW t \in BlockTable,
           NEW p \in [item_id : ItemId, holder : Text],
           NEW b \in LiveRows(BlockId, t, p.item_id), NEW A \in SUBSET DOMAIN p,
           UpdateRow(b, PushMerge(rows[b].val, p, A))
    PROVE  DetailsInv'
<1>1. IsPatch(p)
  BY BlockPatches
<1>2. /\ b \in BlockId /\ b \in EntityId /\ Live(b)
      /\ rows[b].val["item_id"] = p.item_id
  BY EntityAssumption DEF LiveRows, LiveOf
<1>3. rows[b].val \in [FieldName -> Value]
  BY <1>2 DEF DetailsInv, RowsInv, TypeOK, StoreTypeOK, Row
<1>4. PICK v : v = PushMerge(rows[b].val, p, A)
  OBVIOUS
<1>5. /\ v \in [FieldName -> Value]
      /\ v["table"] = rows[b].val["table"]
      /\ v["item_id"] = rows[b].val["item_id"]
  BY <1>1, <1>2, <1>3, <1>4, Merged, FieldAssumption
<1>6. Fits(b, v)
  BY <1>2, <1>5, FitsAgain, IdAssumption DEF DetailsInv
<1>7. UpdateRow(b, v)
  BY <1>4
<1> QED
  BY <1>2, <1>6, <1>7, UpdateStep

(* A part is created only under a live item; a custom field with its union. *)
LEMMA PartCreated ==
    ASSUME DetailsInv, LedgerOK', NEW t \in PartTable, NEW c \in PartId, ~Exists(c),
           NEW p, IsPatch(p), "item_id" \in DOMAIN p, p["item_id"] \in ItemId,
           Live(p.item_id),
           t = "item_custom_fields" => Union \subseteq DOMAIN p /\ Coherent(p),
           InsertRow(c, t, p)
    PROVE  DetailsInv'
<1>2. c \in EntityId /\ t \in TablesOf(c) /\ t \in Value
  BY IdTables, EntityAssumption, ValueAssumption
<1>3. PICK v : v = NewRow(t, p)
  OBVIOUS
<1>4. v \in [FieldName -> Value] /\ v["table"] = t /\ \A f \in DOMAIN p : v[f] = p[f]
  BY <1>2, <1>3, NewRows
<1>5. t = "item_custom_fields" => Coherent(v)
  BY <1>4 DEF Coherent, Union
<1>6. Fits(c, v)
  BY <1>2, <1>4, <1>5, IdAssumption DEF Fits
<1> QED
  BY <1>2, <1>3, <1>6, InsertStep

(* A merge lets the columns of a custom field's union in or out together. *)
LEMMA PartUpdated ==
    ASSUME DetailsInv, LedgerOK', NEW t \in PartTable, NEW c \in PartId,
           NEW p, IsPatch(p), "item_id" \in DOMAIN p, p["item_id"] \in ItemId,
           c \in LiveRows(PartId, t, p.item_id), NEW A \in SUBSET DOMAIN p,
           t = "item_custom_fields" => \/ A \cap Union = {}
                                       \/ Union \subseteq A /\ Coherent(p),
           UpdateRow(c, PushMerge(rows[c].val, p, A))
    PROVE  DetailsInv'
<1>2. /\ c \in EntityId /\ Live(c)
      /\ rows[c].val["item_id"] = p["item_id"] /\ rows[c].val["table"] = t
  BY EntityAssumption DEF LiveRows, LiveOf
<1>3. rows[c].val \in [FieldName -> Value]
  BY <1>2 DEF DetailsInv, RowsInv, TypeOK, StoreTypeOK, Row
<1>4. PICK v : v = PushMerge(rows[c].val, p, A)
  OBVIOUS
<1>5. /\ v \in [FieldName -> Value]
      /\ v["table"] = rows[c].val["table"]
      /\ \A f \in FieldName : v[f] = IF f \in A THEN p[f] ELSE rows[c].val[f]
  BY <1>2, <1>3, <1>4, Merged
<1>6. v["item_id"] = rows[c].val["item_id"]
  BY <1>2, <1>5, FieldAssumption
<1>7. ASSUME t = "item_custom_fields" PROVE Coherent(v)
  <2>0. Union \subseteq FieldName
    BY FieldAssumption DEF Union
  <2>1. CASE A \cap Union = {}
    <3>1. Coherent(rows[c].val)
      BY <1>2, <1>7 DEF DetailsInv, RowsInv, UnionCoherent
    <3>2. \A f \in Union : v[f] = rows[c].val[f]
      BY <1>5, <2>0, <2>1
    <3> QED BY <3>1, <3>2 DEF Coherent, Union
  <2>2. CASE Union \subseteq A /\ Coherent(p)
    <3>1. \A f \in Union : v[f] = p[f]
      BY <1>5, <2>0, <2>2
    <3> QED BY <3>1, <2>2 DEF Coherent, Union
  <2> QED BY <1>7, <2>1, <2>2
<1>8. Fits(c, v)
  <2>1. c \notin EdgeId /\ c \notin LabelId
    BY IdAssumption
  <2>2. c \in PartId /\ v["table"] = "item_custom_fields" => Coherent(v)
    BY <1>2, <1>5, <1>7
  <2> QED BY <1>2, <1>5, <1>6, <2>1, <2>2, FitsAgain DEF DetailsInv
<1>9. UpdateRow(c, v)
  BY <1>4
<1> QED
  BY <1>2, <1>8, <1>9, UpdateStep

(* A label is created only under a name no other live label has, *)
LEMMA LabelCreated ==
    ASSUME DetailsInv, LedgerOK', NEW l \in LabelId, ~Exists(l), NEW p \in LabelPatch,
           ~NameTaken(l, p.name), InsertRow(l, "labels", p)
    PROVE  DetailsInv'
<1>1. IsPatch(p) /\ DOMAIN p = {"name", "color"}
  BY LabelPatches
<1>2. l \in EntityId /\ "labels" \in TablesOf(l) /\ "labels" \in Value
  BY IdTables, EntityAssumption, ValueAssumption
<1>3. PICK v : v = NewRow("labels", p)
  OBVIOUS
<1>4. v \in [FieldName -> Value] /\ v["table"] = "labels" /\ v["name"] = p.name
  BY <1>1, <1>2, <1>3, NewRows
<1>5. Fits(l, v)
  BY <1>2, <1>4, IdAssumption DEF Fits, NameTaken, GetLabelByName, Hanging
<1> QED
  BY <1>2, <1>3, <1>5, InsertStep

(* and updated to such a name only. *)
LEMMA LabelUpdated ==
    ASSUME DetailsInv, LedgerOK', NEW l \in LabelId, Live(l), NEW p \in LabelPatch,
           NEW A \in SUBSET DOMAIN p, NEW v, v = PushMerge(rows[l].val, p, A),
           ~NameTaken(l, v["name"]), UpdateRow(l, v)
    PROVE  DetailsInv'
<1>1. IsPatch(p) /\ DOMAIN p = {"name", "color"}
  BY LabelPatches
<1>2. l \in EntityId /\ l \notin Hanging /\ l \notin PartId /\ l \notin EdgeId
  BY EntityAssumption, IdAssumption DEF Hanging
<1>3. rows[l].val \in [FieldName -> Value]
  BY <1>2 DEF DetailsInv, RowsInv, TypeOK, StoreTypeOK, Row
<1>4. v \in [FieldName -> Value] /\ v["table"] = rows[l].val["table"]
  BY <1>1, <1>3, Merged
<1>5. Fits(l, v)
  BY <1>2, <1>4, FitsAgain DEF DetailsInv
<1> QED
  BY <1>2, <1>5, UpdateStep

(* A step that stores one row without recording field versions. *)
LEMMA PlainStep ==
    ASSUME DetailsInv, LedgerOK', NEW e \in DefId \cup EdgeId, Exists(e), NEW r \in Row,
           r.state = "live", r.version = rows[e].version + 1,
           changeSeq' = changeSeq + 1, UNCHANGED fieldVersions,
           NEW new \in [EntityId -> Row], new[e] = r,
           \A x \in EntityId : x # e => new[x] = rows[x],
           StoreRows(new), Fits(e, r.val)
    PROVE  DetailsInv'
<1>1. Written(e, r.val) /\ VersionsKnown' /\ TablesType'
  BY PlainStmt DEF DetailsInv, RowsInv
<1>2. StoreTypeOK'
  BY <1>1 DEF TablesType, LedgerOK, LedgerType, StoreTypeOK
<1>3. e \in EntityId
  BY EntityAssumption
<1>4. PICK v : v = r.val
  OBVIOUS
<1>5. RowsInv'
  BY <1>1, <1>2, <1>3, <1>4, WrittenOK DEF DetailsInv
<1> QED
  BY <1>1, <1>5 DEF DetailsInv, LedgerOK

(* Creating a definition touches nothing else. *)
LEMMA DefCreated ==
    ASSUME DetailsInv, LedgerOK', NEW d \in DefId, ~Exists(d), NEW p \in DefPatch,
           InsertCustomFieldDef(d, p)
    PROVE  DetailsInv'
<1>2. d \in EntityId /\ "custom_field_defs" \in TablesOf(d) /\ "custom_field_defs" \in Value
  BY IdTables, EntityAssumption, ValueAssumption
<1>3. PICK v : v = NewRow("custom_field_defs", p)
  OBVIOUS
<1>4. v \in [FieldName -> Value] /\ v["table"] = "custom_field_defs"
  BY <1>2, <1>3, NewRows, OtherPatches
<1>5. Fits(d, v)
  BY <1>2, <1>4, IdAssumption DEF Fits, Hanging
<1> QED
  BY <1>2, <1>3, <1>5, InsertStep DEF InsertCustomFieldDef

(* Nor does updating one, although it records no field versions. *)
LEMMA DefUpdated ==
    ASSUME DetailsInv, LedgerOK', NEW d \in DefId, Live(d), NEW p \in DefPatch,
           SetCustomFieldDef(d, p)
    PROVE  DetailsInv'
<1>1. d \in EntityId /\ d \notin Hanging /\ d \notin PartId /\ d \notin EdgeId /\ d \notin LabelId
  BY EntityAssumption, IdAssumption DEF Hanging
<1>2. rows[d] \in Row /\ rows \in [EntityId -> Row] /\ changeSeq \in Nat
  BY <1>1 DEF DetailsInv, RowsInv, TypeOK, StoreTypeOK
<1>3. rows[d].val \in [FieldName -> Value] /\ rows[d].version \in Nat
  BY <1>2 DEF Row
<1>4. PICK v : v = PushMerge(rows[d].val, p, DOMAIN p)
  OBVIOUS
<1>5. v \in [FieldName -> Value] /\ v["table"] = rows[d].val["table"]
  BY <1>3, <1>4, Merged, OtherPatches
<1>6. PICK r : r = Revised(rows[d], v, changeSeq + 1)
  OBVIOUS
<1>7. r \in Row /\ r.state = "live" /\ r.version = rows[d].version + 1 /\ r.val = v
  BY <1>2, <1>3, <1>5, <1>6 DEF Row, Revised, Live
<1>8. PICK new : new = [rows EXCEPT ![d] = r]
  OBVIOUS
<1>9. /\ new \in [EntityId -> Row] /\ new[d] = r
      /\ \A x \in EntityId : x # d => new[x] = rows[x]
  BY <1>1, <1>2, <1>7, <1>8
<1>10. StoreRows(new) /\ changeSeq' = changeSeq + 1 /\ UNCHANGED fieldVersions
  BY <1>4, <1>6, <1>8 DEF SetCustomFieldDef, AllocChangeSeq
<1>11. Fits(d, v)
  BY <1>1, <1>5, FitsAgain DEF DetailsInv
<1> QED
  BY <1>7, <1>9, <1>10, <1>11, PlainStep DEF Live, Exists

(* Attaching a label: nothing, the old edge revived, or a first edge. *)
LEMMA Attached ==
    ASSUME DetailsInv, LedgerOK', NEW x \in EdgeId, NEW i \in ItemId, NEW l \in LabelId,
           attachItemLabelTx(x, i, l)
    PROVE  DetailsInv'
<1>0. Live(i)
  BY DEF attachItemLabelTx, GetItem
<1>1. CASE NothingWritten
  BY <1>1, NothingStep
<1>2. CASE GetItemLabel(i, l) = {} /\ ReviveItemLabel(i, l)
  <2>1. EdgeOf(i, l) # {}
    <3>1. Cardinality({}) = 0
      BY FS_EmptySet
    <3> QED BY <1>2, <3>1 DEF ReviveItemLabel
  <2>2. PICK y \in EdgeId : y \in EdgeOf(i, l)
    BY <2>1 DEF EdgeOf
  <2>3. /\ y \in EntityId /\ Exists(y) /\ rows[y].val["item_id"] = i
        /\ rows[y].val["label_id"] = l /\ y \notin BlockId /\ y \notin PartId /\ y \notin LabelId
    BY <2>2, EntityAssumption, IdAssumption DEF EdgeOf
  <2>4. EdgeOf(i, l) = {y}
    BY <2>2, <2>3 DEF EdgeOf, DetailsInv, RowsInv, OneEdge
  <2>5. rows[y] \in Row /\ rows \in [EntityId -> Row] /\ changeSeq \in Nat
    BY <2>3 DEF DetailsInv, RowsInv, TypeOK, StoreTypeOK
  <2>6. PICK r : r = Revived(rows[y], changeSeq + 1)
    OBVIOUS
  <2>7. /\ r \in Row /\ r.state = "live" /\ r.version = rows[y].version + 1
        /\ r.val = rows[y].val
    BY <2>5, <2>6 DEF Row, Revived
  <2>8. PICK new : new = [e \in EntityId |->
          IF e \in EdgeOf(i, l) THEN Revived(rows[e], changeSeq + 1) ELSE rows[e]]
    OBVIOUS
  <2>9. /\ new \in [EntityId -> Row] /\ new[y] = r
        /\ \A e \in EntityId : e # y => new[e] = rows[e]
    BY <2>3, <2>4, <2>5, <2>6, <2>7, <2>8
  <2>10. StoreRows(new) /\ changeSeq' = changeSeq + 1 /\ UNCHANGED fieldVersions
    BY <1>2, <2>8 DEF ReviveItemLabel, AllocChangeSeq
  <2>11. Fits(y, rows[y].val)
    <3>1. rows[y].val \in [FieldName -> Value]
      BY <2>5 DEF Row
    <3>2. rows[y].val["table"] \in TablesOf(y)
      BY <2>3 DEF DetailsInv, RowsInv, TypeOK
    <3>3. \A z \in EdgeId \ {y} : ~(Exists(z) /\ rows[z].val["item_id"] = rows[y].val["item_id"]
                                       /\ rows[z].val["label_id"] = rows[y].val["label_id"])
      BY <2>3 DEF DetailsInv, RowsInv, OneEdge
    <3> QED BY <1>0, <2>3, <3>1, <3>2, <3>3 DEF Fits
  <2> QED
    BY <2>2, <2>3, <2>7, <2>9, <2>10, <2>11, PlainStep
<1>3. CASE EdgeOf(i, l) = {} /\ ~Exists(x) /\ CreateItemLabel(x, i, l)
  <2>1. x \in EntityId /\ "item_labels" \in TablesOf(x) /\ "item_labels" \in Value
    BY IdTables, EntityAssumption, ValueAssumption
  <2>2. PICK p : p = [item_id |-> i, label_id |-> l]
    OBVIOUS
  <2>3. p \in [item_id : ItemId, label_id : LabelId] /\ p["item_id"] = i /\ p["label_id"] = l
    BY <2>2
  <2>4. IsPatch(p) /\ DOMAIN p = {"item_id", "label_id"}
    BY <2>3, OtherPatches
  <2>5. PICK v : v = NewRow("item_labels", p)
    OBVIOUS
  <2>6. /\ v \in [FieldName -> Value] /\ v["table"] = "item_labels"
        /\ v["item_id"] = i /\ v["label_id"] = l
    BY <2>1, <2>3, <2>4, <2>5, NewRows
  <2>7. Fits(x, v)
    <3>1. x \notin BlockId /\ x \notin PartId /\ x \notin LabelId
      BY IdAssumption
    <3> QED BY <1>0, <1>3, <2>1, <2>6, <3>1 DEF Fits, EdgeOf
  <2>8. InsertRow(x, "item_labels", p)
    BY <1>3, <2>2 DEF CreateItemLabel
  <2> QED BY <1>3, <2>1, <2>5, <2>7, <2>8, InsertStep
<1> QED
  BY <1>1, <1>2, <1>3 DEF attachItemLabelTx

(* Deleting an item takes every live row that hangs off it. *)
LEMMA ItemGone ==
    ASSUME DetailsInv, LedgerOK', NEW i \in ItemId, DeleteItem(i)
    PROVE  DetailsInv'
<1>1. PICK S : S = {i} \cup DeleteItemWarranty(i) \cup DeleteItemSale(i) \cup DeleteItemPurchase(i)
         \cup CascadeDeleteItemIdentifications(i) \cup CascadeDeleteItemCustomFields(i)
         \cup CascadeDeleteItemLabels(i)
  OBVIOUS
<1>2. TombstoneRows(S) /\ Live(i)
  BY <1>1 DEF DeleteItem, GetItem
<1> USE DEF DeleteItemWarranty, DeleteItemSale, DeleteItemPurchase, GetItemWarranty,
            GetItemSale, GetItemPurchase, CascadeDeleteItemIdentifications,
            CascadeDeleteItemCustomFields, CascadeDeleteItemLabels, LiveRows, LiveOf
<1>3. S \in SUBSET EntityId /\ \A x \in S : Live(x)
  BY <1>1, <1>2, EntityAssumption
<1>4. ASSUME NEW e \in Hanging \ S, Live(e) PROVE rows[e].val["item_id"] \notin S
  <2>1. e \in EntityId /\ rows[e].val["item_id"] \in ItemId
    BY <1>4, EntityAssumption DEF DetailsInv, RowsInv, NoOrphans, Hanging
  <2>2. rows[e].val["table"] \in TablesOf(e)
    BY <1>4, <2>1 DEF DetailsInv, RowsInv, TypeOK, Live, Exists
  <2>3. rows[e].val["item_id"] # i
    <3>1. e \in BlockId => rows[e].val["table"] \in BlockTable
      BY <2>2, IdTables
    <3>2. e \in PartId => rows[e].val["table"] \in PartTable
      BY <2>2, IdTables
    <3> QED BY <1>1, <1>4, <3>1, <3>2 DEF BlockTable, PartTable, Hanging
  <2>4. S \cap ItemId = {i}
    BY <1>1, IdAssumption
  <2> QED BY <2>1, <2>3, <2>4
<1> QED
  BY <1>2, <1>3, <1>4, TombstoneStep

----------------------------------------------------------------------------
(* The REST handlers. *)

(* Creating, updating and deleting a block, whatever its table. *)
LEMMA BlockHandlers ==
    ASSUME DetailsInv, Rest, NEW t \in BlockTable, NEW p \in [item_id : ItemId, holder : Text]
    PROVE  /\ \A b \in Unused(BlockId) :
                Live(p.item_id) /\ LiveRows(BlockId, t, p.item_id) = {} /\ InsertRow(b, t, p)
                  => DetailsInv'
           /\ \A b \in LiveRows(BlockId, t, p.item_id) : UpdateColumns(b, p) => DetailsInv'
<1>0. LedgerOK'
  BY RestLedger
<1>1. ASSUME NEW b \in Unused(BlockId), Live(p.item_id), LiveRows(BlockId, t, p.item_id) = {},
             InsertRow(b, t, p)
      PROVE  DetailsInv'
  <2>1. b \in BlockId /\ ~Exists(b)
    BY DEF Unused
  <2> QED BY <1>0, <1>1, <2>1, BlockCreated
<1>2. ASSUME NEW b \in LiveRows(BlockId, t, p.item_id), UpdateColumns(b, p)
      PROVE  DetailsInv'
  <2>1. PICK A : A = DOMAIN p
    OBVIOUS
  <2>2. A \in SUBSET DOMAIN p /\ UpdateRow(b, PushMerge(rows[b].val, p, A))
    BY <1>2, <2>1 DEF UpdateColumns
  <2> QED BY <1>0, <2>2, BlockUpdated
<1> QED
  BY <1>1, <1>2

(* Deleting a block. *)
LEMMA BlockRowsGone ==
    ASSUME DetailsInv, Rest, NEW t, NEW i, TombstoneRows(LiveRows(BlockId, t, i))
    PROVE  DetailsInv'
<1>1. PICK S : S = LiveRows(BlockId, t, i)
  OBVIOUS
<1>2. TombstoneRows(S)
  BY <1>1
<1>3. S \in SUBSET (EntityId \ ItemId) /\ \A x \in S : Live(x)
  BY <1>1, EntityAssumption, IdAssumption DEF LiveRows, LiveOf
<1>4. LedgerOK'
  BY RestLedger
<1> QED
  BY <1>2, <1>3, <1>4, DetailGone

(* The REST handlers of the blocks keep the invariant, *)
LEMMA BlockNextOK ==
    ASSUME DetailsInv, BlockNext
    PROVE  DetailsInv'
<1>0. Rest
  BY DEF BlockNext, warrantyCreateHandler, warrantyUpdateHandler, warrantyDeleteHandler,
         saleCreateHandler, saleUpdateHandler, saleDeleteHandler, purchaseCreateHandler,
         purchaseUpdateHandler, purchaseDeleteHandler
<1>t. {"item_warranty", "item_sale", "item_purchase"} \subseteq BlockTable
  BY DEF BlockTable
<1>1. CASE warrantyCreateHandler \/ saleCreateHandler \/ purchaseCreateHandler
  <2>1. PICK t \in BlockTable, p \in [item_id : ItemId, holder : Text], b \in Unused(BlockId) :
          Live(p.item_id) /\ LiveRows(BlockId, t, p.item_id) = {} /\ InsertRow(b, t, p)
    BY <1>1, <1>t DEF warrantyCreateHandler, CreateWarranty, createWarrantyTx, WarrantyPatch,
        saleCreateHandler, CreateSale, createSaleTx, SalePatch,
        purchaseCreateHandler, CreatePurchase, createPurchaseTx, PurchasePatch,
        GetItem, GetItemWarranty, GetItemSale, GetItemPurchase,
        CreateItemWarranty, CreateItemSale, CreateItemPurchase
  <2> QED BY <1>0, <2>1, BlockHandlers
<1>2. CASE warrantyUpdateHandler \/ saleUpdateHandler \/ purchaseUpdateHandler
  <2>1. PICK t \in BlockTable, p \in [item_id : ItemId, holder : Text] :
          \E b \in LiveRows(BlockId, t, p.item_id) : UpdateColumns(b, p)
    BY <1>2, <1>t DEF warrantyUpdateHandler, UpdateWarranty, updateWarrantyTx, WarrantyPatch,
        saleUpdateHandler, UpdateSale, updateSaleTx, SalePatch,
        purchaseUpdateHandler, UpdatePurchase, updatePurchaseTx, PurchasePatch,
        GetItemWarranty, GetItemSale, GetItemPurchase,
        UpdateItemWarranty, UpdateItemSale, UpdateItemPurchase
  <2> QED BY <1>0, <2>1, BlockHandlers
<1>3. CASE warrantyDeleteHandler \/ saleDeleteHandler \/ purchaseDeleteHandler
  <2>1. PICK t \in BlockTable, i \in ItemId : TombstoneRows(LiveRows(BlockId, t, i))
    BY <1>3, <1>t DEF warrantyDeleteHandler, DeleteWarranty, DeleteItemWarranty, GetItemWarranty,
        saleDeleteHandler, DeleteSale, DeleteItemSale, GetItemSale,
        purchaseDeleteHandler, DeletePurchase, DeleteItemPurchase, GetItemPurchase
  <2> QED BY <1>0, <2>1, BlockRowsGone
<1> QED
  BY <1>1, <1>2, <1>3 DEF BlockNext

(* those of the identifications and custom fields, *)
LEMMA PartNextOK ==
    ASSUME DetailsInv, PartNext
    PROVE  DetailsInv'
<1>0. LedgerOK'
  <2>1. Rest
    BY DEF PartNext, identificationCreateHandler, identificationUpdateHandler,
           identificationDeleteHandler, itemCustomFieldCreateHandler,
           itemCustomFieldUpdateHandler, itemCustomFieldDeleteHandler
  <2> QED BY <2>1, RestLedger
<1>t. "item_identifications" \in PartTable /\ "item_custom_fields" \in PartTable
  BY DEF PartTable
<1>1. CASE identificationCreateHandler
  <2>1. PICK p \in IdentificationPatch, c \in PartId :
          ~Exists(c) /\ Live(p.item_id) /\ InsertRow(c, "item_identifications", p)
    BY <1>1 DEF identificationCreateHandler, CreateIdentification, createIdentificationTx,
        Unused, GetItem, CreateItemIdentification
  <2>2. IsPatch(p) /\ "item_id" \in DOMAIN p /\ p["item_id"] \in ItemId
    BY IdentificationPatches
  <2> QED BY <1>0, <1>t, <2>1, <2>2, PartCreated
<1>2. CASE itemCustomFieldCreateHandler
  <2>1. PICK p \in CustomFieldPatch, c \in PartId :
          ~Exists(c) /\ Live(p.item_id) /\ InsertRow(c, "item_custom_fields", p)
    BY <1>2 DEF itemCustomFieldCreateHandler, CreateItemCustomField, createItemCustomFieldTx,
        Unused, GetItem, InsertItemCustomField
  <2>2. /\ IsPatch(p) /\ "item_id" \in DOMAIN p /\ p["item_id"] \in ItemId
        /\ Union \subseteq DOMAIN p /\ Coherent(p)
    BY CustomFieldPatches
  <2> QED BY <1>0, <1>t, <2>1, <2>2, PartCreated
<1>3. CASE identificationUpdateHandler
  <2>1. PICK c \in PartId, p \in IdentificationPatch :
          c \in LiveRows(PartId, "item_identifications", p.item_id) /\ UpdateColumns(c, p)
    BY <1>3 DEF identificationUpdateHandler, UpdateIdentification, updateIdentificationTx,
        GetItemIdentification, UpdateItemIdentification
  <2>2. IsPatch(p) /\ "item_id" \in DOMAIN p /\ p["item_id"] \in ItemId
    BY IdentificationPatches
  <2>3. PICK A : A = DOMAIN p
    OBVIOUS
  <2>4. A \in SUBSET DOMAIN p /\ UpdateRow(c, PushMerge(rows[c].val, p, A))
    BY <2>1, <2>3 DEF UpdateColumns
  <2> QED BY <1>0, <1>t, <2>1, <2>2, <2>4, PartUpdated
<1>4. CASE itemCustomFieldUpdateHandler
  <2>1. PICK c \in PartId, p \in CustomFieldPatch :
          c \in LiveRows(PartId, "item_custom_fields", p.item_id) /\ UpdateColumns(c, p)
    BY <1>4 DEF itemCustomFieldUpdateHandler, UpdateItemCustomField, updateItemCustomFieldTx,
        GetItemCustomField, SetItemCustomField
  <2>2. /\ IsPatch(p) /\ "item_id" \in DOMAIN p /\ p["item_id"] \in ItemId
        /\ Union \subseteq DOMAIN p /\ Coherent(p)
    BY CustomFieldPatches
  <2>3. PICK A : A = DOMAIN p
    OBVIOUS
  <2>4. /\ A \in SUBSET DOMAIN p /\ UpdateRow(c, PushMerge(rows[c].val, p, A))
        /\ Union \subseteq A
    BY <2>1, <2>2, <2>3 DEF UpdateColumns
  <2> QED BY <1>0, <1>t, <2>1, <2>2, <2>4, PartUpdated
<1>5. CASE identificationDeleteHandler \/ itemCustomFieldDeleteHandler
  <2>1. PICK c \in PartId, i \in ItemId :
          \/ TombstoneRows({d \in {c} : d \in LiveRows(PartId, "item_identifications", i)})
          \/ TombstoneRows({d \in {c} : d \in LiveRows(PartId, "item_custom_fields", i)})
    BY <1>5
       DEF identificationDeleteHandler, DeleteIdentification, DeleteItemIdentification,
           GetItemIdentification, itemCustomFieldDeleteHandler, DeleteItemCustomField,
           TombstoneItemCustomField, GetItemCustomField
  <2>2. ASSUME NEW t, TombstoneRows({d \in {c} : d \in LiveRows(PartId, t, i)})
        PROVE  DetailsInv'
    <3>1. PICK S : S = {d \in {c} : d \in LiveRows(PartId, t, i)}
      OBVIOUS
    <3>2. TombstoneRows(S)
      BY <2>2, <3>1
    <3>3. S \in SUBSET (EntityId \ ItemId) /\ \A x \in S : Live(x)
      BY <3>1, EntityAssumption, IdAssumption DEF LiveRows, LiveOf
    <3> QED BY <1>0, <3>2, <3>3, DetailGone
  <2> QED BY <2>1, <2>2
<1> QED
  BY <1>1, <1>2, <1>3, <1>4, <1>5 DEF PartNext

(* those of the definitions, *)
LEMMA DefNextOK ==
    ASSUME DetailsInv, DefNext
    PROVE  DetailsInv'
<1>0. LedgerOK'
  <2>1. Rest
    BY DEF DefNext, customFieldDefCreateHandler, customFieldDefUpdateHandler,
           customFieldDefDeleteHandler
  <2> QED BY <2>1, RestLedger
<1>1. CASE customFieldDefCreateHandler
  BY <1>0, <1>1, DefCreated DEF customFieldDefCreateHandler, CreateCustomFieldDef,
      CreateDef, Unused
<1>2. CASE customFieldDefUpdateHandler
  BY <1>0, <1>2, DefUpdated DEF customFieldDefUpdateHandler, UpdateCustomFieldDef, UpdateDef,
      GetCustomFieldDef
<1>3. CASE customFieldDefDeleteHandler
  <2>1. PICK d \in DefId : Live(d) /\ TombstoneRows({d})
    BY <1>3 DEF customFieldDefDeleteHandler, DeleteDef, GetCustomFieldDef
  <2>2. {d} \in SUBSET (EntityId \ ItemId) /\ \A x \in {d} : Live(x)
    BY <2>1, EntityAssumption, IdAssumption
  <2> QED BY <1>0, <2>1, <2>2, DetailGone
<1> QED
  BY <1>1, <1>2, <1>3 DEF DefNext

(* those of the labels and their edges, *)
LEMMA LabelNextOK ==
    ASSUME DetailsInv, LabelNext
    PROVE  DetailsInv'
<1>0. LedgerOK'
  <2>1. Rest
    BY DEF LabelNext, labelCreateHandler, labelUpdateHandler, labelDeleteHandler,
           itemLabelAttachHandler, itemLabelDetachHandler
  <2> QED BY <2>1, RestLedger
<1>1. CASE labelCreateHandler
  BY <1>0, <1>1, LabelCreated DEF labelCreateHandler, CreateLabel, createLabelTx, Unused, InsertLabel
<1>2. CASE labelUpdateHandler
  <2>1. PICK l \in LabelId, p \in LabelPatch :
          Live(l) /\ ~NameTaken(l, p.name) /\ UpdateColumns(l, p)
    BY <1>2 DEF labelUpdateHandler, UpdateLabel, updateLabelTx, GetLabel, SetLabel
  <2>2. PICK A : A = DOMAIN p
    OBVIOUS
  <2>3. PICK v : v = PushMerge(rows[l].val, p, A)
    OBVIOUS
  <2>4. UpdateRow(l, v) /\ A \in SUBSET DOMAIN p
    BY <2>1, <2>2, <2>3 DEF UpdateColumns
  <2>5. v["name"] = p.name
    BY <2>2, <2>3, LabelPatches, FieldAssumption DEF PushMerge
  <2> QED BY <1>0, <2>1, <2>3, <2>4, <2>5, LabelUpdated
<1>3. CASE labelDeleteHandler
  <2>1. PICK l \in LabelId : Live(l) /\ TombstoneRows({l})
    BY <1>3 DEF labelDeleteHandler, DeleteLabel, GetLabel
  <2>2. {l} \in SUBSET (EntityId \ ItemId) /\ \A x \in {l} : Live(x)
    BY <2>1, EntityAssumption, IdAssumption
  <2> QED BY <1>0, <2>1, <2>2, DetailGone
<1>4. CASE itemLabelAttachHandler
  BY <1>0, <1>4, Attached DEF itemLabelAttachHandler, AttachLabel
<1>5. CASE itemLabelDetachHandler
  <2>1. PICK i \in ItemId, l \in LabelId : TombstoneRows(GetItemLabel(i, l))
    BY <1>5 DEF itemLabelDetachHandler, DetachLabel, detachItemLabelTx, DeleteItemLabel
  <2>2. PICK S : S = GetItemLabel(i, l)
    OBVIOUS
  <2>3. TombstoneRows(S)
    BY <2>1, <2>2
  <2>4. S \in SUBSET (EntityId \ ItemId) /\ \A x \in S : Live(x)
    BY <2>2, EntityAssumption, IdAssumption DEF GetItemLabel, EdgeOf
  <2> QED BY <1>0, <2>3, <2>4, DetailGone
<1> QED
  BY <1>1, <1>2, <1>3, <1>4, <1>5 DEF LabelNext

(* and those of the items. *)
LEMMA ItemNextOK ==
    ASSUME DetailsInv, ItemNext
    PROVE  DetailsInv'
<1>0. LedgerOK'
  <2>1. Rest
    BY DEF ItemNext, itemCreateHandler, itemDeleteHandler
  <2> QED BY <2>1, RestLedger
<1>1. CASE itemCreateHandler
  <2>1. PICK p \in ItemPatch, i \in ItemId : ~Exists(i) /\ InsertRow(i, "items", p)
    BY <1>1 DEF itemCreateHandler, CreateItem, Unused
  <2>2. i \in EntityId /\ "items" \in TablesOf(i) /\ "items" \in Value
    BY IdTables, EntityAssumption, ValueAssumption
  <2>3. PICK v : v = NewRow("items", p)
    OBVIOUS
  <2>4. v \in [FieldName -> Value] /\ v["table"] = "items"
    BY <2>2, <2>3, NewRows, OtherPatches
  <2>5. Fits(i, v)
    BY <2>2, <2>4, IdAssumption DEF Fits, Hanging
  <2> QED BY <1>0, <2>1, <2>2, <2>3, <2>5, InsertStep
<1>2. CASE itemDeleteHandler
  BY <1>0, <1>2, ItemGone DEF itemDeleteHandler
<1> QED
  BY <1>1, <1>2 DEF ItemNext

----------------------------------------------------------------------------
(* The push handlers. *)

(* A refused push writes the ledger and the conflict log only. *)
LEMMA ConflictStep ==
    ASSUME DetailsInv, NEW id \in MutationId, NEW fields \in SUBSET ConflictField,
           SettleConflict(id, fields)
    PROVE  DetailsInv'
<1>1. LedgerOK'
  BY DEF DetailsInv, RowsInv, TypeOK, StoreTypeOK, SettleConflict, Settle, LedgerOK, LedgerType,
         NoLostUpdate
<1>2. NothingWritten
  BY DEF SettleConflict, NothingWritten
<1> QED
  BY <1>1, <1>2, NothingStep

(* The names that handlers log conflicts under. *)
LEMMA ConflictFields ==
    /\ {EntityConflictField} \in SUBSET ConflictField
    /\ {"item_id"} \in SUBSET ConflictField
    /\ {"label_id"} \in SUBSET ConflictField
    /\ {"name"} \in SUBSET ConflictField
    /\ SUBSET FieldName \subseteq SUBSET ConflictField
  BY FieldAssumption DEF ConflictField

(* A push that is applied without conflicts. *)
LEMMA SettleLedger ==
    ASSUME DetailsInv, NEW id \in MutationId, Settle(id, TRUE, {}), UNCHANGED lostUpdates
    PROVE  LedgerOK'
  BY DEF DetailsInv, RowsInv, TypeOK, StoreTypeOK, Settle, LedgerOK, LedgerType, NoLostUpdate

(* The columns a push overwrites: those that it does not report and whose    *)
(* value it changes.                                                          *)
Lossless(e, base) ==
    \A f \in FieldName :
        rows'[e].val[f] # rows[e].val[f] /\ changedAt[e][f] > base => f = "holder"

(* A merge that overwrites nothing unseen adds nothing to lostUpdates. *)
LEMMA MergeLedger ==
    ASSUME DetailsInv, NEW id \in MutationId, NEW fields \in SUBSET ConflictField,
           Settle(id, TRUE, fields), NEW e, NEW base, Lossless(e, base), Audit(id, e, base)
    PROVE  LedgerOK'
<1>1. ledger' \in [MutationId -> {"none", "applied", "conflict"}]
  BY DEF DetailsInv, RowsInv, TypeOK, StoreTypeOK, Settle
<1>2. conflicts' \in SUBSET (MutationId \X ConflictField)
  BY DEF DetailsInv, RowsInv, TypeOK, StoreTypeOK, Settle
<1>3. PICK new : /\ new \in SUBSET FieldName /\ \A f \in new : f = "holder"
                 /\ lostUpdates' = lostUpdates \cup {<<id, f>> : f \in new}
  <2>1. PICK n : n = {g \in FieldName : /\ rows[e].state = "live"
                                        /\ rows'[e].val[g] # rows[e].val[g]
                                        /\ changedAt[e][g] > base}
    OBVIOUS
  <2> QED BY <2>1 DEF Lossless, Audit
<1>4. \A u \in {<<id, f>> : f \in new} : u \in MutationId \X FieldName /\ u[2] = "holder"
  BY <1>3
<1>5. lostUpdates \in SUBSET (MutationId \X FieldName) /\ \A u \in lostUpdates : u[2] = "holder"
  BY DEF DetailsInv, RowsInv, TypeOK, StoreTypeOK, NoLostUpdate
<1>6. lostUpdates' \in SUBSET (MutationId \X FieldName) /\ \A u \in lostUpdates' : u[2] = "holder"
  BY <1>3, <1>4, <1>5
<1> QED
  BY <1>1, <1>2, <1>6 DEF LedgerOK, LedgerType, NoLostUpdate

(* Of a part or label, every column that changed after the client's base is  *)
(* reported: if the base is not the row's version, its field version is later *)
(* than the base too.                                                         *)
LEMMA MergeLossless ==
    ASSUME DetailsInv, NEW e \in PartId \cup LabelId, NEW base \in Nat,
           NEW p, NEW conflict,
           rows[e].version # base => PushFieldLevelMergePolicy(e, base, DOMAIN p) \subseteq conflict,
           UpdateRow(e, PushMerge(rows[e].val, p, DOMAIN p \ conflict))
    PROVE  Lossless(e, base)
<1>1. /\ rows \in [EntityId -> Row] /\ fieldVersions \in [EntityId -> [FieldName -> Nat]]
      /\ changedAt \in [EntityId -> [FieldName -> Nat]] /\ e \in EntityId
  BY EntityAssumption DEF DetailsInv, RowsInv, TypeOK, StoreTypeOK
<1>2. PICK v : v = PushMerge(rows[e].val, p, DOMAIN p \ conflict)
  OBVIOUS
<1>3. rows'[e].val = v
  BY <1>1, <1>2 DEF UpdateRow, StoreRows, Revised
<1>4. SUFFICES ASSUME NEW f \in FieldName, rows'[e].val[f] # rows[e].val[f],
                      changedAt[e][f] > base
               PROVE  FALSE
  BY DEF Lossless
<1>5. f \in DOMAIN p \ conflict
  BY <1>2, <1>3, <1>4 DEF PushMerge
<1>6. /\ changedAt[e][f] \in Nat /\ fieldVersions[e][f] \in Nat /\ rows[e].version \in Nat
  BY <1>1 DEF Row
<1>7. changedAt[e][f] <= FieldVersion(e, f) /\ changedAt[e][f] <= rows[e].version
  BY <1>1 DEF DetailsInv, VersionsKnown
<1>8. rows[e].version # base
  BY <1>4, <1>6, <1>7
<1>9. FieldVersion(e, f) \in Nat
  BY <1>6 DEF FieldVersion
<1>10. FieldVersion(e, f) > base
  BY <1>4, <1>6, <1>7, <1>9
<1> QED
  BY <1>5, <1>8, <1>10 DEF PushFieldLevelMergePolicy

(* What a pushed mutation consists of. *)
LEMMA MutationFields ==
    ASSUME NEW e \in EntityId, NEW P, NEW m \in Mutations(e, P)
    PROVE  m.id \in MutationId /\ m.entity = e /\ m.base \in Nat /\ m.fields \in P
  BY DEF Mutations, Seen

(* Conflicts are about columns sent, and all that the policy finds. *)
LEMMA ConflictsNamed ==
    ASSUME NEW m, NEW e
    PROVE  /\ Conflicts(m, e) \subseteq DOMAIN m.fields
           /\ rows[e].version # m.base =>
                PushFieldLevelMergePolicy(m.entity, m.base, DOMAIN m.fields) \subseteq Conflicts(m, e)
  BY DEF Conflicts, PushFieldLevelMergePolicy

(* A pushed create inserts the row and settles the mutation. *)
LEMMA PushCreateLedger ==
    ASSUME DetailsInv, NEW m, m.id \in MutationId, NEW t, PushCreate(t, m)
    PROVE  LedgerOK' /\ InsertRow(m.entity, t, m.fields)
  BY SettleLedger DEF PushCreate

(* A pushed block is created, merged where it was found, or refused. *)
LEMMA PushBlockOK ==
    ASSUME DetailsInv, NEW t \in BlockTable, NEW e \in BlockId,
           NEW m \in Mutations(e, [item_id : ItemId, holder : Text]), PushBlock(t, m)
    PROVE  DetailsInv'
<1>1. /\ m.id \in MutationId /\ m.entity = e /\ m.base \in Nat
      /\ m.fields \in [item_id : ItemId, holder : Text]
  BY MutationFields, EntityAssumption
<1>2. \A F \in SUBSET ConflictField : SettleConflict(m.id, F) => DetailsInv'
  BY <1>1, ConflictStep
<1>3. ASSUME ~Exists(m.entity), Live(m.fields.item_id),
             LiveRows(BlockId, t, m.fields.item_id) = {}, PushCreate(t, m)
      PROVE  DetailsInv'
  BY <1>1, <1>3, PushCreateLedger, BlockCreated
<1>4. ASSUME NEW b \in LiveRows(BlockId, t, m.fields.item_id), MergeInto(b, m, Conflicts(m, b))
      PROVE  DetailsInv'
  <2>1. PICK A : A = DOMAIN m.fields \ Conflicts(m, b)
    OBVIOUS
  <2>2. A \in SUBSET DOMAIN m.fields /\ UpdateRow(b, PushMerge(rows[b].val, m.fields, A))
    BY <1>4, <2>1 DEF MergeInto
  <2>3. IsPatch(m.fields) /\ DOMAIN m.fields = {"item_id", "holder"}
    BY <1>1, BlockPatches
  <2>4. b \in EntityId /\ rows[b].val["item_id"] = m.fields["item_id"] /\ rows \in [EntityId -> Row]
    BY EntityAssumption DEF LiveRows, LiveOf, DetailsInv, RowsInv, TypeOK, StoreTypeOK
  <2>5. PICK v : v = PushMerge(rows[b].val, m.fields, A)
    OBVIOUS
  <2>6. rows'[b].val = v
    BY <2>2, <2>4, <2>5 DEF UpdateRow, StoreRows, Revised
  <2>7. \A f \in FieldName : f # "holder" => v[f] = rows[b].val[f]
    BY <2>2, <2>3, <2>4, <2>5 DEF PushMerge
  <2>8. PICK base : base = IF m.entity = b THEN m.base ELSE 0
    OBVIOUS
  <2>9. Lossless(b, base) /\ Audit(m.id, b, base)
    BY <1>4, <2>6, <2>7, <2>8 DEF Lossless, MergeInto, AuditRow
  <2>10. PICK F : F = Conflicts(m, b)
    OBVIOUS
  <2>11. F \in SUBSET ConflictField /\ Settle(m.id, TRUE, F)
    BY <1>4, <2>3, <2>10, ConflictsNamed, ConflictFields DEF MergeInto, IsPatch
  <2>12. LedgerOK'
    BY <1>1, <2>9, <2>11, MergeLedger
  <2> QED BY <1>1, <2>2, <2>12, BlockUpdated
<1> QED
  BY <1>2, <1>3, <1>4, ConflictFields DEF PushBlock

(* The three push handlers of the blocks. *)
LEMMA PushBlockNextOK ==
    ASSUME DetailsInv, PushBlockNext
    PROVE  DetailsInv'
<1>1. PICK b \in BlockId, t \in BlockTable :
        \E m \in Mutations(b, [item_id : ItemId, holder : Text]) : PushBlock(t, m)
  BY DEF PushBlockNext, WarrantyPatch, SalePatch, PurchasePatch, PushWarrantyBlock, PushSoldToBlock,
         PushPurchasedFromBlock, BlockTable
<1> QED
  BY <1>1, PushBlockOK

(* A merge into a part or a label loses nothing. *)
LEMMA MergeIntoLedger ==
    ASSUME DetailsInv, NEW m, m.id \in MutationId, m.base \in Nat,
           m.entity \in PartId \cup LabelId, NEW conflict \in SUBSET FieldName,
           Conflicts(m, m.entity) \subseteq conflict, MergeInto(m.entity, m, conflict)
    PROVE  LedgerOK'
<1>1. rows[m.entity].version # m.base =>
        PushFieldLevelMergePolicy(m.entity, m.base, DOMAIN m.fields) \subseteq conflict
  BY ConflictsNamed
<1>2. PICK e, base, p : e = m.entity /\ base = m.base /\ p = m.fields
  OBVIOUS
<1>3. UpdateRow(e, PushMerge(rows[e].val, p, DOMAIN p \ conflict))
  BY <1>2 DEF MergeInto
<1>4. Lossless(e, base)
  BY <1>1, <1>2, <1>3, MergeLossless
<1>5. Audit(m.id, e, base) /\ Settle(m.id, TRUE, conflict)
  BY <1>2 DEF MergeInto, AuditRow
<1>6. conflict \in SUBSET ConflictField
  BY ConflictFields
<1> QED
  BY <1>4, <1>5, <1>6, MergeLedger

(* A pushed part is created, merged with its union whole, or refused. *)
LEMMA PushPartOK ==
    ASSUME DetailsInv, NEW t \in PartTable, NEW c \in PartId, NEW P,
           NEW m \in Mutations(c, P), IsPatch(m.fields), "item_id" \in DOMAIN m.fields,
           m.fields["item_id"] \in ItemId, NEW conflict \in SUBSET DOMAIN m.fields,
           Conflicts(m, c) \subseteq conflict,
           t = "item_custom_fields" /\ m.base = 0 =>
               Union \subseteq DOMAIN m.fields /\ Coherent(m.fields),
           t = "item_custom_fields" /\ m.base > 0 =>
               \/ (DOMAIN m.fields \ conflict) \cap Union = {}
               \/ Union \subseteq DOMAIN m.fields \ conflict /\ Coherent(m.fields),
           PushPart(t, m, conflict)
    PROVE  DetailsInv'
<1>1. m.id \in MutationId /\ m.entity = c /\ m.base \in Nat
  BY MutationFields, EntityAssumption
<1>2. \A F \in SUBSET ConflictField : SettleConflict(m.id, F) => DetailsInv'
  BY <1>1, ConflictStep
<1>3. ASSUME m.base = 0, ~Exists(c), Live(m.fields.item_id), PushCreate(t, m)
      PROVE  DetailsInv'
  <2>1. PICK p : p = m.fields
    OBVIOUS
  <2>2. LedgerOK' /\ InsertRow(c, t, p)
    BY <1>1, <1>3, <2>1, PushCreateLedger
  <2> QED BY <1>3, <2>1, <2>2, PartCreated
<1>4. ASSUME m.base > 0, c \in LiveRows(PartId, t, m.fields.item_id), MergeInto(c, m, conflict)
      PROVE  DetailsInv'
  <2>1. conflict \in SUBSET FieldName
    BY DEF IsPatch
  <2>2. LedgerOK'
    BY <1>1, <1>4, <2>1, MergeIntoLedger
  <2>3. PICK p, A : p = m.fields /\ A = DOMAIN m.fields \ conflict
    OBVIOUS
  <2>4. A \in SUBSET DOMAIN p /\ UpdateRow(c, PushMerge(rows[c].val, p, A))
    BY <1>4, <2>3 DEF MergeInto
  <2> QED BY <1>4, <2>2, <2>3, <2>4, PartUpdated
<1> QED
  BY <1>1, <1>2, <1>3, <1>4, ConflictFields DEF PushPart

(* The push handlers of the parts: their patches have what PushPartOK asks. *)
LEMMA PushPartNextOK ==
    ASSUME DetailsInv, PushPartNext
    PROVE  DetailsInv'
<1>t. "item_identifications" \in PartTable /\ "item_custom_fields" \in PartTable
  BY DEF PartTable
<1>1. ASSUME NEW c \in PartId, NEW m \in Mutations(c, IdentificationPatch),
             PushItemIdentification(m)
      PROVE  DetailsInv'
  <2>1. m.fields \in IdentificationPatch /\ m.entity = c
    BY MutationFields, EntityAssumption
  <2>2. IsPatch(m.fields) /\ "item_id" \in DOMAIN m.fields /\ m.fields["item_id"] \in ItemId
    BY <2>1, IdentificationPatches
  <2>3. PICK F : F = Conflicts(m, c)
    OBVIOUS
  <2>4. F \in SUBSET DOMAIN m.fields
    BY <2>3, ConflictsNamed
  <2>5. PushPart("item_identifications", m, F)
    BY <1>1, <2>1, <2>3 DEF PushItemIdentification
  <2> QED BY <1>t, <2>2, <2>3, <2>4, <2>5, PushPartOK
<1>2. ASSUME NEW c \in PartId, NEW P, NEW m \in Mutations(c, P), PushItemCustomField(m),
             IsPatch(m.fields), "item_id" \in DOMAIN m.fields, m.fields["item_id"] \in ItemId,
             \/ Union \subseteq DOMAIN m.fields /\ Coherent(m.fields)
             \/ DOMAIN m.fields \cap Union = {} /\ m.base > 0
      PROVE  DetailsInv'
  <2>1. m.entity = c /\ m.base \in Nat
    BY MutationFields, EntityAssumption
  <2>2. PICK F : F = UnionRule(DOMAIN m.fields, Conflicts(m, c))
    OBVIOUS
  <2>3. F \in SUBSET DOMAIN m.fields /\ Conflicts(m, c) \subseteq F
    BY <2>2, ConflictsNamed DEF UnionRule
  <2>4. \/ (DOMAIN m.fields \ F) \cap Union = {}
        \/ Union \subseteq DOMAIN m.fields \ F /\ Coherent(m.fields)
    BY <1>2, <2>2 DEF UnionRule
  <2>5. PushPart("item_custom_fields", m, F)
    BY <1>2, <2>1, <2>2 DEF PushItemCustomField
  <2>6. m.base = 0 => Union \subseteq DOMAIN m.fields /\ Coherent(m.fields)
    BY ONLY <1>2, <2>1
  <2> QED BY ONLY DetailsInv, <1>t, <1>2, <2>3, <2>4, <2>5, <2>6, PushPartOK
<1>3. ASSUME NEW c \in PartId, NEW m \in Mutations(c, CustomFieldPatch), PushItemCustomField(m)
      PROVE  DetailsInv'
  <2>1. m.fields \in CustomFieldPatch
    BY MutationFields, EntityAssumption
  <2>2. /\ IsPatch(m.fields) /\ "item_id" \in DOMAIN m.fields /\ m.fields["item_id"] \in ItemId
        /\ Union \subseteq DOMAIN m.fields /\ Coherent(m.fields)
    BY <2>1, CustomFieldPatches
  <2> QED BY <1>2, <1>3, <2>2
<1>4. ASSUME NEW c \in PartId, NEW m \in Mutations(c, IdentificationPatch \cup UnionPatch),
             m.base > 0, PushItemCustomField(m)
      PROVE  DetailsInv'
  <2>1. m.fields \in IdentificationPatch \cup UnionPatch
    BY MutationFields, EntityAssumption
  <2>2. CASE m.fields \in UnionPatch
    <3>1. /\ IsPatch(m.fields) /\ "item_id" \in DOMAIN m.fields /\ m.fields["item_id"] \in ItemId
          /\ Union \subseteq DOMAIN m.fields /\ Coherent(m.fields)
      BY <2>2, UnionPatches
    <3> QED BY <1>2, <1>4, <3>1
  <2>3. CASE m.fields \in IdentificationPatch
    <3>1. /\ IsPatch(m.fields) /\ "item_id" \in DOMAIN m.fields /\ m.fields["item_id"] \in ItemId
          /\ DOMAIN m.fields = {"item_id", "name"}
      BY <2>3, IdentificationPatches
    <3>2. DOMAIN m.fields \cap Union = {}
      BY <3>1 DEF Union
    <3> QED BY <1>2, <1>4, <3>1, <3>2
  <2> QED BY <2>1, <2>2, <2>3
<1> QED
  BY <1>1, <1>3, <1>4 DEF PushPartNext

(* A pushed label is created or merged under a free name, or refused. *)
LEMMA PushLabelOK ==
    ASSUME DetailsInv, NEW l \in LabelId, NEW m \in Mutations(l, LabelPatch), PushLabel(m)
    PROVE  DetailsInv'
<1>1. m.id \in MutationId /\ m.entity = l /\ m.base \in Nat /\ m.fields \in LabelPatch
  BY MutationFields, EntityAssumption
<1>2. \A F \in SUBSET ConflictField : SettleConflict(m.id, F) => DetailsInv'
  BY <1>1, ConflictStep
<1>3. PICK F : F = Conflicts(m, l)
  OBVIOUS
<1>4. F \in SUBSET DOMAIN m.fields /\ F \in SUBSET FieldName /\ F \in SUBSET ConflictField
  <2>1. F \in SUBSET DOMAIN m.fields
    BY ONLY <1>3, ConflictsNamed
  <2>2. IsPatch(m.fields)
    BY ONLY <1>1, LabelPatches
  <2>3. F \in SUBSET FieldName
    BY ONLY <2>1, <2>2 DEF IsPatch
  <2> QED BY ONLY <2>1, <2>3, ConflictFields
<1>5. F \cup {"name"} \in SUBSET ConflictField
  BY <1>4, ConflictFields
<1>6. ASSUME ~Exists(l), ~NameTaken(l, m.fields.name), PushCreate("labels", m)
      PROVE  DetailsInv'
  BY <1>1, <1>6, PushCreateLedger, LabelCreated
<1>7. PICK v : v = PushMerge(rows[l].val, m.fields, DOMAIN m.fields \ F)
  OBVIOUS
<1>8. ASSUME Live(l), ~NameTaken(l, v["name"]), MergeInto(l, m, F)
      PROVE  DetailsInv'
  <2>1. LedgerOK'
    BY <1>1, <1>3, <1>4, <1>8, MergeIntoLedger
  <2>2. PICK p, A : p = m.fields /\ A = DOMAIN m.fields \ F
    OBVIOUS
  <2>3. A \in SUBSET DOMAIN p /\ v = PushMerge(rows[l].val, p, A) /\ UpdateRow(l, v)
    BY <1>7, <1>8, <2>2 DEF MergeInto
  <2> QED BY <1>1, <1>8, <2>1, <2>2, <2>3, LabelUpdated
<1> QED
  BY <1>1, <1>2, <1>3, <1>4, <1>5, <1>6, <1>7, <1>8, ConflictFields DEF PushLabel

(* A pushed edge is attached, detached, or refused. *)
LEMMA PushItemLabelOK ==
    ASSUME DetailsInv, NEW x \in EdgeId,
           NEW m \in Mutations(x, [item_id : ItemId, label_id : LabelId]),
           PushItemLabel(m) \/ PushItemLabelDelete(m)
    PROVE  DetailsInv'
<1>1. /\ m.id \in MutationId /\ m.entity = x
      /\ m.fields \in [item_id : ItemId, label_id : LabelId]
  BY MutationFields, EntityAssumption
<1>2. \A F \in SUBSET ConflictField : SettleConflict(m.id, F) => DetailsInv'
  BY <1>1, ConflictStep
<1>3. PICK i \in ItemId, l \in LabelId : i = m.fields.item_id /\ l = m.fields.label_id
  BY <1>1
<1>4. ASSUME Settle(m.id, TRUE, {}), UNCHANGED lostUpdates, attachItemLabelTx(x, i, l)
      PROVE  DetailsInv'
  BY <1>1, <1>4, SettleLedger, Attached
<1>5. ASSUME Settle(m.id, TRUE, {}), UNCHANGED lostUpdates, TombstoneRows(GetItemLabel(i, l))
      PROVE  DetailsInv'
  <2>1. PICK S : S = GetItemLabel(i, l)
    OBVIOUS
  <2>2. TombstoneRows(S)
    BY <1>5, <2>1
  <2>3. S \in SUBSET (EntityId \ ItemId) /\ \A y \in S : Live(y)
    BY <2>1, EntityAssumption, IdAssumption DEF GetItemLabel, EdgeOf
  <2> QED BY <1>1, <1>5, <2>2, <2>3, SettleLedger, DetailGone
<1>6. CASE PushItemLabel(m)
  BY <1>1, <1>2, <1>3, <1>4, <1>6, ConflictFields DEF PushItemLabel
<1>7. CASE PushItemLabelDelete(m)
  BY <1>1, <1>2, <1>3, <1>5, <1>7, ConflictFields DEF PushItemLabelDelete
<1> QED
  BY <1>6, <1>7

----------------------------------------------------------------------------
(* The invariant. *)

(* The invariant holds of the empty store, *)
LEMMA InitOK == Init => DetailsInv
<1> SUFFICES ASSUME Init PROVE DetailsInv
  OBVIOUS
<1>1. StoreTypeOK
  BY NullAssumption DEF Init, StoreInit, StoreTypeOK, AbsentRow, Row
<1>2. \A e \in EntityId : ~Exists(e) /\ ~Live(e)
  BY DEF Init, StoreInit, AbsentRow, Exists, Live
<1>3. RowsInv
  BY <1>1, <1>2, EntityAssumption DEF RowsInv, TypeOK, NoOrphans, OneBlock, OneEdge, LabelNamesUnique,
      UnionCoherent
<1>4. VersionsKnown
  BY EntityAssumption DEF Init, StoreInit, AbsentRow, VersionsKnown, FieldVersion
<1> QED
  BY <1>3, <1>4 DEF DetailsInv, NoLostUpdate, Init, StoreInit

(* and every step keeps it. *)
LEMMA NextOK == DetailsInv /\ [Next]_vars => DetailsInv'
<1> SUFFICES ASSUME DetailsInv, [Next]_vars PROVE DetailsInv'
  OBVIOUS
<1>1. CASE UNCHANGED vars
  <2>1. LedgerOK'
    BY <1>1, RestLedger DEF vars, storeVars, Rest
  <2>2. NothingWritten
    BY <1>1 DEF vars, storeVars, NothingWritten
  <2> QED BY <2>1, <2>2, NothingStep
<1>2. CASE PushLabelNext
  BY <1>2, PushLabelOK, PushItemLabelOK DEF PushLabelNext
<1> QED
  BY <1>1, <1>2, ItemNextOK, BlockNextOK, PartNextOK, LabelNextOK, DefNextOK, PushBlockNextOK,
     PushPartNextOK DEF Next

(* The invariant holds for any numbers of items, blocks, parts, labels and     *)
(* mutations, under every interleaving of REST transactions and pushes.        *)
THEOREM DetailsInvariant == Spec => []DetailsInv
  BY InitOK, NextOK, PTL DEF Spec

(* The store has its types, and a row's table is one of those its id is for.  *)
THEOREM TypeOKCorrect == Spec => []TypeOK
<1>1. DetailsInv => TypeOK
  BY DEF DetailsInv, RowsInv
<1> QED BY <1>1, DetailsInvariant, PTL

(* DeleteItem's cascade over the six tables is complete, and no REST create,  *)
(* attach, revive or push hangs a row off an item that is gone.               *)
THEOREM NoOrphansCorrect == Spec => []NoOrphans
<1>1. DetailsInv => NoOrphans
  BY DEF DetailsInv, RowsInv
<1> QED BY <1>1, DetailsInvariant, PTL

(* GetItemWarranty, GetItemSale and GetItemPurchase, which read one row, never *)
(* have two to choose from.                                                    *)
THEOREM OneBlockPerItemCorrect == Spec => []OneBlockPerItem
<1>1. ASSUME DetailsInv, NEW i \in ItemId, NEW t \in BlockTable
      PROVE  Cardinality(LiveRows(BlockId, t, i)) <= 1
  <2>1. CASE LiveRows(BlockId, t, i) = {}
    <3>1. Cardinality({}) = 0
      BY FS_EmptySet
    <3> QED BY <2>1, <3>1
  <2>2. ASSUME NEW b \in LiveRows(BlockId, t, i)
        PROVE  Cardinality(LiveRows(BlockId, t, i)) <= 1
    <3>1. LiveRows(BlockId, t, i) = {b}
      BY <1>1, <2>2 DEF DetailsInv, RowsInv, OneBlock, LiveRows, LiveOf
    <3>2. Cardinality({b}) = 1
      BY FS_Singleton
    <3> QED BY <3>1, <3>2
  <2> QED BY <2>1, <2>2
<1>2. DetailsInv => OneBlockPerItem
  BY <1>1 DEF OneBlockPerItem
<1> QED BY <1>2, DetailsInvariant, PTL

(* attachItemLabelTx never makes a second edge row of an item and a label,     *)
(* however often the label is detached, attached and pushed.                   *)
THEOREM OneEdgePerPairCorrect == Spec => []OneEdgePerPair
<1>1. ASSUME DetailsInv, NEW i \in ItemId, NEW l \in LabelId
      PROVE  Cardinality(EdgeOf(i, l)) <= 1
  <2>1. CASE EdgeOf(i, l) = {}
    <3>1. Cardinality({}) = 0
      BY FS_EmptySet
    <3> QED BY <2>1, <3>1
  <2>2. ASSUME NEW x \in EdgeOf(i, l)
        PROVE  Cardinality(EdgeOf(i, l)) <= 1
    <3>1. EdgeOf(i, l) = {x}
      BY <1>1, <2>2 DEF DetailsInv, RowsInv, OneEdge, EdgeOf
    <3>2. Cardinality({x}) = 1
      BY FS_Singleton
    <3> QED BY <3>1, <3>2
  <2> QED BY <2>1, <2>2
<1>2. DetailsInv => OneEdgePerPair
  BY <1>1 DEF OneEdgePerPair
<1> QED BY <1>2, DetailsInvariant, PTL

(* GetLabelByName alone keeps the live labels' names apart.                    *)
THEOREM LabelNamesUniqueCorrect == Spec => []LabelNamesUnique
<1>1. DetailsInv => LabelNamesUnique
  BY DEF DetailsInv, RowsInv
<1> QED BY <1>1, DetailsInvariant, PTL

(* No merge, of however many columns and conflicts, takes a custom field's     *)
(* value apart: pushCustomFieldValueUnionRule is enough.                       *)
THEOREM UnionCoherentCorrect == Spec => []UnionCoherent
<1>1. DetailsInv => UnionCoherent
  BY DEF DetailsInv, RowsInv
<1> QED BY <1>1, DetailsInvariant, PTL

(* Pushes to identifications, custom fields and labels overwrite no unseen     *)
(* change: recorded field versions are never behind the columns they are of.   *)
THEOREM NoLostUpdateCorrect == Spec => []NoLostUpdate
<1>1. DetailsInv => NoLostUpdate
  BY DEF DetailsInv
<1> QED BY <1>1, DetailsInvariant, PTL
============================================================================
