-------------------------- MODULE InventoryProofs --------------------------
(***************************************************************************)
(* Machine-checked proofs about Inventory, for every number of items,      *)
(* locations, mutations and transactions.                                   *)
(***************************************************************************)
EXTENDS Inventory, TLAPS

USE DEF EntityConflictField

----------------------------------------------------------------------------
(* Values. *)

(* Wrapping addition stays inside the int64 range. *)
LEMMA AddQuantityType ==
    ASSUME NEW a \in Quantity, NEW b \in Quantity
    PROVE  AddQuantity(a, b) \in Quantity
<1>1. QuantityLimit \in Nat /\ QuantityLimit > 0
  BY QuantityAssumption
<1>2. a \in Int /\ b \in Int
  BY <1>1 DEF Quantity
<1>3. (a + b + QuantityLimit) % (2 * QuantityLimit) \in 0 .. (2 * QuantityLimit) - 1
  BY <1>1, <1>2
<1> QED
  BY <1>1, <1>3 DEF AddQuantity, Quantity

(* A patch is a function from some of the columns of S to values of theirs. *)
LEMMA PatchType ==
    ASSUME NEW S, NEW p \in Patch(S)
    PROVE  /\ DOMAIN p \subseteq S
           /\ p \in [DOMAIN p -> Value]
           /\ \A f \in DOMAIN p : p[f] \in ColumnValue(f)
<1>1. PICK D \in SUBSET S : p \in {q \in [D -> Value] : \A f \in D : q[f] \in ColumnValue(f)}
  BY DEF Patch
<1> QED
  BY <1>1

(* The row a create builds from a patch has the columns of its table. *)
LEMMA FromPatchType ==
    ASSUME NEW S \in {ItemField, LocationField}, NEW p \in Patch(S)
    PROVE  FromPatch(S, p) \in RowValue(S)
<1>1. /\ DOMAIN p \subseteq S
      /\ \A f \in DOMAIN p : p[f] \in ColumnValue(f)
  BY PatchType
<1>2. \A f \in FieldName : ColumnValue(f) \subseteq Value /\ ZeroValue(f) \in ColumnValue(f)
  BY ValueAssumption, QuantityAssumption, FieldAssumption
     DEF ColumnValue, ZeroValue, Quantity
<1>3. S \subseteq FieldName
  BY FieldAssumption DEF ItemField, LocationField
<1>4. FromPatch(S, p) \in [FieldName -> Value]
  BY <1>1, <1>2, <1>3, NullAssumption DEF FromPatch
<1>5. \A f \in FieldName :
        IF f \in S THEN FromPatch(S, p)[f] \in ColumnValue(f) ELSE FromPatch(S, p)[f] = Null
  BY <1>1, <1>2, <1>3 DEF FromPatch
<1> QED
  BY <1>4, <1>5 DEF RowValue

(* Merging a patch into a row keeps the row's columns. *)
LEMMA PushMergeType ==
    ASSUME NEW S \in {ItemField, LocationField}, NEW p \in Patch(S),
           NEW v \in RowValue(S), NEW A \in SUBSET DOMAIN p
    PROVE  PushMerge(v, p, A) \in RowValue(S)
<1>1. /\ DOMAIN p \subseteq S
      /\ \A f \in DOMAIN p : p[f] \in ColumnValue(f)
  BY PatchType
<1>2. \A f \in FieldName : ColumnValue(f) \subseteq Value
  BY ValueAssumption, FieldAssumption DEF ColumnValue
<1>3. S \subseteq FieldName
  BY FieldAssumption DEF ItemField, LocationField
<1>4. /\ v \in [FieldName -> Value]
      /\ \A f \in FieldName : IF f \in S THEN v[f] \in ColumnValue(f) ELSE v[f] = Null
  BY DEF RowValue
<1>5. PushMerge(v, p, A) \in [FieldName -> Value]
  BY <1>1, <1>2, <1>3, <1>4 DEF PushMerge
<1>6. \A f \in FieldName :
        IF f \in S THEN PushMerge(v, p, A)[f] \in ColumnValue(f)
                   ELSE PushMerge(v, p, A)[f] = Null
  BY <1>1, <1>3, <1>4 DEF PushMerge
<1> QED
  BY <1>5, <1>6 DEF RowValue

----------------------------------------------------------------------------
(* What one transaction does to one row. *)

Columns(e) == IF e \in ItemId THEN ItemField ELSE LocationField

Untouched(e) ==
    /\ rows'[e] = rows[e]
    /\ fieldVersions'[e] = fieldVersions[e]
    /\ changedAt'[e] = changedAt[e]

Inserted(e) ==
    /\ rows[e].state = "absent"
    /\ \E v \in RowValue(Columns(e)), s \in changeSeq + 1 .. changeSeq' : rows'[e] = Created(v, s)
    /\ fieldVersions'[e] = fieldVersions[e]
    /\ changedAt'[e] = [f \in FieldName |-> 1]

(* v replaces the row's values and every column that differs is recorded,   *)
(* except those in X, which are not recorded.                                *)
Rewritten(e, X) ==
    /\ rows[e].state = "live"
    /\ \E v \in RowValue(Columns(e)), s \in changeSeq + 1 .. changeSeq' :
          /\ rows'[e] = Revised(rows[e], v, s)
          /\ fieldVersions'[e] = [f \in FieldName |->
                IF v[f] # rows[e].val[f] /\ f \notin X THEN rows[e].version + 1
                ELSE fieldVersions[e][f]]
          /\ changedAt'[e] = [f \in FieldName |->
                IF v[f] # rows[e].val[f] THEN rows[e].version + 1 ELSE changedAt[e][f]]

Removed(e) ==
    /\ rows[e].state = "live"
    /\ \E s \in changeSeq + 1 .. changeSeq' : rows'[e] = Tombstoned(rows[e], s)
    /\ fieldVersions'[e] = fieldVersions[e]
    /\ changedAt'[e] = changedAt[e]

RowStep ==
    /\ changeSeq' \in Nat
    /\ changeSeq' >= changeSeq
    /\ rows' \in [EntityId -> Row]
    /\ fieldVersions' \in [EntityId -> [FieldName -> Nat]]
    /\ changedAt' \in [EntityId -> [FieldName -> Nat]]
    /\ \A e \in EntityId :
          Untouched(e) \/ Inserted(e) \/ Rewritten(e, {}) \/ Rewritten(e, Reassigned) \/ Removed(e)

(* The rows of a created entity. *)
LEMMA CreateRowStep ==
    ASSUME TypeOK, NEW e \in EntityId, ~Exists(e), NEW v \in RowValue(Columns(e)),
           NEW n \in Nat \ {0}, AllocChangeSeq(n),
           StoreRows([rows EXCEPT ![e] = Created(v, changeSeq + n)]),
           UNCHANGED fieldVersions
    PROVE  RowStep
<1> DEFINE new == [rows EXCEPT ![e] = Created(v, changeSeq + n)]
<1>1. /\ changeSeq \in Nat /\ rows \in [EntityId -> Row]
      /\ fieldVersions \in [EntityId -> [FieldName -> Nat]]
      /\ changedAt \in [EntityId -> [FieldName -> Nat]]
  BY DEF TypeOK, StoreTypeOK
<1>2. changeSeq' = changeSeq + n
  BY DEF AllocChangeSeq
<1>3. Created(v, changeSeq + n) \in Row
  BY <1>1 DEF Created, Row, RowValue
<1>4. rows' = new /\ new \in [EntityId -> Row]
  BY <1>1, <1>3 DEF StoreRows
<1>5. changedAt' = [x \in EntityId |-> [f \in FieldName |->
            IF new[x].state # "absent" /\ (rows[x].state = "absent" \/ new[x].val[f] # rows[x].val[f])
            THEN new[x].version ELSE changedAt[x][f]]]
  BY DEF StoreRows
<1>6. Inserted(e)
  <2>1. rows[e].state = "absent"
    BY DEF Exists
  <2>2. new[e] = Created(v, changeSeq + n) /\ changeSeq + n \in changeSeq + 1 .. changeSeq'
    BY <1>1, <1>2
  <2>3. changedAt'[e] = [f \in FieldName |-> 1]
    BY <1>5, <2>1, <2>2 DEF Created
  <2> QED
    BY <1>4, <2>1, <2>2, <2>3 DEF Inserted
<1>7. ASSUME NEW x \in EntityId, x # e PROVE Untouched(x)
  <2>1. new[x] = rows[x] /\ rows[x] \in Row
    BY <1>1, <1>7
  <2>2. changedAt'[x] = [f \in FieldName |-> IF rows[x].state # "absent" /\ rows[x].state = "absent"
                                             THEN rows[x].version ELSE changedAt[x][f]]
    BY <1>5, <2>1
  <2>3. changedAt'[x] = changedAt[x]
    BY <1>1, <2>2
  <2> QED
    BY <1>4, <2>1, <2>3 DEF Untouched
<1>8. changedAt' \in [EntityId -> [FieldName -> Nat]]
  BY <1>1, <1>4, <1>5 DEF Row
<1>9. \A x \in EntityId : Untouched(x) \/ Inserted(x)
  BY <1>6, <1>7
<1>10. /\ changeSeq' \in Nat /\ changeSeq' >= changeSeq
       /\ rows' \in [EntityId -> Row]
       /\ fieldVersions' \in [EntityId -> [FieldName -> Nat]]
  BY <1>1, <1>2, <1>4
<1> QED
  BY <1>8, <1>9, <1>10 DEF RowStep

(* A transaction that writes no row. *)
LEMMA NoRowStep ==
    ASSUME TypeOK, changeSeq' \in Nat, changeSeq' >= changeSeq,
           UNCHANGED <<rows, fieldVersions, changedAt>>
    PROVE  RowStep
<1>1. /\ rows' \in [EntityId -> Row]
      /\ fieldVersions' \in [EntityId -> [FieldName -> Nat]]
      /\ changedAt' \in [EntityId -> [FieldName -> Nat]]
  BY DEF TypeOK, StoreTypeOK
<1>2. \A e \in EntityId : Untouched(e)
  BY DEF Untouched
<1> QED
  BY <1>1, <1>2 DEF RowStep

(* The rows after an optimistic update. *)
LEMMA UpdateRowStep ==
    ASSUME TypeOK, NEW e \in EntityId, Live(e), NEW v \in RowValue(Columns(e)),
           UpdateRow(e, v)
    PROVE  RowStep
<1> DEFINE new == [rows EXCEPT ![e] = Revised(rows[e], v, changeSeq + 1)]
           recorded == [f \in FieldName |->
                IF f \in Diff(rows[e].val, v) THEN rows[e].version + 1 ELSE fieldVersions[e][f]]
<1>1. /\ changeSeq \in Nat /\ rows \in [EntityId -> Row]
      /\ fieldVersions \in [EntityId -> [FieldName -> Nat]]
      /\ changedAt \in [EntityId -> [FieldName -> Nat]]
  BY DEF TypeOK, StoreTypeOK
<1>2. changeSeq' = changeSeq + 1
  BY DEF UpdateRow, AllocChangeSeq
<1>3. Revised(rows[e], v, changeSeq + 1) \in Row
  BY <1>1 DEF Revised, Row, RowValue
<1>4. rows' = new /\ new \in [EntityId -> Row]
  BY <1>1, <1>3 DEF UpdateRow, StoreRows
<1>5. changedAt' = [x \in EntityId |-> [f \in FieldName |->
            IF new[x].state # "absent" /\ (rows[x].state = "absent" \/ new[x].val[f] # rows[x].val[f])
            THEN new[x].version ELSE changedAt[x][f]]]
  BY DEF UpdateRow, StoreRows
<1>6. fieldVersions' = [fieldVersions EXCEPT ![e] = recorded]
  BY DEF UpdateRow, RecordFieldVersions
<1>7. recorded \in [FieldName -> Nat]
  BY <1>1 DEF Row
<1>8. fieldVersions' \in [EntityId -> [FieldName -> Nat]]
  BY <1>1, <1>6, <1>7
<1>9. Rewritten(e, {})
  <2>1. rows[e].state = "live" /\ rows[e] \in Row
    BY <1>1 DEF Live
  <2>2. new[e] = Revised(rows[e], v, changeSeq + 1) /\ changeSeq + 1 \in changeSeq + 1 .. changeSeq'
    BY <1>1, <1>2
  <2>3. changedAt'[e] = [f \in FieldName |->
            IF v[f] # rows[e].val[f] THEN rows[e].version + 1 ELSE changedAt[e][f]]
    BY <1>5, <2>1, <2>2 DEF Revised
  <2>4. fieldVersions'[e] = [f \in FieldName |->
            IF v[f] # rows[e].val[f] /\ f \notin {} THEN rows[e].version + 1
            ELSE fieldVersions[e][f]]
    BY <1>1, <1>6 DEF Diff
  <2> QED
    BY <1>4, <2>1, <2>2, <2>3, <2>4 DEF Rewritten
<1>10. ASSUME NEW x \in EntityId, x # e PROVE Untouched(x)
  <2>1. new[x] = rows[x] /\ rows[x] \in Row /\ fieldVersions'[x] = fieldVersions[x]
    BY <1>1, <1>6, <1>10
  <2>2. changedAt'[x] = [f \in FieldName |-> IF rows[x].state # "absent" /\ rows[x].state = "absent"
                                             THEN rows[x].version ELSE changedAt[x][f]]
    BY <1>5, <2>1
  <2>3. changedAt'[x] = changedAt[x]
    BY <1>1, <2>2
  <2> QED
    BY <1>4, <2>1, <2>3 DEF Untouched
<1>11. changedAt' \in [EntityId -> [FieldName -> Nat]]
  BY <1>1, <1>4, <1>5 DEF Row
<1>12. \A x \in EntityId : Untouched(x) \/ Rewritten(x, {})
  BY <1>9, <1>10
<1>13. changeSeq' \in Nat /\ changeSeq' >= changeSeq /\ rows' \in [EntityId -> Row]
  BY <1>1, <1>2, <1>4
<1> QED
  BY <1>8, <1>11, <1>12, <1>13 DEF RowStep

(* The rows after an item is deleted. *)
LEMMA TombstoneRowStep ==
    ASSUME TypeOK, NEW e \in EntityId, Live(e), AllocChangeSeq(1),
           StoreRows([rows EXCEPT ![e] = Tombstoned(rows[e], changeSeq + 1)]),
           UNCHANGED fieldVersions
    PROVE  RowStep
<1> DEFINE new == [rows EXCEPT ![e] = Tombstoned(rows[e], changeSeq + 1)]
<1>1. /\ changeSeq \in Nat /\ rows \in [EntityId -> Row]
      /\ fieldVersions \in [EntityId -> [FieldName -> Nat]]
      /\ changedAt \in [EntityId -> [FieldName -> Nat]]
  BY DEF TypeOK, StoreTypeOK
<1>2. changeSeq' = changeSeq + 1
  BY DEF AllocChangeSeq
<1>3. Tombstoned(rows[e], changeSeq + 1) \in Row
  BY <1>1 DEF Tombstoned, Row
<1>4. rows' = new /\ new \in [EntityId -> Row]
  BY <1>1, <1>3 DEF StoreRows
<1>5. changedAt' = [x \in EntityId |-> [f \in FieldName |->
            IF new[x].state # "absent" /\ (rows[x].state = "absent" \/ new[x].val[f] # rows[x].val[f])
            THEN new[x].version ELSE changedAt[x][f]]]
  BY DEF StoreRows
<1>6. \A x \in EntityId : new[x].val = rows[x].val /\ (new[x].state = "absent" <=> rows[x].state = "absent")
  BY <1>1 DEF Tombstoned, Live
<1>7. changedAt' = changedAt
  <2>1. changedAt' = [x \in EntityId |-> [f \in FieldName |-> changedAt[x][f]]]
    BY <1>5, <1>6
  <2>2. \A x \in EntityId : [f \in FieldName |-> changedAt[x][f]] = changedAt[x]
    BY <1>1
  <2> QED
    BY <1>1, <2>1, <2>2
<1>8. Removed(e)
  <2>1. new[e] = Tombstoned(rows[e], changeSeq + 1) /\ changeSeq + 1 \in changeSeq + 1 .. changeSeq'
    BY <1>1, <1>2
  <2> QED
    BY <1>4, <1>7, <2>1 DEF Removed, Live
<1>9. ASSUME NEW x \in EntityId, x # e PROVE Untouched(x)
  BY <1>1, <1>4, <1>7, <1>9 DEF Untouched
<1>10. \A x \in EntityId : Untouched(x) \/ Removed(x)
  BY <1>8, <1>9
<1>11. /\ changeSeq' \in Nat /\ changeSeq' >= changeSeq /\ rows' \in [EntityId -> Row]
       /\ fieldVersions' \in [EntityId -> [FieldName -> Nat]]
       /\ changedAt' \in [EntityId -> [FieldName -> Nat]]
  BY <1>1, <1>2, <1>4, <1>7
<1> QED
  BY <1>10, <1>11 DEF RowStep

(* Moving a row to another location keeps the columns of its table. *)
LEMMA MovedRowType ==
    ASSUME NEW S \in {ItemField, LocationField}, NEW v \in RowValue(S),
           NEW f \in S \cap Reassigned, NEW target \in LocationId \cup {NoLocation}
    PROVE  [v EXCEPT ![f] = target] \in RowValue(S)
<1>1. v \in [FieldName -> Value]
  BY DEF RowValue
<1>2. target \in ColumnValue(f) /\ target \in Value
  BY ValueAssumption DEF ColumnValue, Reassigned
<1> QED
  BY <1>1, <1>2 DEF RowValue

(* The rows after a location is deleted: its tombstone and the moved rows. *)
LEMMA DeleteLocationRowStep ==
    ASSUME TypeOK, NEW l \in LocationId, NEW reassign \in BOOLEAN,
           NEW target \in LocationId \cup {NoLocation}, DeleteLocation(l, reassign, target)
    PROVE  RowStep
<1> DEFINE new == DeletedLocationRows(l, target)
<1>1. /\ changeSeq \in Nat /\ rows \in [EntityId -> Row]
      /\ fieldVersions \in [EntityId -> [FieldName -> Nat]]
      /\ changedAt \in [EntityId -> [FieldName -> Nat]]
  BY DEF TypeOK, StoreTypeOK
<1>2. changeSeq' = changeSeq + 1
  BY DEF DeleteLocation, AllocChangeSeq
<1>3. rows' = new
  BY DEF DeleteLocation, StoreRows
<1>4. changedAt' = [x \in EntityId |-> [f \in FieldName |->
            IF new[x].state # "absent" /\ (rows[x].state = "absent" \/ new[x].val[f] # rows[x].val[f])
            THEN new[x].version ELSE changedAt[x][f]]]
  BY DEF DeleteLocation, StoreRows
<1>5. fieldVersions' = fieldVersions
  BY DEF DeleteLocation
<1>6. ASSUME NEW e \in EntityId
      PROVE  new[e] \in Row /\ (Untouched(e) \/ Rewritten(e, Reassigned) \/ Removed(e))
  <2>1. changeSeq + 1 \in changeSeq + 1 .. changeSeq'
    BY <1>1, <1>2
  <2>2. rows[e] \in Row /\ changedAt[e] = [f \in FieldName |-> changedAt[e][f]]
    BY <1>1
  <2>3. CASE e = l
    <3>1. new[e] = Tombstoned(rows[e], changeSeq + 1) /\ rows[e].state = "live"
      BY <2>3 DEF DeletedLocationRows, DeleteLocation, Live
    <3>2. new[e] \in Row
      BY <1>1, <2>2, <3>1 DEF Tombstoned, Row
    <3>3. changedAt'[e] = [f \in FieldName |-> changedAt[e][f]]
      BY <1>4, <3>1 DEF Tombstoned
    <3> QED
      BY <1>3, <1>5, <2>1, <2>2, <3>1, <3>2, <3>3 DEF Removed
  <2>4. ASSUME NEW S \in {ItemField, LocationField}, S = Columns(e),
               NEW g \in S \cap Reassigned, rows[e].state = "live", rows[e].val \in RowValue(S),
               new[e] = Revised(rows[e], [rows[e].val EXCEPT ![g] = target], changeSeq + 1)
        PROVE  new[e] \in Row /\ Rewritten(e, Reassigned)
    <3> DEFINE v == [rows[e].val EXCEPT ![g] = target]
    <3>1. v \in RowValue(S)
      BY <2>4, MovedRowType
    <3>2. new[e] \in Row
      BY <1>1, <2>2, <2>4, <3>1 DEF Revised, Row, RowValue
    <3>3. new[e].state = "live" /\ new[e].val = v /\ new[e].version = rows[e].version + 1
      BY <2>4 DEF Revised
    <3>4. changedAt'[e] = [f \in FieldName |->
            IF v[f] # rows[e].val[f] THEN rows[e].version + 1 ELSE changedAt[e][f]]
      BY <1>4, <2>4, <3>3
    <3>5. \A f \in FieldName : f \notin Reassigned => v[f] = rows[e].val[f]
      BY <2>2, <2>4 DEF Row
    <3>6. fieldVersions'[e] = [f \in FieldName |->
            IF v[f] # rows[e].val[f] /\ f \notin Reassigned THEN rows[e].version + 1
            ELSE fieldVersions[e][f]]
      BY <1>1, <1>5, <3>5
    <3> HIDE DEF v
    <3> QED
      BY <1>3, <2>1, <2>4, <3>1, <3>2, <3>4, <3>6 DEF Rewritten, v
  <2>5. CASE e # l /\ e \in LiveChildren(l)
    <3>1. /\ e \in LocationId /\ rows[e].state = "live"
          /\ new[e] = Revised(rows[e], [rows[e].val EXCEPT !["parent_id"] = target], changeSeq + 1)
      BY <2>5 DEF DeletedLocationRows, LiveChildren, Live
    <3>2. rows[e].val \in RowValue(LocationField) /\ Columns(e) = LocationField
      BY <3>1, EntityAssumption DEF TypeOK, Exists, Columns
    <3> QED
      BY <2>4, <3>1, <3>2 DEF LocationField, Reassigned
  <2>6. CASE e # l /\ e \notin LiveChildren(l) /\ e \in LiveItems(l)
    <3>1. /\ e \in ItemId /\ rows[e].state = "live"
          /\ new[e] = Revised(rows[e], [rows[e].val EXCEPT !["location_id"] = target], changeSeq + 1)
      BY <2>6 DEF DeletedLocationRows, LiveItems, Live
    <3>2. rows[e].val \in RowValue(ItemField) /\ Columns(e) = ItemField
      BY <3>1 DEF TypeOK, Exists, Columns
    <3> QED
      BY <2>4, <3>1, <3>2 DEF ItemField, Reassigned
  <2>7. CASE e # l /\ e \notin LiveChildren(l) /\ e \notin LiveItems(l)
    <3>1. new[e] = rows[e]
      BY <2>7 DEF DeletedLocationRows
    <3>2. changedAt'[e] = [f \in FieldName |-> changedAt[e][f]]
      BY <1>4, <3>1
    <3> QED
      BY <1>3, <1>5, <2>2, <3>1, <3>2 DEF Untouched
  <2> QED
    BY <2>3, <2>5, <2>6, <2>7
<1>7. new \in [EntityId -> Row]
  BY <1>6 DEF DeletedLocationRows
<1>8. changedAt' \in [EntityId -> [FieldName -> Nat]]
  <2> HIDE DEF new
  <2> QED
    BY <1>1, <1>4, <1>7 DEF Row
<1>9. changeSeq' \in Nat /\ changeSeq' >= changeSeq
  BY <1>1, <1>2
<1> QED
  BY <1>1, <1>3, <1>5, <1>6, <1>7, <1>8, <1>9 DEF RowStep

(* The current values of a live row, as its table types them. *)
LEMMA LiveRowType ==
    ASSUME TypeOK
    PROVE  /\ \A i \in ItemId : Columns(i) = ItemField /\ i \in EntityId
           /\ \A l \in LocationId : Columns(l) = LocationField /\ l \in EntityId
           /\ \A e \in EntityId : Live(e) => rows[e].val \in RowValue(Columns(e))
           /\ \A e \in EntityId : Exists(e) => rows[e].val \in RowValue(Columns(e))
  BY EntityAssumption DEF TypeOK, Columns, Live, Exists

(* A stock adjustment writes its item's quantity. *)
LEMMA AdjustRowStep ==
    ASSUME TypeOK, NEW a \in AdjustmentId, NEW i \in ItemId, NEW d \in Quantity,
           Live(i), AdjustQuantity(a, i, d)
    PROVE  /\ RowStep
           /\ adjustments' \in [AdjustmentId -> AdjustmentRow]
<1> DEFINE resulting == AddQuantity(rows[i].val["quantity"], d)
           v == [rows[i].val EXCEPT !["quantity"] = resulting]
<1>1. rows[i].val \in RowValue(ItemField) /\ Columns(i) = ItemField /\ i \in EntityId
  BY LiveRowType
<1>2. rows[i].val["quantity"] \in Quantity
  BY <1>1, FieldAssumption DEF RowValue, ItemField, ColumnValue
<1>3. resulting \in Quantity
  BY <1>2, AddQuantityType
<1> HIDE DEF resulting
<1>4. v \in RowValue(ItemField)
  <2>1. rows[i].val \in [FieldName -> Value] /\ resulting \in Value
    BY <1>1, <1>3, ValueAssumption DEF RowValue
  <2>2. resulting \in ColumnValue("quantity")
    BY <1>3 DEF ColumnValue
  <2>3. "quantity" \in ItemField
    BY DEF ItemField
  <2> QED
    BY <1>1, <2>1, <2>2, <2>3 DEF RowValue
<1>5. UpdateRow(i, v) /\ adjustments' = [adjustments EXCEPT ![a] =
             [item |-> i, delta |-> d, resulting |-> resulting, seq |-> changeSeq + 1]]
  BY DEF AdjustQuantity, resulting
<1>6. RowStep
  BY <1>1, <1>4, <1>5, UpdateRowStep
<1>7. [item |-> i, delta |-> d, resulting |-> resulting, seq |-> changeSeq + 1] \in AdjustmentRow
  BY <1>3 DEF AdjustmentRow, TypeOK, StoreTypeOK
<1> QED
  BY <1>5, <1>6, <1>7 DEF TypeOK

(* Every transaction changes every row in one of the five ways. *)
LEMMA NextRowStep ==
    ASSUME TypeOK, Next
    PROVE  RowStep
<1> USE LiveRowType
<1>0. changeSeq \in Nat
  BY DEF TypeOK, StoreTypeOK
<1>1. ASSUME NEW i \in ItemId, NEW v \in ItemRow, CreateItem(i, v) PROVE RowStep
  BY <1>1, CreateRowStep DEF CreateItem, ItemRow
<1>2. ASSUME NEW i \in ItemId, NEW v \in ItemRow, NEW n \in Version, UpdateItem(i, v, n)
      PROVE  RowStep
  BY <1>2, UpdateRowStep DEF UpdateItem, ItemRow
<1>3. ASSUME NEW i \in ItemId, DeleteItem(i) PROVE RowStep
  BY <1>3, TombstoneRowStep DEF DeleteItem
<1>4. ASSUME NEW a \in AdjustmentId, NEW i \in ItemId, NEW d \in Quantity,
             CreateStockAdjustment(a, i, d)
      PROVE  RowStep
  BY <1>4, AdjustRowStep DEF CreateStockAdjustment
<1>5. ASSUME NEW l \in LocationId, NEW v \in LocationRow, CreateLocation(l, v) PROVE RowStep
  BY <1>5, CreateRowStep DEF CreateLocation, LocationRow
<1>6. ASSUME NEW l \in LocationId, NEW v \in LocationRow, NEW n \in Version,
             UpdateLocation(l, v, n)
      PROVE  RowStep
  BY <1>6, UpdateRowStep DEF UpdateLocation, LocationRow
<1>7. ASSUME NEW l \in LocationId, NEW r \in BOOLEAN, NEW t \in LocationId \cup {NoLocation},
             DeleteLocation(l, r, t)
      PROVE  RowStep
  BY <1>7, DeleteLocationRowStep
<1>8. ASSUME NEW id, NEW F, SettleConflict(id, F) PROVE RowStep
  BY <1>0, <1>8, NoRowStep DEF SettleConflict
<1>9. ASSUME NEW m \in ItemMutation, PushCreateItem(m) PROVE RowStep
  <2> DEFINE v == FromPatch(ItemField, m.fields)
  <2>1. m.entity \in ItemId /\ v \in RowValue(ItemField)
    BY FromPatchType DEF ItemMutation
  <2> HIDE DEF v
  <2>2. ASSUME ~Exists(m.entity), NEW taken \in 0 .. ShortCodeAttempts - 1,
               AllocChangeSeq(taken + 1), UNCHANGED fieldVersions,
               StoreRows([rows EXCEPT ![m.entity] = Created(v, changeSeq + taken + 1)])
        PROVE  RowStep
    <3>1. taken + 1 \in Nat \ {0} /\ changeSeq + taken + 1 = changeSeq + (taken + 1)
      BY <1>0, AttemptsAssumption
    <3> QED
      BY <2>1, <2>2, <3>1, CreateRowStep
  <2>3. ASSUME AllocChangeSeq(ShortCodeAttempts), UNCHANGED <<rows, fieldVersions, changedAt>>
        PROVE  RowStep
    BY <1>0, <2>3, AttemptsAssumption, NoRowStep DEF AllocChangeSeq
  <2> QED
    BY <1>8, <1>9, <2>2, <2>3 DEF PushCreateItem, v
<1>10. ASSUME NEW m \in ItemMutation, PushUpdateItem(m) PROVE RowStep
  <2> DEFINE apply == DOMAIN m.fields \ PushConflicts(m.entity, m.base, DOMAIN m.fields)
             merged == PushMerge(rows[m.entity].val, m.fields, apply)
  <2>1. m.entity \in ItemId /\ m.fields \in Patch(ItemField)
    BY DEF ItemMutation
  <2>2. Live(m.entity) => merged \in RowValue(ItemField)
    <3> HIDE DEF apply
    <3>1. apply \in SUBSET DOMAIN m.fields
      BY DEF apply
    <3> QED
      BY <2>1, <3>1, PushMergeType
  <2>3. ASSUME Live(m.entity), UpdateRow(m.entity, merged) PROVE RowStep
    <3> HIDE DEF merged
    <3> QED
      BY <2>1, <2>2, <2>3, UpdateRowStep
  <2> QED
    BY <1>8, <1>10, <2>3 DEF PushUpdateItem
<1>11. ASSUME NEW m \in LocationMutation, PushCreateLocation(m) PROVE RowStep
  <2> DEFINE v == FromPatch(LocationField, m.fields)
  <2>1. m.entity \in LocationId /\ v \in RowValue(LocationField)
    BY FromPatchType DEF LocationMutation
  <2> HIDE DEF v
  <2>2. ASSUME ~Exists(m.entity), AllocChangeSeq(1), UNCHANGED fieldVersions,
               StoreRows([rows EXCEPT ![m.entity] = Created(v, changeSeq + 1)])
        PROVE  RowStep
    BY <2>1, <2>2, CreateRowStep
  <2> QED
    BY <1>8, <1>11, <2>2 DEF PushCreateLocation, v
<1>12. ASSUME NEW m \in LocationMutation, PushUpdateLocation(m) PROVE RowStep
  <2> DEFINE apply == DOMAIN m.fields \ PushConflicts(m.entity, m.base, DOMAIN m.fields)
             merged == PushMerge(rows[m.entity].val, m.fields, apply)
  <2>1. m.entity \in LocationId /\ m.fields \in Patch(LocationField)
    BY DEF LocationMutation
  <2>2. Live(m.entity) => merged \in RowValue(LocationField)
    <3> HIDE DEF apply
    <3>1. apply \in SUBSET DOMAIN m.fields
      BY DEF apply
    <3> QED
      BY <2>1, <3>1, PushMergeType
  <2>3. ASSUME Live(m.entity), UpdateRow(m.entity, merged) PROVE RowStep
    <3> HIDE DEF merged
    <3> QED
      BY <2>1, <2>2, <2>3, UpdateRowStep
  <2> QED
    BY <1>8, <1>12, <2>3 DEF PushUpdateLocation
<1>13. ASSUME NEW m \in AdjustmentMutation, PushStockAdjustment(m) PROVE RowStep
  BY <1>8, <1>13, AdjustRowStep DEF PushStockAdjustment, AdjustmentMutation
<1> QED
  BY <1>1, <1>2, <1>3, <1>4, <1>5, <1>6, <1>7, <1>9, <1>10, <1>11, <1>12, <1>13
     DEF Next, itemCreateHandler, itemUpdateHandler, itemDeleteHandler,
         stockAdjustmentCreateHandler, locationCreateHandler, locationUpdateHandler,
         locationDeleteHandler, pushItem, pushLocation

----------------------------------------------------------------------------
(* Type correctness. *)

(* Settling a mutation keeps the ledger and the conflict log typed. *)
LEMMA SettleType ==
    ASSUME StoreTypeOK, NEW id \in MutationId, NEW applied \in BOOLEAN,
           NEW F \in SUBSET ConflictField, Settle(id, applied, F)
    PROVE  /\ ledger' \in [MutationId -> {"none", "applied", "conflict"}]
           /\ conflicts' \in SUBSET (MutationId \X ConflictField)
  BY DEF StoreTypeOK, Settle

(* Only fields of the mutation conflict. *)
LEMMA PushConflictsType ==
    ASSUME NEW e, NEW b, NEW D \in SUBSET FieldName
    PROVE  PushConflicts(e, b, D) \in SUBSET FieldName
  BY DEF PushConflicts, PushFieldLevelMergePolicy

LogTypeOK ==
    /\ ledger \in [MutationId -> {"none", "applied", "conflict"}]
    /\ conflicts \in SUBSET (MutationId \X ConflictField)
    /\ lostUpdates \in SUBSET (MutationId \X FieldName)
    /\ adjustments \in [AdjustmentId -> AdjustmentRow]

(* Every transaction keeps the ledger, the logs and the adjustments typed. *)
LEMMA NextLogType ==
    ASSUME TypeOK, Next
    PROVE  LogTypeOK'
<1>0. StoreTypeOK /\ LogTypeOK
  BY DEF TypeOK, StoreTypeOK, LogTypeOK
<1>1. ASSUME UNCHANGED <<ledger, conflicts, lostUpdates, adjustments>> PROVE LogTypeOK'
  BY <1>0, <1>1 DEF LogTypeOK
<1>2. ASSUME NEW id \in MutationId, NEW a \in BOOLEAN, NEW F \in SUBSET ConflictField,
             Settle(id, a, F), lostUpdates' \in SUBSET (MutationId \X FieldName),
             adjustments' \in [AdjustmentId -> AdjustmentRow]
      PROVE  LogTypeOK'
  BY <1>0, <1>2, SettleType DEF LogTypeOK
<1>3. ASSUME NEW id \in MutationId, NEW F \in SUBSET ConflictField,
             SettleConflict(id, F), UNCHANGED adjustments
      PROVE  LogTypeOK'
  BY <1>0, <1>2, <1>3 DEF SettleConflict, LogTypeOK
<1>4. {EntityConflictField, "item_id", "short_code", "parent_id"} \subseteq ConflictField
  BY FieldAssumption DEF ConflictField
<1>5. ItemField \subseteq FieldName /\ LocationField \subseteq FieldName
  BY FieldAssumption DEF ItemField, LocationField
<1>6. FieldName \subseteq ConflictField
  BY DEF ConflictField
<1>7. ASSUME NEW a \in AdjustmentId, NEW i \in ItemId, NEW d \in Quantity,
             CreateStockAdjustment(a, i, d)
      PROVE  LogTypeOK'
  <2>1. adjustments' \in [AdjustmentId -> AdjustmentRow]
    BY <1>7, AdjustRowStep DEF CreateStockAdjustment
  <2> QED
    BY <1>0, <1>7, <2>1 DEF CreateStockAdjustment, LogTypeOK
<1>8. ASSUME NEW m \in ItemMutation, PushCreateItem(m) PROVE LogTypeOK'
  <2>1. m.id \in MutationId
    BY DEF ItemMutation
  <2>2. adjustments' = adjustments
    BY <1>8 DEF PushCreateItem
  <2>3. ASSUME NEW F \in SUBSET ConflictField, NEW a \in BOOLEAN, Settle(m.id, a, F),
               UNCHANGED lostUpdates
        PROVE  LogTypeOK'
    BY <1>0, <1>2, <2>1, <2>2, <2>3 DEF LogTypeOK
  <2> QED
    BY <1>4, <1>8, <2>3 DEF PushCreateItem, SettleConflict
<1>9. ASSUME NEW m \in ItemMutation, PushUpdateItem(m) PROVE LogTypeOK'
  <2> DEFINE conflict == PushConflicts(m.entity, m.base, DOMAIN m.fields)
  <2>1. m.id \in MutationId /\ DOMAIN m.fields \in SUBSET FieldName
    BY <1>5, PatchType DEF ItemMutation
  <2>2. adjustments' = adjustments
    BY <1>9 DEF PushUpdateItem
  <2>3. conflict \in SUBSET ConflictField
    BY <1>6, <2>1, PushConflictsType
  <2> HIDE DEF conflict
  <2>4. ASSUME NEW F \in SUBSET ConflictField, NEW a \in BOOLEAN, Settle(m.id, a, F),
               UNCHANGED lostUpdates \/ Audit(m.id, m.entity, m.base)
        PROVE  LogTypeOK'
    <3>1. lostUpdates' \in SUBSET (MutationId \X FieldName)
      BY <1>0, <2>1, <2>4 DEF LogTypeOK, Audit
    <3> QED
      BY <1>0, <1>2, <2>1, <2>2, <2>4, <3>1 DEF LogTypeOK
  <2> QED
    BY <1>4, <1>9, <2>3, <2>4 DEF PushUpdateItem, SettleConflict, conflict
<1>10. ASSUME NEW m \in LocationMutation, PushCreateLocation(m) PROVE LogTypeOK'
  <2>1. m.id \in MutationId
    BY DEF LocationMutation
  <2>2. adjustments' = adjustments
    BY <1>10 DEF PushCreateLocation
  <2>3. ASSUME NEW F \in SUBSET ConflictField, NEW a \in BOOLEAN, Settle(m.id, a, F),
               UNCHANGED lostUpdates
        PROVE  LogTypeOK'
    BY <1>0, <1>2, <2>1, <2>2, <2>3 DEF LogTypeOK
  <2> QED
    BY <1>4, <1>10, <2>3 DEF PushCreateLocation, SettleConflict
<1>11. ASSUME NEW m \in LocationMutation, PushUpdateLocation(m) PROVE LogTypeOK'
  <2> DEFINE conflict == PushConflicts(m.entity, m.base, DOMAIN m.fields)
  <2>1. m.id \in MutationId /\ DOMAIN m.fields \in SUBSET FieldName
    BY <1>5, PatchType DEF LocationMutation
  <2>2. adjustments' = adjustments
    BY <1>11 DEF PushUpdateLocation
  <2>3. conflict \in SUBSET ConflictField /\ {"parent_id"} \cup conflict \in SUBSET ConflictField
    BY <1>4, <1>6, <2>1, PushConflictsType
  <2> HIDE DEF conflict
  <2>4. ASSUME NEW F \in SUBSET ConflictField, NEW a \in BOOLEAN, Settle(m.id, a, F),
               UNCHANGED lostUpdates \/ Audit(m.id, m.entity, m.base)
        PROVE  LogTypeOK'
    <3>1. lostUpdates' \in SUBSET (MutationId \X FieldName)
      BY <1>0, <2>1, <2>4 DEF LogTypeOK, Audit
    <3> QED
      BY <1>0, <1>2, <2>1, <2>2, <2>4, <3>1 DEF LogTypeOK
  <2> QED
    BY <1>4, <1>11, <2>3, <2>4 DEF PushUpdateLocation, SettleConflict, conflict
<1>12. ASSUME NEW m \in AdjustmentMutation, PushStockAdjustment(m) PROVE LogTypeOK'
  <2>1. m.id \in MutationId
    BY DEF AdjustmentMutation
  <2>2. adjustments' \in [AdjustmentId -> AdjustmentRow] /\ UNCHANGED lostUpdates
    BY <1>0, <1>12, AdjustRowStep
       DEF PushStockAdjustment, SettleConflict, AdjustmentMutation, LogTypeOK
  <2>3. ASSUME NEW F \in SUBSET ConflictField, NEW a \in BOOLEAN, Settle(m.id, a, F)
        PROVE  LogTypeOK'
    BY <1>0, <1>2, <2>1, <2>2, <2>3 DEF LogTypeOK
  <2> QED
    BY <1>4, <1>12, <2>3 DEF PushStockAdjustment, SettleConflict
<1> QED
  BY <1>1, <1>7, <1>8, <1>9, <1>10, <1>11, <1>12
     DEF Next, itemCreateHandler, itemUpdateHandler, itemDeleteHandler,
         stockAdjustmentCreateHandler, locationCreateHandler, locationUpdateHandler,
         locationDeleteHandler, pushItem, pushLocation, CreateItem, UpdateItem, DeleteItem, CreateLocation, UpdateLocation, DeleteLocation

(* The rows by NextRowStep, the logs by NextLogType. *)
LEMMA NextType ==
    ASSUME TypeOK, [Next]_vars
    PROVE  TypeOK'
<1>1. CASE Next
  <2>1. RowStep /\ LogTypeOK'
    BY <1>1, NextRowStep, NextLogType
  <2>2. StoreTypeOK'
    BY <2>1 DEF RowStep, LogTypeOK, StoreTypeOK
  <2>3. ASSUME NEW e \in EntityId, Exists(e)' PROVE rows'[e].val \in RowValue(Columns(e))
    <3>1. rows[e].val \in RowValue(Columns(e)) \/ ~Exists(e)
      BY LiveRowType
    <3>2. CASE Untouched(e)
      BY <2>3, <3>1, <3>2 DEF Untouched, Exists
    <3>3. CASE Inserted(e)
      BY <3>3 DEF Inserted, Created
    <3>4. ASSUME NEW X, Rewritten(e, X) PROVE rows'[e].val \in RowValue(Columns(e))
      <4>1. PICK v \in RowValue(Columns(e)), t \in changeSeq + 1 .. changeSeq' :
              rows'[e] = Revised(rows[e], v, t)
        BY <3>4 DEF Rewritten
      <4> QED
        BY <4>1 DEF Revised
    <3>5. CASE Removed(e)
      BY <3>1, <3>5 DEF Removed, Tombstoned, Exists
    <3> QED
      BY <2>1, <3>2, <3>3, <3>4, <3>5 DEF RowStep
  <2> QED
    BY <2>1, <2>2, <2>3, LiveRowType DEF TypeOK, LogTypeOK
<1>2. CASE UNCHANGED vars
  BY <1>2 DEF vars, storeVars, TypeOK, StoreTypeOK, Exists
<1> QED
  BY <1>1, <1>2

(* The empty database is well typed. *)
LEMMA InitType == Init => TypeOK
<1> SUFFICES ASSUME Init PROVE TypeOK
  OBVIOUS
<1>1. AbsentRow \in Row
  BY NullAssumption DEF AbsentRow, Row
<1>2. 0 \in Quantity
  BY QuantityAssumption DEF Quantity
<1>3. StoreTypeOK
  BY <1>1 DEF Init, StoreInit, StoreTypeOK
<1>4. \A e \in EntityId : ~Exists(e)
  BY DEF Init, StoreInit, Exists, AbsentRow
<1>5. NoAdjustment \in AdjustmentRow
  BY <1>2 DEF NoAdjustment, AdjustmentRow
<1> QED
  BY <1>3, <1>4, <1>5, EntityAssumption DEF TypeOK, Init

(* Rows, ledgers and adjustments keep their types through every             *)
(* transaction: in particular a merged or defaulted pushed row has exactly   *)
(* the columns of its table and a stock adjustment stays an int64.           *)
THEOREM TypeCorrect == Spec => []TypeOK
<1>1. Init => TypeOK
  BY InitType
<1>2. TypeOK /\ [Next]_vars => TypeOK'
  BY NextType
<1> QED
  BY <1>1, <1>2, PTL DEF Spec

----------------------------------------------------------------------------
(* Versions, sequence numbers and field versions. *)

(* The inductive strengthening of SeqOrder and FieldVersionsTrack: rows not *)
(* yet created have no versions, and no column changed after the row's       *)
(* current version.                                                          *)
RowInv ==
    \A e \in EntityId :
        /\ ~Exists(e) => rows[e].version = 0 /\ \A f \in FieldName : fieldVersions[e][f] = 0
        /\ Exists(e) => /\ rows[e].seq \in 1..changeSeq
                        /\ rows[e].version \in 1..changeSeq
                        /\ \A f \in FieldName :
                             /\ changedAt[e][f] \in 1..rows[e].version
                             /\ FieldVersion(e, f) <= changedAt[e][f]
                             /\ f \notin Reassigned => FieldVersion(e, f) = changedAt[e][f]

(* Each of the five things that can happen to a row keeps RowInv. *)
LEMMA RowInvStep ==
    ASSUME TypeOK, RowInv, RowStep
    PROVE  RowInv'
<1> SUFFICES ASSUME NEW e \in EntityId
             PROVE  /\ ~Exists(e)' => rows'[e].version = 0 /\ \A f \in FieldName : fieldVersions'[e][f] = 0
                    /\ Exists(e)' => /\ rows'[e].seq \in 1..changeSeq'
                                     /\ rows'[e].version \in 1..changeSeq'
                                     /\ \A f \in FieldName :
                                          /\ changedAt'[e][f] \in 1..rows'[e].version
                                          /\ FieldVersion(e, f)' <= changedAt'[e][f]
                                          /\ f \notin Reassigned => FieldVersion(e, f)' = changedAt'[e][f]
  BY DEF RowInv
<1>1. /\ changeSeq \in Nat /\ changeSeq' \in Nat /\ changeSeq' >= changeSeq
      /\ rows[e] \in Row /\ rows'[e] \in Row
      /\ fieldVersions[e] \in [FieldName -> Nat] /\ changedAt[e] \in [FieldName -> Nat]
  BY DEF TypeOK, StoreTypeOK, RowStep
<1>2. /\ ~Exists(e) => rows[e].version = 0 /\ \A f \in FieldName : fieldVersions[e][f] = 0
      /\ Exists(e) => /\ rows[e].seq \in 1..changeSeq
                      /\ rows[e].version \in 1..changeSeq
                      /\ \A f \in FieldName :
                           /\ changedAt[e][f] \in 1..rows[e].version
                           /\ FieldVersion(e, f) <= changedAt[e][f]
                           /\ f \notin Reassigned => FieldVersion(e, f) = changedAt[e][f]
  BY DEF RowInv
<1>3. CASE Untouched(e)
  <2>1. (Exists(e)' <=> Exists(e)) /\ \A f \in FieldName : FieldVersion(e, f)' = FieldVersion(e, f)
    BY <1>3 DEF Untouched, Exists, FieldVersion
  <2> QED
    BY <1>1, <1>2, <1>3, <2>1 DEF Untouched
<1>4. CASE Inserted(e)
  <2>1. PICK v \in RowValue(Columns(e)), s \in changeSeq + 1 .. changeSeq' : rows'[e] = Created(v, s)
    BY <1>4 DEF Inserted
  <2>2. Exists(e)' /\ ~Exists(e) /\ rows'[e].seq = s /\ rows'[e].version = 1
    BY <1>4, <2>1 DEF Inserted, Created, Exists
  <2>3. \A f \in FieldName : changedAt'[e][f] = 1 /\ FieldVersion(e, f)' = 1
    BY <1>2, <1>4, <2>2 DEF Inserted, FieldVersion
  <2> QED
    BY <1>1, <2>2, <2>3
<1>5. ASSUME NEW X \in {{}, Reassigned}, Rewritten(e, X)
      PROVE  /\ Exists(e)'
             /\ rows'[e].seq \in 1..changeSeq'
             /\ rows'[e].version \in 1..changeSeq'
             /\ \A f \in FieldName :
                  /\ changedAt'[e][f] \in 1..rows'[e].version
                  /\ FieldVersion(e, f)' <= changedAt'[e][f]
                  /\ f \notin Reassigned => FieldVersion(e, f)' = changedAt'[e][f]
  <2>1. PICK v \in RowValue(Columns(e)), s \in changeSeq + 1 .. changeSeq' :
          /\ rows'[e] = Revised(rows[e], v, s)
          /\ fieldVersions'[e] = [f \in FieldName |->
                IF v[f] # rows[e].val[f] /\ f \notin X THEN rows[e].version + 1
                ELSE fieldVersions[e][f]]
          /\ changedAt'[e] = [f \in FieldName |->
                IF v[f] # rows[e].val[f] THEN rows[e].version + 1 ELSE changedAt[e][f]]
    BY <1>5 DEF Rewritten
  <2>2. /\ Exists(e) /\ Exists(e)' /\ rows'[e].seq = s
        /\ rows'[e].version = rows[e].version + 1 /\ rows[e].version \in Nat
    BY <1>1, <1>5, <2>1 DEF Rewritten, Revised, Exists, Row
  <2>3. ASSUME NEW f \in FieldName
        PROVE  /\ changedAt'[e][f] \in 1..rows'[e].version
               /\ FieldVersion(e, f)' <= changedAt'[e][f]
               /\ f \notin Reassigned => FieldVersion(e, f)' = changedAt'[e][f]
    <3>1. /\ changedAt[e][f] \in 1..rows[e].version
          /\ FieldVersion(e, f) <= changedAt[e][f]
          /\ f \notin Reassigned => FieldVersion(e, f) = changedAt[e][f]
          /\ fieldVersions[e][f] \in Nat
      BY <1>1, <1>2, <2>2
    <3>2. CASE v[f] = rows[e].val[f]
      <4>1. changedAt'[e][f] = changedAt[e][f] /\ fieldVersions'[e][f] = fieldVersions[e][f]
        BY <2>1, <3>2
      <4> QED
        BY <2>2, <3>1, <4>1 DEF FieldVersion
    <3>3. CASE v[f] # rows[e].val[f] /\ f \notin X
      <4>1. changedAt'[e][f] = rows[e].version + 1 /\ fieldVersions'[e][f] = rows[e].version + 1
        BY <2>1, <3>3
      <4> QED
        BY <2>2, <4>1 DEF FieldVersion
    <3>4. CASE v[f] # rows[e].val[f] /\ f \in X
      <4>1. /\ changedAt'[e][f] = rows[e].version + 1 /\ fieldVersions'[e][f] = fieldVersions[e][f]
            /\ f \in Reassigned
        BY <2>1, <3>4
      <4> QED
        BY <2>2, <3>1, <4>1 DEF FieldVersion
    <3> QED
      BY <3>2, <3>3, <3>4
  <2> QED
    BY <1>1, <1>2, <2>2, <2>3
<1>6. CASE Removed(e)
  <2>1. PICK s \in changeSeq + 1 .. changeSeq' : rows'[e] = Tombstoned(rows[e], s)
    BY <1>6 DEF Removed
  <2>2. /\ Exists(e) /\ Exists(e)' /\ rows'[e].seq = s
        /\ rows'[e].version = rows[e].version + 1 /\ rows[e].version \in Nat
    BY <1>1, <1>6, <2>1 DEF Removed, Tombstoned, Exists, Row
  <2>3. \A f \in FieldName : changedAt'[e][f] = changedAt[e][f] /\ FieldVersion(e, f)' = FieldVersion(e, f)
    BY <1>6 DEF Removed, FieldVersion
  <2> QED
    BY <1>1, <1>2, <2>2, <2>3
<1> QED
  BY <1>3, <1>4, <1>5, <1>6 DEF RowStep

(* Hence every transaction does. *)
LEMMA RowInvInductive ==
    /\ Init => RowInv
    /\ TypeOK /\ RowInv /\ [Next]_vars => RowInv'
<1>1. Init => RowInv
  <2> SUFFICES ASSUME Init, NEW e \in EntityId
               PROVE  /\ ~Exists(e) /\ rows[e].version = 0
                      /\ \A f \in FieldName : fieldVersions[e][f] = 0
    BY DEF RowInv
  <2> QED BY DEF Init, StoreInit, Exists, AbsentRow
<1>2. ASSUME TypeOK, RowInv, [Next]_vars PROVE RowInv'
  <2>1. CASE Next
    BY <1>2, <2>1, NextRowStep, RowInvStep
  <2>2. CASE UNCHANGED vars
    BY <1>2, <2>2 DEF vars, storeVars, RowInv, Exists, FieldVersion
  <2> QED
    BY <1>2, <2>1, <2>2
<1> QED
  BY <1>1, <1>2

(* RowInv holds in every reachable state. *)
LEMMA RowInvCorrect == Spec => []RowInv
<1>1. Init => RowInv
  BY RowInvInductive
<1>2. TypeOK /\ RowInv /\ [Next]_vars => RowInv'
  BY RowInvInductive
<1> QED
  BY <1>1, <1>2, TypeCorrect, PTL DEF Spec

(* No row is ahead of its group's counter, so a puller that has reached the *)
(* counter has seen every row.                                               *)
THEOREM SeqOrderCorrect == Spec => []SeqOrder
<1>1. RowInv => SeqOrder
  BY DEF RowInv, SeqOrder
<1> QED
  BY <1>1, RowInvCorrect, PTL

(* What recordFieldVersionsTx writes is exact, for any number of REST       *)
(* edits, pushes, stock adjustments and reassigning deletes.                 *)
THEOREM FieldVersionsCorrect == Spec => []FieldVersionsTrack
<1>1. RowInv => FieldVersionsTrack
  BY DEF RowInv, FieldVersionsTrack, Live, Exists
<1> QED
  BY <1>1, RowInvCorrect, PTL

(* Every row change gets a fresh change_seq and the next version, and       *)
(* tombstones are final.                                                     *)
THEOREM ChangesAnnounced == Spec => ChangesAreAnnounced
<1> DEFINE A == \A e \in EntityId : rows'[e] # rows[e] =>
                  /\ rows'[e].seq > changeSeq
                  /\ rows'[e].version = rows[e].version + 1
                  /\ rows[e].state # "tombstoned"
<1>1. TypeOK /\ RowInv /\ [Next]_vars => [A]_vars
  <2> SUFFICES ASSUME TypeOK, RowInv, Next, NEW e \in EntityId, rows'[e] # rows[e]
               PROVE  /\ rows'[e].seq > changeSeq
                      /\ rows'[e].version = rows[e].version + 1
                      /\ rows[e].state # "tombstoned"
    OBVIOUS
  <2>1. RowStep /\ changeSeq \in Nat /\ changeSeq' \in Nat
    BY NextRowStep DEF RowStep, TypeOK, StoreTypeOK
  <2>2. Inserted(e) \/ Rewritten(e, {}) \/ Rewritten(e, Reassigned) \/ Removed(e)
    BY <2>1 DEF RowStep, Untouched
  <2>3. CASE Inserted(e)
    <3>1. rows[e].state = "absent" /\ rows[e].version = 0
      BY <2>3 DEF Inserted, RowInv, Exists
    <3> QED
      BY <2>1, <2>3, <3>1 DEF Inserted, Created
  <2>4. ASSUME NEW X, Rewritten(e, X)
        PROVE  /\ rows'[e].seq > changeSeq
               /\ rows'[e].version = rows[e].version + 1
               /\ rows[e].state # "tombstoned"
    <3>1. PICK v \in RowValue(Columns(e)), t \in changeSeq + 1 .. changeSeq' :
            rows'[e] = Revised(rows[e], v, t)
      BY <2>4 DEF Rewritten
    <3>2. rows[e].state = "live"
      BY <2>4 DEF Rewritten, Live
    <3>3. /\ rows'[e].seq = t
          /\ rows'[e].version = rows[e].version + 1
      BY <3>1 DEF Revised
    <3>4. t > changeSeq
      BY <2>1
    <3> QED
      BY <3>2, <3>3, <3>4
  <2>5. CASE Removed(e)
    BY <2>1, <2>5 DEF Removed, Tombstoned
  <2> QED
    BY <2>2, <2>3, <2>4, <2>5
<1> QED
  BY <1>1, TypeCorrect, RowInvCorrect, PTL DEF Spec, ChangesAreAnnounced

----------------------------------------------------------------------------
(* Lost updates. *)

(* A merged push overwrites only columns the field-version ledger lets it,  *)
(* and by RowInv the ledger is exact outside the reassigned columns.         *)
LEMMA AuditKeepsNoLostUpdate ==
    ASSUME TypeOK, RowInv, NoLostUpdate, NEW m, m.entity \in EntityId, m.base \in Nat,
           DOMAIN m.fields \in SUBSET FieldName, Live(m.entity),
           LET conflict == PushConflicts(m.entity, m.base, DOMAIN m.fields)
               merged == PushMerge(rows[m.entity].val, m.fields, DOMAIN m.fields \ conflict)
           IN  UpdateRow(m.entity, merged),
           Audit(m.id, m.entity, m.base)
    PROVE  NoLostUpdate'
<1> DEFINE e == m.entity
           conflict == PushConflicts(e, m.base, DOMAIN m.fields)
           merged == PushMerge(rows[e].val, m.fields, DOMAIN m.fields \ conflict)
<1>1. rows[e] \in Row /\ rows \in [EntityId -> Row] /\ fieldVersions[e] \in [FieldName -> Nat]
  BY DEF TypeOK, StoreTypeOK
<1>2. rows'[e].val = merged
  BY <1>1 DEF UpdateRow, StoreRows, Revised
<1>3. ASSUME NEW g \in FieldName, rows'[e].val[g] # rows[e].val[g], changedAt[e][g] > m.base
      PROVE  g \in Reassigned
  <2>1. g \in DOMAIN m.fields /\ g \notin conflict
    BY <1>2, <1>3 DEF PushMerge
  <2>2. /\ changedAt[e][g] \in 1..rows[e].version
        /\ g \notin Reassigned => FieldVersion(e, g) = changedAt[e][g]
    BY DEF RowInv, Live, Exists
  <2>3. rows[e].version = m.base \/ ~(FieldVersion(e, g) > m.base)
    BY <2>1 DEF PushConflicts, PushFieldLevelMergePolicy
  <2>4. rows[e].version \in Nat /\ FieldVersion(e, g) \in Nat
    BY <1>1 DEF Row, FieldVersion
  <2> DEFINE c == changedAt[e][g]
             v == rows[e].version
             fv == FieldVersion(e, g)
  <2>5. /\ c > m.base /\ c \in 1..v /\ v \in Nat /\ fv \in Nat
        /\ v = m.base \/ ~(fv > m.base)
        /\ g \notin Reassigned => fv = c
    BY <1>3, <2>2, <2>3, <2>4
  <2> HIDE DEF c, v, fv, e, conflict, merged
  <2>6. c \in Nat /\ c <= v /\ v # m.base
    BY <2>5
  <2> QED
    BY <2>5, <2>6
<1>4. lostUpdates' = lostUpdates \cup
        {<<m.id, f>> : f \in {g \in FieldName : /\ rows[e].state = "live"
                                              /\ rows'[e].val[g] # rows[e].val[g]
                                              /\ changedAt[e][g] > m.base}}
  BY DEF Audit
<1>5. ASSUME NEW p \in lostUpdates' PROVE p[2] \in Reassigned
  <2>1. CASE p \in lostUpdates
    BY ONLY <2>1, NoLostUpdate DEF NoLostUpdate
  <2>2. CASE p \notin lostUpdates
    <3>1. PICK g \in FieldName : /\ p = <<m.id, g>> /\ rows'[e].val[g] # rows[e].val[g]
                                 /\ changedAt[e][g] > m.base
      BY ONLY <1>4, <2>2, p \in lostUpdates'
    <3>2. g \in Reassigned
      BY ONLY <1>3, <3>1
    <3> QED BY ONLY <3>1, <3>2
  <2> QED BY ONLY <2>1, <2>2
<1> QED
  BY ONLY <1>5 DEF NoLostUpdate

(* Only the two merging push handlers add to lostUpdates. *)
LEMMA NoLostUpdateInductive ==
    TypeOK /\ RowInv /\ NoLostUpdate /\ [Next]_vars => NoLostUpdate'
<1> SUFFICES ASSUME TypeOK, RowInv, NoLostUpdate, [Next]_vars PROVE NoLostUpdate'
  OBVIOUS
<1>1. ASSUME UNCHANGED lostUpdates PROVE NoLostUpdate'
  BY <1>1 DEF NoLostUpdate
<1>2. ASSUME NEW m \in ItemMutation, PushUpdateItem(m) PROVE NoLostUpdate'
  <2>1. /\ m.entity \in EntityId /\ m.base \in Nat
        /\ DOMAIN m.fields \in SUBSET FieldName
    BY PatchType, EntityAssumption, FieldAssumption, MaxSeqAssumption
       DEF ItemMutation, ItemField, Version
  <2> QED
    BY <1>1, <1>2, <2>1, AuditKeepsNoLostUpdate DEF PushUpdateItem, SettleConflict
<1>3. ASSUME NEW m \in LocationMutation, PushUpdateLocation(m) PROVE NoLostUpdate'
  <2>1. /\ m.entity \in EntityId /\ m.base \in Nat
        /\ DOMAIN m.fields \in SUBSET FieldName
    BY PatchType, EntityAssumption, FieldAssumption, MaxSeqAssumption
       DEF LocationMutation, LocationField, Version
  <2> QED
    BY <1>1, <1>3, <2>1, AuditKeepsNoLostUpdate DEF PushUpdateLocation, SettleConflict
<1>4. ASSUME NEW m \in ItemMutation, PushCreateItem(m) PROVE UNCHANGED lostUpdates
  BY <1>4 DEF PushCreateItem, SettleConflict
<1>5. ASSUME NEW m \in LocationMutation, PushCreateLocation(m) PROVE UNCHANGED lostUpdates
  BY <1>5 DEF PushCreateLocation, SettleConflict
<1>6. ASSUME NEW m \in AdjustmentMutation, PushStockAdjustment(m) PROVE UNCHANGED lostUpdates
  BY <1>6 DEF PushStockAdjustment, SettleConflict
<1> QED
  BY <1>1, <1>2, <1>3, <1>4, <1>5, <1>6
     DEF Next, itemCreateHandler, itemUpdateHandler, itemDeleteHandler,
         stockAdjustmentCreateHandler, locationCreateHandler, locationUpdateHandler,
         locationDeleteHandler, pushItem, pushLocation, CreateItem, UpdateItem, DeleteItem, CreateStockAdjustment, CreateLocation,
         UpdateLocation, DeleteLocation, vars, storeVars

(* No push silently overwrites a value that changed after the version its   *)
(* client saw, outside the two columns a reassigning delete rewrites.        *)
THEOREM NoLostUpdateCorrect == Spec => []NoLostUpdate
<1>1. Init => NoLostUpdate
  BY DEF Init, StoreInit, NoLostUpdate
<1> QED
  BY <1>1, NoLostUpdateInductive, TypeCorrect, RowInvCorrect, PTL DEF Spec


----------------------------------------------------------------------------
(* The ledger. *)

(* What a transaction may do to the ledger and the conflict log: nothing, or *)
(* settle one id that had no row.                                            *)
LogStep ==
    \/ UNCHANGED <<ledger, conflicts>>
    \/ \E id \in MutationId, outcome \in {"applied", "conflict"} :
          /\ ledger[id] = "none"
          /\ ledger' = [ledger EXCEPT ![id] = outcome]
          /\ \A x \in MutationId, f \in ConflictField :
                x # id /\ <<x, f>> \in conflicts' => <<x, f>> \in conflicts

(* Settling an id is such a step. *)
LEMMA SettleLogStep ==
    ASSUME NEW id \in MutationId, ledger[id] = "none", NEW a \in BOOLEAN, NEW F, Settle(id, a, F)
    PROVE  LogStep
<1>1. \A x \in MutationId, f \in ConflictField :
          x # id /\ <<x, f>> \in conflicts' => <<x, f>> \in conflicts
  BY DEF Settle
<1>2. \E outcome \in {"applied", "conflict"} : ledger' = [ledger EXCEPT ![id] = outcome]
  BY DEF Settle
<1> QED
  BY <1>1, <1>2 DEF LogStep

(* Every push handler looks its id up first; REST leaves the ledger alone. *)
LEMMA NextLogStep ==
    ASSUME Next
    PROVE  LogStep
<1> USE SettleLogStep DEF Unsettled, SettleConflict
<1>1. ASSUME NEW m \in ItemMutation, PushCreateItem(m) PROVE LogStep
  BY <1>1 DEF PushCreateItem, ItemMutation
<1>2. ASSUME NEW m \in ItemMutation, PushUpdateItem(m) PROVE LogStep
  BY <1>2 DEF PushUpdateItem, ItemMutation
<1>3. ASSUME NEW m \in LocationMutation, PushCreateLocation(m) PROVE LogStep
  BY <1>3 DEF PushCreateLocation, LocationMutation
<1>4. ASSUME NEW m \in LocationMutation, PushUpdateLocation(m) PROVE LogStep
  BY <1>4 DEF PushUpdateLocation, LocationMutation
<1>5. ASSUME NEW m \in AdjustmentMutation, PushStockAdjustment(m) PROVE LogStep
  BY <1>5 DEF PushStockAdjustment, AdjustmentMutation
<1> QED
  BY <1>1, <1>2, <1>3, <1>4, <1>5
     DEF Next, LogStep, itemCreateHandler, itemUpdateHandler, itemDeleteHandler,
         stockAdjustmentCreateHandler, locationCreateHandler, locationUpdateHandler,
         locationDeleteHandler, pushItem, pushLocation, CreateItem, UpdateItem, DeleteItem,
         CreateStockAdjustment, CreateLocation, UpdateLocation, DeleteLocation

(* A settled mutation stays as it was settled, and no conflict is logged for *)
(* it later: ApplyMutation looks its id up before it does anything else.     *)
THEOREM SettledOnceCorrect == Spec => SettledOnce
<1> DEFINE A == \A id \in MutationId : ledger[id] # "none" =>
                  /\ ledger'[id] = ledger[id]
                  /\ \A f \in ConflictField : <<id, f>> \in conflicts' => <<id, f>> \in conflicts
<1>1. TypeOK /\ [Next]_vars => [A]_storeVars
  <2> SUFFICES ASSUME TypeOK, [Next]_vars PROVE [A]_storeVars
    OBVIOUS
  <2>1. ledger \in [MutationId -> {"none", "applied", "conflict"}]
    BY DEF TypeOK, StoreTypeOK
  <2>2. CASE Next
    <3>1. LogStep
      BY <2>2, NextLogStep
    <3> QED
      BY <2>1, <3>1 DEF LogStep
  <2>3. CASE UNCHANGED vars
    BY <2>3 DEF vars
  <2> QED
    BY <2>2, <2>3
<1> QED
  BY <1>1, TypeCorrect, PTL DEF Spec, SettledOnce

----------------------------------------------------------------------------
(* Stock adjustments. *)

(* AdjustmentTrace with what makes it inductive: the item of an adjustment   *)
(* is an item that was created.                                              *)
Traced(a) ==
    LET item == rows[adjustments[a].item]
    IN  /\ adjustments[a].item \in ItemId
        /\ Exists(adjustments[a].item)
        /\ adjustments[a].seq \in 1 .. item.seq
        /\ adjustments[a].seq = item.seq => item.val["quantity"] = adjustments[a].resulting

TraceInv == \A a \in AdjustmentId : adjustments[a] # NoAdjustment => Traced(a)

(* A row that exists keeps its values or gets a sequence number beyond the   *)
(* one it has.                                                               *)
LEMMA RowMovesOn ==
    ASSUME TypeOK, RowInv, RowStep, NEW e \in EntityId, Exists(e)
    PROVE  /\ Exists(e)'
           /\ rows[e].seq \in Nat /\ rows'[e].seq \in Nat
           /\ rows'[e] = rows[e] \/ rows'[e].seq > rows[e].seq
<1>1. /\ changeSeq \in Nat /\ rows[e].seq \in 1..changeSeq
      /\ rows[e] \in Row /\ rows'[e] \in Row
  BY DEF TypeOK, StoreTypeOK, RowInv, RowStep
<1>2. CASE Untouched(e)
  BY <1>1, <1>2 DEF Untouched, Exists
<1>3. CASE Inserted(e)
  BY <1>3 DEF Inserted, Exists
<1>4. ASSUME NEW X, Rewritten(e, X)
      PROVE  Exists(e)' /\ rows'[e].seq \in Nat /\ rows'[e].seq > rows[e].seq
  <2>1. PICK v \in RowValue(Columns(e)), t \in changeSeq + 1 .. changeSeq' :
          rows'[e] = Revised(rows[e], v, t)
    BY <1>4 DEF Rewritten
  <2>2. rows'[e].seq = t /\ rows'[e].state = "live"
    BY <1>4, <2>1 DEF Revised, Rewritten
  <2>3. changeSeq' \in Nat
    BY DEF RowStep
  <2> QED
    BY <1>1, <2>2, <2>3 DEF Exists
<1>5. CASE Removed(e)
  <2>1. PICK t \in changeSeq + 1 .. changeSeq' : rows'[e] = Tombstoned(rows[e], t)
    BY <1>5 DEF Removed
  <2>2. rows'[e].seq = t /\ rows'[e].state = "tombstoned"
    BY <2>1 DEF Tombstoned
  <2>3. changeSeq' \in Nat
    BY DEF RowStep
  <2> QED
    BY <1>1, <2>2, <2>3 DEF Exists
<1>6. rows[e].seq \in Nat
  BY ONLY <1>1
<1>7. \/ Untouched(e) \/ Inserted(e) \/ Removed(e)
      \/ \E X : Rewritten(e, X)
  BY ONLY RowStep, e \in EntityId DEF RowStep
<1> QED
  BY ONLY <1>2, <1>3, <1>4, <1>5, <1>6, <1>7

(* The adjustments a transaction leaves alone keep their trace. *)
LEMMA OldTrace ==
    ASSUME TypeOK, RowInv, TraceInv, RowStep,
           NEW a \in AdjustmentId, adjustments'[a] = adjustments[a], adjustments[a] # NoAdjustment
    PROVE  Traced(a)'
<1>1. PICK i \in ItemId : i = adjustments[a].item
  BY DEF TraceInv, Traced
<1>2. /\ Exists(i)
      /\ adjustments[a].seq \in 1 .. rows[i].seq
      /\ adjustments[a].seq = rows[i].seq => rows[i].val["quantity"] = adjustments[a].resulting
  BY <1>1 DEF TraceInv, Traced
<1>3. i \in EntityId
  BY EntityAssumption
<1>4. /\ Exists(i)'
      /\ rows[i].seq \in Nat /\ rows'[i].seq \in Nat
      /\ rows'[i] = rows[i] \/ rows'[i].seq > rows[i].seq
  BY <1>2, <1>3, RowMovesOn
<1>5. adjustments[a].seq \in 1 .. rows'[i].seq
  BY <1>2, <1>4
<1>6. adjustments[a].seq = rows'[i].seq => rows'[i].val["quantity"] = adjustments[a].resulting
  BY <1>2, <1>4
<1>7. adjustments'[a].item = i
  BY <1>1
<1> QED
  BY <1>4, <1>5, <1>6, <1>7 DEF Exists, Traced

(* A new adjustment and its item get the same number and the same quantity. *)
LEMMA NewTrace ==
    ASSUME TypeOK, RowInv, TraceInv, NEW a \in AdjustmentId, NEW i \in ItemId, NEW d \in Quantity,
           Live(i), AdjustQuantity(a, i, d)
    PROVE  TraceInv'
<1> DEFINE resulting == AddQuantity(rows[i].val["quantity"], d)
           v == [rows[i].val EXCEPT !["quantity"] = resulting]
<1>1. RowStep
  BY AdjustRowStep
<1>2. /\ adjustments \in [AdjustmentId -> AdjustmentRow]
      /\ rows \in [EntityId -> Row] /\ i \in EntityId /\ changeSeq \in Nat
      /\ rows[i].val \in [FieldName -> Value] /\ "quantity" \in FieldName
  BY EntityAssumption, FieldAssumption DEF TypeOK, StoreTypeOK, Row
<1>3. /\ rows' = [rows EXCEPT ![i] = Revised(rows[i], v, changeSeq + 1)]
      /\ adjustments' = [adjustments EXCEPT ![a] =
            [item |-> i, delta |-> d, resulting |-> resulting, seq |-> changeSeq + 1]]
  BY DEF AdjustQuantity, UpdateRow, StoreRows
<1> HIDE DEF resulting
<1>4. /\ rows'[i].seq = changeSeq + 1
      /\ rows'[i].val["quantity"] = resulting
      /\ rows'[i].state = rows[i].state
  BY <1>2, <1>3 DEF Revised
<1>5. /\ adjustments'[a].item = i
      /\ adjustments'[a].seq = changeSeq + 1
      /\ adjustments'[a].resulting = resulting
  BY <1>2, <1>3
<1>6. Exists(i)'
  BY <1>4 DEF Exists, Live
<1>7. \A b \in AdjustmentId : b # a => adjustments'[b] = adjustments[b]
  BY <1>2, <1>3
<1>8. changeSeq + 1 \in 1 .. rows'[i].seq
  BY <1>2, <1>4
<1> SUFFICES ASSUME NEW b \in AdjustmentId, adjustments'[b] # NoAdjustment
             PROVE  Traced(b)'
  BY DEF TraceInv, NoAdjustment
<1>9. CASE b = a
  BY <1>4, <1>5, <1>6, <1>8, <1>9 DEF Exists, Traced
<1>10. CASE b # a
  BY <1>1, <1>7, <1>10, OldTrace
<1> QED
  BY <1>9, <1>10

(* Every transaction keeps the traces. *)
LEMMA TraceInductive ==
    ASSUME TypeOK, RowInv, TraceInv, [Next]_vars
    PROVE  TraceInv'
<1>1. ASSUME Next, UNCHANGED adjustments PROVE TraceInv'
  <2>1. RowStep
    BY <1>1, NextRowStep
  <2> QED
    BY <1>1, <2>1, OldTrace DEF TraceInv, NoAdjustment
<1>2. CASE UNCHANGED vars
  BY <1>2 DEF vars, storeVars, TraceInv, Traced, NoAdjustment, Exists
<1>3. ASSUME NEW a \in AdjustmentId, NEW i \in ItemId, NEW d \in Quantity,
             CreateStockAdjustment(a, i, d)
      PROVE  TraceInv'
  BY <1>3, NewTrace DEF CreateStockAdjustment
<1>4. ASSUME NEW m \in AdjustmentMutation, PushStockAdjustment(m), Next PROVE TraceInv'
  <2>1. m.entity \in AdjustmentId /\ m.item \in ItemId /\ m.delta \in Quantity
    BY DEF AdjustmentMutation
  <2> QED
    BY <1>1, <1>4, <2>1, NewTrace DEF PushStockAdjustment
<1> QED
  BY <1>1, <1>2, <1>3, <1>4
     DEF Next, itemCreateHandler, itemUpdateHandler, itemDeleteHandler,
         stockAdjustmentCreateHandler, locationCreateHandler, locationUpdateHandler,
         locationDeleteHandler, pushItem, pushLocation, CreateItem, UpdateItem, DeleteItem,
         CreateLocation, UpdateLocation, DeleteLocation,
         PushCreateItem, PushUpdateItem, PushCreateLocation, PushUpdateLocation

(* A stock adjustment and its item are written under one change_seq with one *)
(* quantity, so no puller sees one without the other.                        *)
THEOREM AdjustmentTraceCorrect == Spec => []AdjustmentTrace
<1>1. Init => TraceInv
  BY DEF Init, TraceInv
<1>2. TypeOK /\ RowInv /\ TraceInv /\ [Next]_vars => TraceInv'
  BY TraceInductive
<1>3. TraceInv => AdjustmentTrace
  BY DEF TraceInv, Traced, AdjustmentTrace
<1> QED
  BY <1>1, <1>2, <1>3, TypeCorrect, RowInvCorrect, PTL DEF Spec

============================================================================
