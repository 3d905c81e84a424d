----------------------------- MODULE Inventory -----------------------------
(***************************************************************************)
(* Items, their stock adjustments and the location tree of one group:      *)
(* the REST transactions of storage/items.go, stock_adjustments.go and     *)
(* locations.go, and the push handlers pushItem, pushStockAdjustment and   *)
(* pushLocation.  "name" stands for the plain text columns (name and       *)
(* description are read, merged and diffed alike).                          *)
(***************************************************************************)
EXTENDS SyncStore

CONSTANTS
    ItemId, LocationId, AdjustmentId,
    Text,               \* contents of a text column, NoText among them
    NoText,             \* the empty string
    NoLocation,         \* NULL in location_id and parent_id
    QuantityLimit,      \* quantities wrap as two's complement at this limit
    ShortCodeAttempts   \* maxImportShortCodeAttempts

ASSUME EntityAssumption ==
    /\ EntityId = ItemId \cup LocationId
    /\ ItemId \cap LocationId = {}
    /\ NoLocation \notin LocationId
    /\ Null \notin LocationId
ASSUME FieldAssumption ==
    FieldName = {"name", "location_id", "quantity", "parent_id"}
ASSUME QuantityAssumption == QuantityLimit \in Nat \ {0}
ASSUME AttemptsAssumption == ShortCodeAttempts \in Nat \ {0}

Quantity == -QuantityLimit .. QuantityLimit - 1

ASSUME ValueAssumption ==
    /\ NoText \in Text
    /\ Value = Text \cup LocationId \cup {NoLocation, Null} \cup Quantity

VARIABLE adjustments   \* id -> stock_adjustments row, or NoAdjustment

vars == <<storeVars, adjustments>>

ItemField == {"name", "location_id", "quantity"}
LocationField == {"name", "parent_id"}

ColumnValue(f) ==
    CASE f = "name" -> Text
      [] f = "quantity" -> Quantity
      [] OTHER -> LocationId \cup {NoLocation}

(* What a client may send for columns S of a row: every subset is a patch. *)
Patch(S) ==
    UNION {{p \in [D -> Value] : \A f \in D : p[f] \in ColumnValue(f)} : D \in SUBSET S}

(* A whole row: the columns of S, Null for the columns of other tables. *)
RowValue(S) ==
    {v \in [FieldName -> Value] :
        \A f \in FieldName : IF f \in S THEN v[f] \in ColumnValue(f) ELSE v[f] = Null}

(* pushDecodeString and pushDecodeInt64 give a missing column its zero value. *)
ZeroValue(f) ==
    CASE f = "name" -> NoText [] f = "quantity" -> 0 [] OTHER -> NoLocation

FromPatch(S, p) ==
    [f \in FieldName |->
        IF f \in DOMAIN p THEN p[f] ELSE IF f \in S THEN ZeroValue(f) ELSE Null]

(* Mutants: the sum leaves the int64 range; the delta replaces the quantity. *)
AddQuantity_NoWrap(a, b) == a + b
AddQuantity_Replaces(a, b) == b

(* int64 addition. *)
AddQuantity(a, b) ==
    ((a + b + QuantityLimit) % (2 * QuantityLimit)) - QuantityLimit

NoAdjustment == [item |-> Null, delta |-> 0, resulting |-> 0, seq |-> 0]

AdjustmentRow == [item : ItemId \cup {Null}, delta : Quantity, resulting : Quantity, seq : Nat]

TypeOK ==
    /\ StoreTypeOK
    /\ adjustments \in [AdjustmentId -> AdjustmentRow]
    /\ \A i \in ItemId : Exists(i) => rows[i].val \in RowValue(ItemField)
    /\ \A l \in LocationId : Exists(l) => rows[l].val \in RowValue(LocationField)

Init ==
    /\ StoreInit
    /\ adjustments = [a \in AdjustmentId |-> NoAdjustment]

----------------------------------------------------------------------------
(* Items. *)

(* The foreign key of items.location_id: a row, live or tombstoned. *)
LocationRowExists(l) == l = NoLocation \/ (l \in LocationId /\ Exists(l))

CreateItem(i, v) ==
    /\ ~Exists(i)
    /\ v["name"] # NoText
    /\ LocationRowExists(v["location_id"])
    /\ AllocChangeSeq(1)
    /\ StoreRows([rows EXCEPT ![i] = Created(v, changeSeq + 1)])
    /\ UNCHANGED <<fieldVersions, ledger, conflicts, lostUpdates, adjustments>>

UpdateItem(i, v, expectedVersion) ==
    /\ Live(i)
    /\ rows[i].version = expectedVersion
    /\ v["name"] # NoText
    /\ LocationRowExists(v["location_id"])
    /\ UpdateRow(i, v)
    /\ UNCHANGED <<ledger, conflicts, lostUpdates, adjustments>>

(* The tables the delete cascades to are in ItemDetails. *)
DeleteItem(i) ==
    /\ Live(i)
    /\ AllocChangeSeq(1)
    /\ StoreRows([rows EXCEPT ![i] = Tombstoned(rows[i], changeSeq + 1)])
    /\ UNCHANGED <<fieldVersions, ledger, conflicts, lostUpdates, adjustments>>

(* Mutant: the adjustment row keeps the quantity read before the update. *)
AdjustQuantity_StaleResult(a, i, delta) ==
    LET resulting == AddQuantity(rows[i].val["quantity"], delta)
    IN  /\ UpdateRow(i, [rows[i].val EXCEPT !["quantity"] = resulting])
        /\ adjustments' = [adjustments EXCEPT ![a] =
             [item |-> i, delta |-> delta, resulting |-> rows[i].val["quantity"],
              seq |-> changeSeq + 1]]

(* createStockAdjustmentTx and the field-version diff around it. *)
AdjustQuantity(a, i, delta) ==
    LET resulting == AddQuantity(rows[i].val["quantity"], delta)
    IN  /\ UpdateRow(i, [rows[i].val EXCEPT !["quantity"] = resulting])
        /\ adjustments' = [adjustments EXCEPT ![a] =
             [item |-> i, delta |-> delta, resulting |-> resulting, seq |-> changeSeq + 1]]

CreateStockAdjustment(a, i, delta) ==
    /\ adjustments[a] = NoAdjustment
    /\ Live(i)
    /\ AdjustQuantity(a, i, delta)
    /\ UNCHANGED <<ledger, conflicts, lostUpdates>>

----------------------------------------------------------------------------
(* Locations. *)

Parent(l) == rows[l].val["parent_id"]

(* locationMoveCreatesCycle walks the parent edges, tombstoned rows         *)
(* included, from the candidate: it meets the moving row exactly when every  *)
(* set that holds the candidate and is closed under parents holds it.        *)
ParentClosed(S) == \A l \in S : Parent(l) \in LocationId => Parent(l) \in S
LocationMoveCreatesCycle(moving, candidate) ==
    \A S \in SUBSET LocationId : candidate \in S /\ ParentClosed(S) => moving \in S

ParentIsLive(p) == p = NoLocation \/ (p \in LocationId /\ Live(p))
(* Mutant: only the parent's liveness is checked. *)
MoveAllowed_NoCycleCheck(l, p) == p # NoLocation => ParentIsLive(p)

MoveAllowed(l, p) ==
    p # NoLocation => ParentIsLive(p) /\ ~LocationMoveCreatesCycle(l, p)

CreateLocation(l, v) ==
    /\ ~Exists(l)
    /\ v["name"] # NoText
    /\ ParentIsLive(v["parent_id"])
    /\ AllocChangeSeq(1)
    /\ StoreRows([rows EXCEPT ![l] = Created(v, changeSeq + 1)])
    /\ UNCHANGED <<fieldVersions, ledger, conflicts, lostUpdates, adjustments>>

UpdateLocation(l, v, expectedVersion) ==
    /\ Live(l)
    /\ rows[l].version = expectedVersion
    /\ v["name"] # NoText
    /\ MoveAllowed(l, v["parent_id"])
    /\ UpdateRow(l, v)
    /\ UNCHANGED <<ledger, conflicts, lostUpdates, adjustments>>

(* Mutants: the delete forgets the children, or the items. *)
LiveChildren_Forgotten(l) == {}
LiveItems_Forgotten(l) == {}

LiveChildren(l) == {c \in LocationId : Live(c) /\ Parent(c) = l}
LiveItems(l) == {i \in ItemId : Live(i) /\ rows[i].val["location_id"] = l}

(* One change_seq for the tombstone, the reparented children and the moved *)
(* items.  The moves bump the versions and record no field versions.        *)
DeletedLocationRows(l, target) ==
    [e \in EntityId |->
        IF e = l THEN Tombstoned(rows[e], changeSeq + 1)
        ELSE IF e \in LiveChildren(l)
        THEN Revised(rows[e], [rows[e].val EXCEPT !["parent_id"] = target], changeSeq + 1)
        ELSE IF e \in LiveItems(l)
        THEN Revised(rows[e], [rows[e].val EXCEPT !["location_id"] = target], changeSeq + 1)
        ELSE rows[e]]

DeleteLocation(l, reassign, target) ==
    /\ Live(l)
    /\ ~reassign => target = NoLocation /\ LiveChildren(l) = {} /\ LiveItems(l) = {}
    /\ MoveAllowed(l, target)
    /\ AllocChangeSeq(1)
    /\ StoreRows(DeletedLocationRows(l, target))
    /\ UNCHANGED <<fieldVersions, ledger, conflicts, lostUpdates, adjustments>>

----------------------------------------------------------------------------
(* Pushed mutations: [id, entity, base, fields]. *)

(* Mutant: the ledger is not consulted. *)
Unsettled_Always(m) == TRUE

(* ApplyMutation skips a mutation whose id is in the ledger. *)
Unsettled(m) == ledger[m.id] = "none"

PushCreateItem(m) ==
    LET v == FromPatch(ItemField, m.fields)
    IN  /\ Unsettled(m)
        /\ m.base = 0
        /\ \/ /\ Exists(m.entity)
              /\ SettleConflict(m.id, {EntityConflictField})
           \/ /\ ~Exists(m.entity)
              /\ LocationRowExists(v["location_id"])
              /\ \E taken \in 0 .. ShortCodeAttempts - 1 :
                    /\ AllocChangeSeq(taken + 1)
                    /\ StoreRows([rows EXCEPT ![m.entity] = Created(v, changeSeq + taken + 1)])
              /\ Settle(m.id, TRUE, {})
              /\ UNCHANGED <<fieldVersions, lostUpdates>>
           \/ /\ ~Exists(m.entity)
              /\ AllocChangeSeq(ShortCodeAttempts)
              /\ Settle(m.id, FALSE, {"short_code"})
              /\ UNCHANGED <<rows, fieldVersions, changedAt, lostUpdates>>
        /\ UNCHANGED adjustments

PushUpdateItem(m) ==
    LET conflict == PushConflicts(m.entity, m.base, DOMAIN m.fields)
        apply    == DOMAIN m.fields \ conflict
        merged   == PushMerge(rows[m.entity].val, m.fields, apply)
        rejected == rows[m.entity].version # m.base /\ apply = {}
    IN  /\ Unsettled(m)
        /\ m.base > 0
        /\ \/ /\ ~Live(m.entity)
              /\ SettleConflict(m.id, {EntityConflictField})
           \/ /\ Live(m.entity)
              /\ rejected
              /\ SettleConflict(m.id, conflict)
           \/ /\ Live(m.entity)
              /\ ~rejected
              /\ LocationRowExists(merged["location_id"])
              /\ UpdateRow(m.entity, merged)
              /\ Settle(m.id, TRUE, conflict)
              /\ Audit(m.id, m.entity, m.base)
        /\ UNCHANGED adjustments

(* [id, entity, item, delta]: creation only. *)
PushStockAdjustment(m) ==
    /\ Unsettled(m)
    /\ \/ /\ adjustments[m.entity] # NoAdjustment
          /\ SettleConflict(m.id, {EntityConflictField})
          /\ UNCHANGED adjustments
       \/ /\ adjustments[m.entity] = NoAdjustment
          /\ ~Live(m.item)
          /\ SettleConflict(m.id, {"item_id"})
          /\ UNCHANGED adjustments
       \/ /\ adjustments[m.entity] = NoAdjustment
          /\ Live(m.item)
          /\ AdjustQuantity(m.entity, m.item, m.delta)
          /\ Settle(m.id, TRUE, {})
          /\ UNCHANGED lostUpdates

PushCreateLocation(m) ==
    LET v == FromPatch(LocationField, m.fields)
    IN  /\ Unsettled(m)
        /\ m.base = 0
        /\ \/ /\ Exists(m.entity)
              /\ SettleConflict(m.id, {EntityConflictField})
           \/ /\ ~Exists(m.entity)
              /\ ~ParentIsLive(v["parent_id"])
              /\ SettleConflict(m.id, {"parent_id"})
           \/ /\ ~Exists(m.entity)
              /\ ParentIsLive(v["parent_id"])
              /\ AllocChangeSeq(1)
              /\ StoreRows([rows EXCEPT ![m.entity] = Created(v, changeSeq + 1)])
              /\ Settle(m.id, TRUE, {})
              /\ UNCHANGED <<fieldVersions, lostUpdates>>
        /\ UNCHANGED adjustments

PushUpdateLocation(m) ==
    LET conflict == PushConflicts(m.entity, m.base, DOMAIN m.fields)
        apply    == DOMAIN m.fields \ conflict
        merged   == PushMerge(rows[m.entity].val, m.fields, apply)
        rejected == rows[m.entity].version # m.base /\ apply = {}
    IN  /\ Unsettled(m)
        /\ m.base > 0
        /\ \/ /\ ~Live(m.entity)
              /\ SettleConflict(m.id, {EntityConflictField})
           \/ /\ Live(m.entity)
              /\ rejected
              /\ SettleConflict(m.id, conflict)
           \/ /\ Live(m.entity)
              /\ ~rejected
              /\ ~MoveAllowed(m.entity, merged["parent_id"])
              /\ SettleConflict(m.id, {"parent_id"} \cup conflict)
           \/ /\ Live(m.entity)
              /\ ~rejected
              /\ MoveAllowed(m.entity, merged["parent_id"])
              /\ UpdateRow(m.entity, merged)
              /\ Settle(m.id, TRUE, conflict)
              /\ Audit(m.id, m.entity, m.base)
        /\ UNCHANGED adjustments

----------------------------------------------------------------------------
ItemRow == RowValue(ItemField)
LocationRow == RowValue(LocationField)

(* A client knows only versions the server has handed out. *)
Version == 0 .. MaxSeq

ItemMutation ==
    [id : MutationId, entity : ItemId, base : Version, fields : Patch(ItemField)]
LocationMutation ==
    [id : MutationId, entity : LocationId, base : Version, fields : Patch(LocationField)]
AdjustmentMutation ==
    [id : MutationId, entity : AdjustmentId, item : ItemId, delta : Quantity]

itemCreateHandler == \E i \in ItemId, v \in ItemRow : CreateItem(i, v)
itemUpdateHandler == \E i \in ItemId, v \in ItemRow, n \in Version : UpdateItem(i, v, n)
itemDeleteHandler == \E i \in ItemId : DeleteItem(i)
stockAdjustmentCreateHandler ==
    \E a \in AdjustmentId, i \in ItemId, d \in Quantity : CreateStockAdjustment(a, i, d)
locationCreateHandler == \E l \in LocationId, v \in LocationRow : CreateLocation(l, v)
locationUpdateHandler ==
    \E l \in LocationId, v \in LocationRow, n \in Version : UpdateLocation(l, v, n)
locationDeleteHandler ==
    \E l \in LocationId, r \in BOOLEAN, t \in LocationId \cup {NoLocation} : DeleteLocation(l, r, t)

pushItem(m) == PushCreateItem(m) \/ PushUpdateItem(m)
pushLocation(m) == PushCreateLocation(m) \/ PushUpdateLocation(m)

Next ==
    \/ itemCreateHandler \/ itemUpdateHandler \/ itemDeleteHandler
    \/ stockAdjustmentCreateHandler
    \/ locationCreateHandler \/ locationUpdateHandler \/ locationDeleteHandler
    \/ \E m \in ItemMutation : pushItem(m)
    \/ \E m \in LocationMutation : pushLocation(m)
    \/ \E m \in AdjustmentMutation : PushStockAdjustment(m)

Spec == Init /\ [][Next]_vars

----------------------------------------------------------------------------
(* Properties. *)

(* The columns DeleteLocation rewrites without recording a field version.   *)
Reassigned == {"location_id", "parent_id"}

(* field_versions is exact: for every live row and every column that only   *)
(* recorded writes touch, the recorded version (1 when untracked) is the     *)
(* row version at which the value last changed; a reassigned column is       *)
(* recorded no later than it changed.  recordFieldVersionsTx runs in REST    *)
(* updates, pushes and stock adjustments, and each must diff the right rows. *)
FieldVersionsTrack ==
    \A e \in EntityId : Live(e) => \A f \in FieldName :
        /\ FieldVersion(e, f) <= changedAt[e][f]
        /\ f \notin Reassigned => FieldVersion(e, f) = changedAt[e][f]

(* A push never overwrites a value that changed after the base version its  *)
(* client saw, whatever REST edits, stock adjustments and other pushes came  *)
(* in between, for every column but the two DeleteLocation reassigns.        *)
NoLostUpdate == \A p \in lostUpdates : p[2] \in Reassigned

(* The same for every column: what the merge tests say of a REST edit that   *)
(* a stale push follows.                                                     *)
NoLostUpdateAtAll == lostUpdates = {}

(* The parent edges, those of tombstoned rows included, form a forest: every *)
(* set of locations has a member whose parent is outside it.  Create,        *)
(* update, push and the reparenting delete all rewrite edges.                *)
ForestInv ==
    \A S \in SUBSET LocationId : S # {} => \E l \in S : Parent(l) \notin S

(* A live location's parent is live: delete reparents or refuses, create,   *)
(* update and push check the parent in the same transaction.                 *)
LiveParentInv == \A l \in LocationId : Live(l) => ParentIsLive(Parent(l))

(* A stock adjustment and its item share one change_seq, and as long as the *)
(* item has not been written again it shows the adjustment's resulting       *)
(* quantity: a puller never sees one without the other.                      *)
AdjustmentTrace ==
    \A a \in AdjustmentId : adjustments[a] # NoAdjustment =>
        LET item == rows[adjustments[a].item]
        IN  /\ adjustments[a].seq \in 1 .. item.seq
            /\ adjustments[a].seq = item.seq => item.val["quantity"] = adjustments[a].resulting

(* Every change to a row moves its change_seq past the counter value any    *)
(* earlier pull or push can have handed out, its version by exactly one, and *)
(* a tombstoned row never comes back.                                        *)
ChangesAreAnnounced ==
    [][\A e \in EntityId : rows'[e] # rows[e] =>
          /\ rows'[e].seq > changeSeq
          /\ rows'[e].version = rows[e].version + 1
          /\ rows[e].state # "tombstoned"]_vars

(* When a location goes, no live item still names it: delete moves or       *)
(* refuses in the same transaction.                                          *)
DeleteStrandsNoItem ==
    [][\A l \in LocationId : Live(l) /\ ~Live(l)' =>
          \A i \in ItemId : Live(i)' => rows'[i].val["location_id"] # l]_vars

============================================================================
