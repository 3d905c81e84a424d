---------------------------- MODULE ItemDetails ----------------------------
(***************************************************************************)
(* What hangs off an item: the warranty, sale and purchase blocks (at most *)
(* one live row per item and table), the identifications and custom fields *)
(* (any number), the labels of the group and the edges that attach them,    *)
(* the group's custom field definitions.  REST transactions and push        *)
(* handlers; deleting the item takes all of its rows with it.               *)
(*                                                                         *)
(* "holder" stands for the plain columns of a block, "name" for those of an *)
(* identification, a custom field or a label.  A custom field's value is a  *)
(* union: field_type says which of the value columns is set (two of the      *)
(* four, which are treated alike).                                          *)
(***************************************************************************)
EXTENDS SyncStore, FiniteSets

CONSTANTS ItemId, BlockId, PartId, LabelId, EdgeId, DefId,
          Text,     \* contents of a text column
          Blank,    \* the empty text, when it is among them
          Numeral   \* contents of a number column

ASSUME EntityAssumption ==
    EntityId = ItemId \cup BlockId \cup PartId \cup LabelId \cup EdgeId \cup DefId
ASSUME FieldAssumption ==
    FieldName = {"table", "item_id", "label_id", "field_def_id", "holder", "name",
                 "color", "field_type", "text_value", "number_value"}
ASSUME NumeralAssumption == Numeral \subseteq Text \ {Blank}
(* A UUID names a row of one table. *)
ASSUME IdAssumption ==
    /\ ItemId \cap (BlockId \cup PartId \cup LabelId \cup EdgeId \cup DefId) = {}
    /\ BlockId \cap (PartId \cup LabelId \cup EdgeId \cup DefId) = {}
    /\ PartId \cap (LabelId \cup EdgeId \cup DefId) = {}
    /\ LabelId \cap (EdgeId \cup DefId) = {}
    /\ EdgeId \cap DefId = {}

vars == storeVars

BlockTable == {"item_warranty", "item_sale", "item_purchase"}
PartTable == {"item_identifications", "item_custom_fields"}
TablesOf(e) ==
    CASE e \in ItemId -> {"items"}
      [] e \in BlockId -> BlockTable
      [] e \in PartId -> PartTable
      [] e \in LabelId -> {"labels"}
      [] e \in EdgeId -> {"item_labels"}
      [] e \in DefId -> {"custom_field_defs"}

(* Ids, texts, table and type names are column values; NULL is no text. *)
ASSUME ValueAssumption ==
    /\ EntityId \cup Text \cup {"text", "number"} \cup UNION {TablesOf(e) : e \in EntityId}
         \subseteq Value
    /\ Null \notin Text

(* validateCustomFieldValueColumns: a field sets its own value column only. *)
Union == {"field_type", "text_value", "number_value"}
Coherent(v) ==
    \/ v["field_type"] = "text" /\ v["text_value"] # Null /\ v["number_value"] = Null
    \/ v["field_type"] = "number" /\ v["number_value"] # Null /\ v["text_value"] = Null

(* What a client sends.  Columns are named by the domain: a record of       *)
(* column values is a patch.  A client that writes a custom field's value    *)
(* writes the whole union.  Names are not empty.                             *)
Name == Text \ {Blank}
ItemPatch == [name : Name]
WarrantyPatch == [item_id : ItemId, holder : Text]
SalePatch == [item_id : ItemId, holder : Text]
PurchasePatch == [item_id : ItemId, holder : Text]
IdentificationPatch == [item_id : ItemId, name : Name]
LabelPatch == [name : Name, color : Name]
DefPatch == [name : Name, field_type : {"text", "number"}]
UnionPatch ==
    [item_id : ItemId, field_type : {"text"}, text_value : Text, number_value : {Null}] \cup
    [item_id : ItemId, field_type : {"number"}, text_value : {Null}, number_value : Numeral]
CustomFieldPatch ==
    {[item_id |-> u.item_id, field_def_id |-> d, name |-> n, field_type |-> u.field_type,
      text_value |-> u.text_value, number_value |-> u.number_value] :
        u \in UnionPatch, d \in DefId \cup {Null}, n \in Name}

(* The row a create stores: the patch, Null in the columns of other tables. *)
NewRow(table, p) ==
    [f \in FieldName |->
        IF f \in DOMAIN p THEN p[f] ELSE IF f = "table" THEN table ELSE Null]

TypeOK ==
    /\ StoreTypeOK
    /\ \A e \in EntityId : Exists(e) => rows[e].val["table"] \in TablesOf(e)

Init == StoreInit

----------------------------------------------------------------------------
(* The tables.  A statement that inserts or updates allocates a change_seq;  *)
(* one that deletes is given by the rows it tombstones.  Above the statements *)
(* lie the transactions (...Tx), the services, which hand out the ids, and    *)
(* the request handlers.                                                      *)

InsertRow(e, table, p) ==
    /\ AllocChangeSeq(1)
    /\ StoreRows([rows EXCEPT ![e] = Created(NewRow(table, p), changeSeq + 1)])
    /\ UNCHANGED fieldVersions

TombstoneRows(S) ==
    /\ AllocChangeSeq(1)
    /\ StoreRows([e \in EntityId |->
                    IF e \in S THEN Tombstoned(rows[e], changeSeq + 1) ELSE rows[e]])
    /\ UNCHANGED fieldVersions

UpdateColumns(e, p) == UpdateRow(e, PushMerge(rows[e].val, p, DOMAIN p))

Rest == UNCHANGED <<ledger, conflicts, lostUpdates>>

(* The live rows of a table that belong to an item. *)
LiveOf(S, i) == {e \in S : Live(e) /\ rows[e].val["item_id"] = i}
LiveRows(S, table, i) == {e \in LiveOf(S, i) : rows[e].val["table"] = table}

(* newID: an id no row has. *)
Unused(S) == {e \in S : ~Exists(e)}

(* The versions of a row a client can have read. *)
Seen(e) == 1..rows[e].version

GetItem(i) == Live(i)

----------------------------------------------------------------------------
(* Warranty, sale and purchase: one live row per item, found by the item. *)

CreateItemWarranty(b, p) == InsertRow(b, "item_warranty", p)
GetItemWarranty(i) == LiveRows(BlockId, "item_warranty", i)
UpdateItemWarranty(b, p) == UpdateColumns(b, p)
DeleteItemWarranty(i) == GetItemWarranty(i)

(* Mutant: a second warranty of the item is not refused. *)
createWarrantyTx_Second(b, p) == GetItem(p.item_id) /\ CreateItemWarranty(b, p)

createWarrantyTx(b, p) ==
    /\ GetItem(p.item_id)
    /\ GetItemWarranty(p.item_id) = {}
    /\ CreateItemWarranty(b, p)

updateWarrantyTx(p, expectedVersion) ==
    \E b \in GetItemWarranty(p.item_id) :
        rows[b].version = expectedVersion /\ UpdateItemWarranty(b, p)

DeleteWarranty(i) == DeleteItemWarranty(i) # {} /\ TombstoneRows(DeleteItemWarranty(i))

CreateWarranty(p) == \E b \in Unused(BlockId) : createWarrantyTx(b, p)
UpdateWarranty(p) == \E b \in BlockId : \E n \in Seen(b) : updateWarrantyTx(p, n)

warrantyCreateHandler == \E p \in WarrantyPatch : CreateWarranty(p) /\ Rest
warrantyUpdateHandler == \E p \in WarrantyPatch : UpdateWarranty(p) /\ Rest
warrantyDeleteHandler == \E i \in ItemId : DeleteWarranty(i) /\ Rest

(* Mutant: the wrong table. *)
CreateItemSale_Copied(b, p) == InsertRow(b, "item_identifications", p)

CreateItemSale(b, p) == InsertRow(b, "item_sale", p)
GetItemSale(i) == LiveRows(BlockId, "item_sale", i)
UpdateItemSale(b, p) == UpdateColumns(b, p)
DeleteItemSale(i) == GetItemSale(i)

createSaleTx(b, p) ==
    /\ GetItem(p.item_id)
    /\ GetItemSale(p.item_id) = {}
    /\ CreateItemSale(b, p)

updateSaleTx(p, expectedVersion) ==
    \E b \in GetItemSale(p.item_id) :
        rows[b].version = expectedVersion /\ UpdateItemSale(b, p)

DeleteSale(i) == DeleteItemSale(i) # {} /\ TombstoneRows(DeleteItemSale(i))

CreateSale(p) == \E b \in Unused(BlockId) : createSaleTx(b, p)
UpdateSale(p) == \E b \in BlockId : \E n \in Seen(b) : updateSaleTx(p, n)

saleCreateHandler == \E p \in SalePatch : CreateSale(p) /\ Rest
saleUpdateHandler == \E p \in SalePatch : UpdateSale(p) /\ Rest
saleDeleteHandler == \E i \in ItemId : DeleteSale(i) /\ Rest

CreateItemPurchase(b, p) == InsertRow(b, "item_purchase", p)
GetItemPurchase(i) == LiveRows(BlockId, "item_purchase", i)
UpdateItemPurchase(b, p) == UpdateColumns(b, p)
DeleteItemPurchase(i) == GetItemPurchase(i)

createPurchaseTx(b, p) ==
    /\ GetItem(p.item_id)
    /\ GetItemPurchase(p.item_id) = {}
    /\ CreateItemPurchase(b, p)

updatePurchaseTx(p, expectedVersion) ==
    \E b \in GetItemPurchase(p.item_id) :
        rows[b].version = expectedVersion /\ UpdateItemPurchase(b, p)

DeletePurchase(i) == DeleteItemPurchase(i) # {} /\ TombstoneRows(DeleteItemPurchase(i))

CreatePurchase(p) == \E b \in Unused(BlockId) : createPurchaseTx(b, p)
UpdatePurchase(p) == \E b \in BlockId : \E n \in Seen(b) : updatePurchaseTx(p, n)

purchaseCreateHandler == \E p \in PurchasePatch : CreatePurchase(p) /\ Rest
purchaseUpdateHandler == \E p \in PurchasePatch : UpdatePurchase(p) /\ Rest
purchaseDeleteHandler == \E i \in ItemId : DeletePurchase(i) /\ Rest
----------------------------------------------------------------------------
(* Identifications and custom fields: any number of live rows per item,       *)
(* found by item and id.                                                      *)

CreateItemIdentification(c, p) == InsertRow(c, "item_identifications", p)
GetItemIdentification(i, c) == c \in LiveRows(PartId, "item_identifications", i)
UpdateItemIdentification(c, p) == UpdateColumns(c, p)
DeleteItemIdentification(i, c) == {d \in {c} : GetItemIdentification(i, d)}

createIdentificationTx(c, p) == GetItem(p.item_id) /\ CreateItemIdentification(c, p)
updateIdentificationTx(c, p, expectedVersion) ==
    /\ GetItemIdentification(p.item_id, c)
    /\ rows[c].version = expectedVersion
    /\ UpdateItemIdentification(c, p)
DeleteIdentification(i, c) ==
    DeleteItemIdentification(i, c) # {} /\ TombstoneRows(DeleteItemIdentification(i, c))

CreateIdentification(p) == \E c \in Unused(PartId) : createIdentificationTx(c, p)
UpdateIdentification(c, p) == \E n \in Seen(c) : updateIdentificationTx(c, p, n)

identificationCreateHandler == \E p \in IdentificationPatch : CreateIdentification(p) /\ Rest
identificationUpdateHandler ==
    \E c \in PartId, p \in IdentificationPatch : UpdateIdentification(c, p) /\ Rest
identificationDeleteHandler ==
    \E c \in PartId, i \in ItemId : DeleteIdentification(i, c) /\ Rest

(* A field may refer to a definition of its type.  The definition is read     *)
(* before the transaction; one that goes, or changes its type, in between      *)
(* leaves what it leaves going after.                                         *)
GetCustomFieldDef(d) == d \in DefId /\ Live(d)
resolveFieldDef(p) ==
    "field_def_id" \in DOMAIN p /\ p["field_def_id"] # Null /\ "field_type" \in DOMAIN p =>
        GetCustomFieldDef(p["field_def_id"])
          /\ rows[p["field_def_id"]].val["field_type"] = p["field_type"]

InsertItemCustomField(c, p) == InsertRow(c, "item_custom_fields", p)
GetItemCustomField(i, c) == c \in LiveRows(PartId, "item_custom_fields", i)
SetItemCustomField(c, p) == UpdateColumns(c, p)
TombstoneItemCustomField(i, c) == {d \in {c} : GetItemCustomField(i, d)}

createItemCustomFieldTx(c, p) == GetItem(p.item_id) /\ InsertItemCustomField(c, p)
updateItemCustomFieldTx(c, p, expectedVersion) ==
    /\ GetItemCustomField(p.item_id, c)
    /\ rows[c].version = expectedVersion
    /\ SetItemCustomField(c, p)
DeleteItemCustomField(i, c) ==
    TombstoneItemCustomField(i, c) # {} /\ TombstoneRows(TombstoneItemCustomField(i, c))

CreateItemCustomField(p) ==
    resolveFieldDef(p) /\ \E c \in Unused(PartId) : createItemCustomFieldTx(c, p)
UpdateItemCustomField(c, p) ==
    resolveFieldDef(p) /\ \E n \in Seen(c) : updateItemCustomFieldTx(c, p, n)

itemCustomFieldCreateHandler == \E p \in CustomFieldPatch : CreateItemCustomField(p) /\ Rest
itemCustomFieldUpdateHandler ==
    \E c \in PartId, p \in CustomFieldPatch : UpdateItemCustomField(c, p) /\ Rest
itemCustomFieldDeleteHandler ==
    \E c \in PartId, i \in ItemId : DeleteItemCustomField(i, c) /\ Rest

----------------------------------------------------------------------------
(* Custom field definitions.  Values keep their name, type and field_def_id  *)
(* when the definition changes or goes.  No field versions are recorded.      *)

InsertCustomFieldDef(d, p) == InsertRow(d, "custom_field_defs", p)
SetCustomFieldDef(d, p) ==
    /\ AllocChangeSeq(1)
    /\ StoreRows([rows EXCEPT ![d] =
            Revised(rows[d], PushMerge(rows[d].val, p, DOMAIN p), changeSeq + 1)])
    /\ UNCHANGED fieldVersions

CreateDef(d, p) == ~Exists(d) /\ InsertCustomFieldDef(d, p)
UpdateDef(d, p, expectedVersion) ==
    GetCustomFieldDef(d) /\ rows[d].version = expectedVersion /\ SetCustomFieldDef(d, p)
DeleteDef(d) == GetCustomFieldDef(d) /\ TombstoneRows({d})

CreateCustomFieldDef(p) == \E d \in Unused(DefId) : CreateDef(d, p)
UpdateCustomFieldDef(d, p) == \E n \in Seen(d) : UpdateDef(d, p, n)

customFieldDefCreateHandler == \E p \in DefPatch : CreateCustomFieldDef(p) /\ Rest
customFieldDefUpdateHandler ==
    \E d \in DefId, p \in DefPatch : UpdateCustomFieldDef(d, p) /\ Rest
customFieldDefDeleteHandler == \E d \in DefId : DeleteDef(d) /\ Rest

----------------------------------------------------------------------------
(* Labels and label edges. *)

InsertLabel(l, p) == InsertRow(l, "labels", p)
GetLabel(l) == Live(l)
SetLabel(l, p) == UpdateColumns(l, p)

(* Mutant: the index is trusted to refuse a second label of the name. *)
GetLabelByName_None(n) == {}

(* No index keeps the names apart. *)
GetLabelByName(n) == {k \in LabelId : Live(k) /\ rows[k].val["name"] = n}
NameTaken(l, n) == GetLabelByName(n) \ {l} # {}

createLabelTx(l, p) == ~NameTaken(l, p.name) /\ InsertLabel(l, p)
updateLabelTx(l, p, expectedVersion) ==
    /\ GetLabel(l)
    /\ rows[l].version = expectedVersion
    /\ ~NameTaken(l, p.name)
    /\ SetLabel(l, p)

(* The edges of a deleted label stay; the queries join them away. *)
DeleteLabel(l) == GetLabel(l) /\ TombstoneRows({l})

CreateLabel(p) == \E l \in Unused(LabelId) : createLabelTx(l, p)
UpdateLabel(l, p) == \E n \in Seen(l) : updateLabelTx(l, p, n)

labelCreateHandler == \E p \in LabelPatch : CreateLabel(p) /\ Rest
labelUpdateHandler == \E l \in LabelId, p \in LabelPatch : UpdateLabel(l, p) /\ Rest
labelDeleteHandler == \E l \in LabelId : DeleteLabel(l) /\ Rest

EdgeOf(i, l) ==
    {x \in EdgeId : Exists(x) /\ rows[x].val["item_id"] = i /\ rows[x].val["label_id"] = l}
GetItemLabel(i, l) == {x \in EdgeOf(i, l) : Live(x)}
CreateItemLabel(x, i, l) == InsertRow(x, "item_labels", [item_id |-> i, label_id |-> l])
DeleteItemLabel(i, l) == GetItemLabel(i, l)

(* Every edge of the pair is revived: with two of them the unique index over  *)
(* the live edges fails the transaction.                                      *)
Revived(r, s) == [state |-> "live", version |-> r.version + 1, seq |-> s, val |-> r.val]
ReviveItemLabel(i, l) ==
    /\ Cardinality(EdgeOf(i, l)) = 1
    /\ AllocChangeSeq(1)
    /\ StoreRows([e \in EntityId |->
         IF e \in EdgeOf(i, l) THEN Revived(rows[e], changeSeq + 1) ELSE rows[e]])
    /\ UNCHANGED fieldVersions

NothingWritten == UNCHANGED <<changeSeq, rows, changedAt, fieldVersions>>

(* Mutant: always a new row. *)
attachItemLabelTx_NoRevive(x, i, l) ==
    /\ GetItem(i) /\ GetLabel(l)
    /\ \/ GetItemLabel(i, l) # {} /\ NothingWritten
       \/ GetItemLabel(i, l) = {} /\ ~Exists(x) /\ CreateItemLabel(x, i, l)

(* An attached label stays as it is, a detached edge is revived under its     *)
(* own id, otherwise the edge is new.                                         *)
attachItemLabelTx(x, i, l) ==
    /\ GetItem(i) /\ GetLabel(l)
    /\ \/ GetItemLabel(i, l) # {} /\ NothingWritten
       \/ GetItemLabel(i, l) = {} /\ ReviveItemLabel(i, l)
       \/ EdgeOf(i, l) = {} /\ ~Exists(x) /\ CreateItemLabel(x, i, l)

detachItemLabelTx(i, l) == DeleteItemLabel(i, l) # {} /\ TombstoneRows(DeleteItemLabel(i, l))

AttachLabel(i, l) == \E x \in EdgeId : attachItemLabelTx(x, i, l)
DetachLabel(i, l) == detachItemLabelTx(i, l)

itemLabelAttachHandler == \E i \in ItemId, l \in LabelId : AttachLabel(i, l) /\ Rest
itemLabelDetachHandler == \E i \in ItemId, l \in LabelId : DetachLabel(i, l) /\ Rest

----------------------------------------------------------------------------
(* Items.  A delete takes along the rows of six tables, under one change_seq. *)

CreateItem(p) == \E i \in Unused(ItemId) : InsertRow(i, "items", p)

(* Mutant: the custom fields are left behind. *)
CascadeDeleteItemCustomFields_None(i) == {}

CascadeDeleteItemIdentifications(i) == LiveRows(PartId, "item_identifications", i)
CascadeDeleteItemCustomFields(i) == LiveRows(PartId, "item_custom_fields", i)
CascadeDeleteItemLabels(i) == LiveOf(EdgeId, i)

DeleteItem(i) ==
    /\ GetItem(i)
    /\ TombstoneRows({i} \cup DeleteItemWarranty(i) \cup DeleteItemSale(i) \cup DeleteItemPurchase(i)
         \cup CascadeDeleteItemIdentifications(i) \cup CascadeDeleteItemCustomFields(i)
         \cup CascadeDeleteItemLabels(i))

itemCreateHandler == \E p \in ItemPatch : CreateItem(p) /\ Rest
itemDeleteHandler == \E i \in ItemId : DeleteItem(i) /\ Rest

----------------------------------------------------------------------------
(* Pushed mutations: [id, entity, base, fields]. *)

Unsettled(m) == ledger[m.id] = "none"

(* Field versions are looked up under the id the client sent, the current   *)
(* version is that of the row the handler found.                             *)
Conflicts(m, current) ==
    IF rows[current].version = m.base THEN {}
    ELSE PushFieldLevelMergePolicy(m.entity, m.base, DOMAIN m.fields)

(* Mutant: the members of the union are merged one by one. *)
UnionRule_OneByOne(names, conflict) == conflict

(* pushCustomFieldValueUnionRule *)
UnionRule(names, conflict) ==
    IF conflict \cap Union = {} THEN conflict ELSE conflict \cup (names \cap Union)

(* The columns a push overwrites although the client has not seen them.     *)
AuditRow(m, current) ==
    Audit(m.id, current, IF m.entity = current THEN m.base ELSE 0)

(* item_id is always sent and never changes, so the part of a patch that     *)
(* applies is never empty: a push that loses every other column still bumps  *)
(* the row's version.                                                        *)
MergeInto(current, m, conflict) ==
    /\ UpdateRow(current, PushMerge(rows[current].val, m.fields, DOMAIN m.fields \ conflict))
    /\ Settle(m.id, TRUE, conflict)
    /\ AuditRow(m, current)

PushCreate(table, m) ==
    /\ InsertRow(m.entity, table, m.fields)
    /\ Settle(m.id, TRUE, {})
    /\ UNCHANGED lostUpdates

PushBlock(table, m) ==
    LET found == LiveRows(BlockId, table, m.fields.item_id)
    IN  /\ Unsettled(m)
        /\ \/ /\ m.base = 0
              /\ Exists(m.entity) \/ (Live(m.fields.item_id) /\ found # {})
              /\ SettleConflict(m.id, {EntityConflictField})
           \/ /\ m.base = 0
              /\ ~Exists(m.entity) /\ ~Live(m.fields.item_id)
              /\ SettleConflict(m.id, {"item_id"})
           \/ /\ m.base = 0
              /\ ~Exists(m.entity) /\ Live(m.fields.item_id) /\ found = {}
              /\ PushCreate(table, m)
           \/ /\ m.base > 0
              /\ found = {}
              /\ SettleConflict(m.id, {EntityConflictField})
           \/ /\ m.base > 0
              /\ \E b \in found : MergeInto(b, m, Conflicts(m, b))

PushWarrantyBlock(m) == PushBlock("item_warranty", m)
PushSoldToBlock(m) == PushBlock("item_sale", m)
PushPurchasedFromBlock(m) == PushBlock("item_purchase", m)

PushPart(table, m, conflict) ==
    /\ Unsettled(m)
    /\ \/ /\ m.base = 0
          /\ Exists(m.entity)
          /\ SettleConflict(m.id, {EntityConflictField})
       \/ /\ m.base = 0
          /\ ~Exists(m.entity) /\ ~Live(m.fields.item_id)
          /\ SettleConflict(m.id, {"item_id"})
       \/ /\ m.base = 0
          /\ ~Exists(m.entity) /\ Live(m.fields.item_id)
          /\ PushCreate(table, m)
       \/ /\ m.base > 0
          /\ m.entity \notin LiveRows(PartId, table, m.fields.item_id)
          /\ SettleConflict(m.id, {EntityConflictField})
       \/ /\ m.base > 0
          /\ m.entity \in LiveRows(PartId, table, m.fields.item_id)
          /\ MergeInto(m.entity, m, conflict)

PushItemIdentification(m) ==
    PushPart("item_identifications", m, Conflicts(m, m.entity))
PushItemCustomField(m) ==
    /\ resolveFieldDef(m.fields)
    /\ PushPart("item_custom_fields", m, UnionRule(DOMAIN m.fields, Conflicts(m, m.entity)))

PushLabel(m) ==
    LET conflict == Conflicts(m, m.entity)
        merged == PushMerge(rows[m.entity].val, m.fields, DOMAIN m.fields \ conflict)
    IN  /\ Unsettled(m)
        /\ \/ /\ IF m.base = 0 THEN Exists(m.entity) ELSE ~Live(m.entity)
              /\ SettleConflict(m.id, {EntityConflictField})
           \/ /\ m.base = 0 /\ ~Exists(m.entity)
              /\ IF NameTaken(m.entity, m.fields.name)
                 THEN SettleConflict(m.id, {"name"})
                 ELSE PushCreate("labels", m)
           \/ /\ m.base > 0 /\ Live(m.entity)
              /\ conflict = DOMAIN m.fields
              /\ SettleConflict(m.id, conflict)
           \/ /\ m.base > 0 /\ Live(m.entity)
              /\ conflict # DOMAIN m.fields
              /\ IF NameTaken(m.entity, merged["name"])
                 THEN SettleConflict(m.id, conflict \cup {"name"})
                 ELSE MergeInto(m.entity, m, conflict)

(* base is always 0. *)
PushItemLabel(m) ==
    LET i == m.fields.item_id
        l == m.fields.label_id
    IN  /\ Unsettled(m)
        /\ \/ /\ Exists(m.entity)
              /\ SettleConflict(m.id, {EntityConflictField})
           \/ /\ ~Exists(m.entity) /\ ~Live(i)
              /\ SettleConflict(m.id, {"item_id"})
           \/ /\ ~Exists(m.entity) /\ Live(i) /\ ~Live(l)
              /\ SettleConflict(m.id, {"label_id"})
           \/ /\ ~Exists(m.entity) /\ Live(i) /\ Live(l)
              /\ attachItemLabelTx(m.entity, i, l)
              /\ Settle(m.id, TRUE, {})
              /\ UNCHANGED lostUpdates

PushItemLabelDelete(m) ==
    LET edge == GetItemLabel(m.fields.item_id, m.fields.label_id)
    IN  /\ Unsettled(m)
        /\ \/ edge = {} /\ SettleConflict(m.id, {EntityConflictField})
           \/ /\ edge # {}
              /\ TombstoneRows(edge)
              /\ Settle(m.id, TRUE, {})
              /\ UNCHANGED lostUpdates

----------------------------------------------------------------------------
(* Ids are UUIDs: one is never used in two tables. *)
InTable(e, table) == Exists(e) => rows[e].val["table"] = table

(* A client creates (base 0) or bases its update on a version it has read.  *)
Mutations(e, patches) ==
    [id : MutationId, entity : {e}, base : {0} \cup Seen(e), fields : patches]

ItemNext == itemCreateHandler \/ itemDeleteHandler

DefNext ==
    customFieldDefCreateHandler \/ customFieldDefUpdateHandler \/ customFieldDefDeleteHandler

BlockNext ==
    \/ warrantyCreateHandler \/ warrantyUpdateHandler \/ warrantyDeleteHandler
    \/ saleCreateHandler \/ saleUpdateHandler \/ saleDeleteHandler
    \/ purchaseCreateHandler \/ purchaseUpdateHandler \/ purchaseDeleteHandler

PartNext ==
    \/ identificationCreateHandler \/ identificationUpdateHandler \/ identificationDeleteHandler
    \/ itemCustomFieldCreateHandler \/ itemCustomFieldUpdateHandler \/ itemCustomFieldDeleteHandler

LabelNext ==
    \/ labelCreateHandler \/ labelUpdateHandler \/ labelDeleteHandler
    \/ itemLabelAttachHandler \/ itemLabelDetachHandler

PushBlockNext ==
    \E b \in BlockId :
        \/ /\ InTable(b, "item_warranty")
           /\ \E m \in Mutations(b, WarrantyPatch) : PushWarrantyBlock(m)
        \/ /\ InTable(b, "item_sale")
           /\ \E m \in Mutations(b, SalePatch) : PushSoldToBlock(m)
        \/ /\ InTable(b, "item_purchase")
           /\ \E m \in Mutations(b, PurchasePatch) : PushPurchasedFromBlock(m)

(* A create names every column; an update of a custom field names the plain *)
(* columns or the whole union.                                               *)
PushPartNext ==
    \E c \in PartId :
        \/ /\ InTable(c, "item_identifications")
           /\ \E m \in Mutations(c, IdentificationPatch) : PushItemIdentification(m)
        \/ /\ InTable(c, "item_custom_fields")
           /\ \/ \E m \in Mutations(c, CustomFieldPatch) :
                    m.base = 0 /\ PushItemCustomField(m)
              \/ \E m \in Mutations(c, IdentificationPatch \cup UnionPatch) :
                    m.base > 0 /\ PushItemCustomField(m)

PushLabelNext ==
    \/ \E l \in LabelId : \E m \in Mutations(l, LabelPatch) : PushLabel(m)
    \/ \E x \in EdgeId :
          \E m \in Mutations(x, [item_id : ItemId, label_id : LabelId]) :
              m.base = 0 /\ (PushItemLabel(m) \/ PushItemLabelDelete(m))

Next == ItemNext \/ BlockNext \/ PartNext \/ LabelNext \/ DefNext
            \/ PushBlockNext \/ PushPartNext \/ PushLabelNext

Spec == Init /\ [][Next]_vars

----------------------------------------------------------------------------
(* Deleting an item takes along everything that hangs off it, and nothing   *)
(* can be hung off it later: no REST or push transaction leaves a live       *)
(* block, identification, custom field or label edge of a dead item.         *)
NoOrphans ==
    \A e \in BlockId \cup PartId \cup EdgeId :
        Live(e) => rows[e].val["item_id"] \in {i \in ItemId : Live(i)}

(* At most one live block per item and table, whatever REST and pushes      *)
(* create and delete: every handler finds a block by its item alone.         *)
OneBlockPerItem ==
    \A i \in ItemId, t \in BlockTable : Cardinality(LiveRows(BlockId, t, i)) <= 1

(* One edge row, attached or not, per item and label: attaching again        *)
(* revives the edge under its old id and announces it under a new            *)
(* change_seq, so a device never holds two rows for one assignment.          *)
OneEdgePerPair ==
    \A i \in ItemId, l \in LabelId : Cardinality(EdgeOf(i, l)) <= 1

(* No two live labels of a group share a name, whichever of REST create,    *)
(* REST rename, pushed create and pushed merge wrote them.  The index on the *)
(* name is not unique: only GetLabelByName keeps them apart.                 *)
LabelNamesUnique ==
    \A k, l \in LabelId :
        Live(k) /\ Live(l) /\ rows[k].val["name"] = rows[l].val["name"] => k = l

(* A custom field always holds the value its field_type announces and no     *)
(* other, also after a stale push was merged into it column by column:        *)
(* pushCustomFieldValueUnionRule lets the columns of the value in or out      *)
(* together.                                                                  *)
UnionCoherent ==
    \A c \in PartId : Live(c) /\ rows[c].val["table"] = "item_custom_fields"
        => Coherent(rows[c].val)

(* No push overwrites, without logging a conflict, a column of an            *)
(* identification, custom field or label that changed after the version the  *)
(* client based it on.                                                        *)
NoLostUpdate == \A u \in lostUpdates : u[2] = "holder"

(* The same for the blocks of an item.  A block is found by its item, while  *)
(* its field versions are looked up under the id the client sent.            *)
NoLostBlockUpdate == \A u \in lostUpdates : u[2] # "holder"

============================================================================
