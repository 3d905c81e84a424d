---------------------------- MODULE ImportExport ----------------------------
(***************************************************************************)
(* CSV export and import over the rows of ItemDetails: an upload is staged  *)
(* as a file and a session row, a preview or commit request classifies the   *)
(* file against the tables, and one transaction writes the whole file.       *)
(* Requests interleave with each other and with every REST and push           *)
(* transaction; the server may restart, which empties the staging directory. *)
(*                                                                         *)
(* The reads of one classification are one step; the transaction is another, *)
(* later one.                                                               *)
(***************************************************************************)
EXTENDS ItemDetails, CsvCodec

CONSTANTS ImportId, Proc, None,
          File,      \* what clients upload besides exports: sequences of CSV rows
          Spelling   \* Text -> the characters of a text

ASSUME SpellingAssumption ==
    /\ DOMAIN Spelling = Text
    /\ \A s, t \in Text : Spelling[s] = Spelling[t] => s = t
    /\ Blank \in Text => Spelling[Blank] = <<>>

VARIABLES session,   \* import_sessions: id -> status
          expired,   \* sessions whose expires_at has passed
          staged,    \* tmp/imports: id -> file, None where there is none
          req,       \* the preview and commit requests being served
          applied    \* history: how often a session's file was written

importVars == <<session, expired, staged, req, applied>>
allVars == <<storeVars, importVars>>

TextOf(chars) == CHOOSE t \in Text : Spelling[t] = chars
Idle == [pc |-> "idle"]

ImportInit ==
    /\ Init
    /\ session = [s \in ImportId |-> "none"]
    /\ expired = {}
    /\ staged = [s \in ImportId |-> None]
    /\ req = [p \in Proc |-> Idle]
    /\ applied = [s \in ImportId |-> 0]

----------------------------------------------------------------------------
(* Export. *)

LabelsOf(i) == {l \in LabelId : Live(l) /\ GetItemLabel(i, l) # {}}
PartsOf(table, i) == LiveRows(PartId, table, i)
Spelled(S) == SetToSeq({Spelling[rows[e].val["name"]] : e \in S})

detailBlockOrNil(table, i) ==
    IF LiveRows(BlockId, table, i) = {} THEN NoBlock
    ELSE <<Spelling[rows[CHOOSE b \in LiveRows(BlockId, table, i) : TRUE].val["holder"]]>>

(* ListCustomFieldDefs *)
Defs == {[id |-> d, name |-> Spelling[rows[d].val["name"]], type |-> rows[d].val["field_type"]] :
            d \in {e \in DefId : Live(e)}}

ValueOf(v) == Spelling[IF v["field_type"] = "text" THEN v["text_value"] ELSE v["number_value"]]

(* A row as the exporter sees it. *)
buildExportRow(i) ==
    [id |-> i, name |-> Spelling[rows[i].val["name"]],
     labels |-> Spelled(LabelsOf(i)),
     idents |-> LET parts == SetToSeq(PartsOf("item_identifications", i))
                IN  [k \in DOMAIN parts |-> <<<<"k">>, Spelling[rows[parts[k]].val["name"]]>>],
     warranty |-> detailBlockOrNil("item_warranty", i),
     purchase |-> detailBlockOrNil("item_purchase", i),
     sale |-> detailBlockOrNil("item_sale", i),
     fields |-> {[def |-> rows[c].val["field_def_id"], name |-> Spelling[rows[c].val["name"]],
                  type |-> rows[c].val["field_type"], value |-> ValueOf(rows[c].val)] :
                    c \in PartsOf("item_custom_fields", i)}]

isAdHocCustomFieldValue(v, defs) == v.def \notin {d.id : d \in defs}

(* One of the values a column could show; export and diff take the same.     *)
Chosen(S) == CHOOSE v \in S : TRUE
OfDef(values, d) == {v \in values : v.def = d.id}
OfKey(values, defs, type, name) ==
    {v \in values : isAdHocCustomFieldValue(v, defs) /\ v.type = type /\ v.name = name}

fillCustomFieldColumns(values, defs) ==
    {<<customFieldDefHeader(d, defs), Chosen(OfDef(values, d)).value>> :
        d \in {e \in defs : OfDef(values, e) # {}}}

fillAdHocCustomFieldColumns(values, defs) ==
    {<<adHocHeader(v.type, v.name), Chosen(OfKey(values, defs, v.type, v.name)).value>> :
        v \in {u \in values : isAdHocCustomFieldValue(u, defs)}}

(* The cells of a row; of the custom field columns, those that are not empty *)
(* for it.                                                                   *)
fillFixedColumns(r, defs) ==
    [id |-> r.id, name |-> r.name,
     labels |-> encodeLabels(r.labels),
     idents |-> encodeIdentifications(r.idents),
     warranty |-> blockCells(r.warranty),
     purchase |-> blockCells(r.purchase),
     sale |-> blockCells(r.sale),
     fields |-> fillCustomFieldColumns(r.fields, defs)
                  \cup fillAdHocCustomFieldColumns(r.fields, defs)]

assembleExportRows ==
    LET items == SetToSeq({i \in ItemId : Live(i)})
    IN  [k \in DOMAIN items |-> buildExportRow(items[k])]

EncodeCSV(export, defs) == [k \in DOMAIN export |-> fillFixedColumns(export[k], defs)]

(* The file a client downloads. *)
exportItemsCSVHandler == EncodeCSV(assembleExportRows, Defs)

----------------------------------------------------------------------------
(* Parsing and classification. *)

ParseFloat(cell) == cell \in {Spelling[t] : t \in Numeral}

(* What a non-empty custom field cell proposes; {} when it is an error.      *)
Proposed(def, name, type, cell) ==
    IF type = "number" /\ ~ParseFloat(cell) THEN {}
    ELSE {[def |-> def, name |-> name, type |-> type, value |-> cell]}

ProposedBy(col, cell, defs) ==
    CASE col.kind = "adhoc" ->
           IF col.type \in {"text", "number"} THEN Proposed(Null, col.name, col.type, cell) ELSE {}
      [] col.kind = "def" -> UNION {Proposed(d.id, d.name, d.type, cell) : d \in DefOfColumn(col, defs)}
      [] col.kind = "none" -> {}

parseCustomField(column, defs) == ProposedBy(ParseCustomFieldColumn(column[1]), column[2], defs)

(* Empty cells are no values. *)
CheckCustomFields(proposals) == [value |-> UNION proposals, error |-> {} \in proposals]
parseCustomFields(columns, defs) ==
    CheckCustomFields({parseCustomField(c, defs) : c \in {d \in columns : d[2] # <<>>}})

CheckRow(cells, existing, labels, idents, fields) ==
    [action |-> CASE cells.name = <<>> \/ labels.error \/ idents.error \/ fields.error -> "error"
                  [] OTHER -> IF cells.id \in existing THEN "update" ELSE "create",
     id |-> cells.id, name |-> cells.name, labels |-> labels.value, idents |-> idents.value,
     warranty |-> parseBlock(cells.warranty), purchase |-> parseBlock(cells.purchase),
     sale |-> parseBlock(cells.sale), fields |-> fields.value]
parseRow(cells, existing, defs) ==
    CheckRow(cells, existing, parseLabels(cells.labels), parseIdentifications(cells.idents),
             parseCustomFields(cells.fields, defs))

(* The values by column, as customFieldsEqual compares them. *)
ByColumn(values, defs) ==
    {LET w == IF isAdHocCustomFieldValue(v, defs) THEN Chosen(OfKey(values, defs, v.type, v.name))
              ELSE Chosen({u \in values : u.def = v.def})
     IN  [column |-> IF isAdHocCustomFieldValue(v, defs) THEN <<v.type, v.name>> ELSE <<v.def>>,
          type |-> w.type, value |-> w.value] : v \in values}

(* A missing block and a blank one are equal. *)
BlockFields(b) == IF b = NoBlock THEN <<<<>>>> ELSE b

Count(seq, x) == Cardinality({k \in DOMAIN seq : seq[k] = x})

DiffStagedRow(cur, new, defs) ==
    {f \in {"name"} : cur.name # new.name}
    \cup {f \in {"labels"} : Range(cur.labels) # Range(new.labels)}
    \cup {f \in {"identifications"} :
            \E x \in Range(cur.idents) \cup Range(new.idents) : Count(cur.idents, x) # Count(new.idents, x)}
    \cup {f \in {"warranty", "purchase", "sale"} : BlockFields(cur[f]) # BlockFields(new[f])}
    \cup {f \in {"custom_fields"} : ByColumn(cur.fields, defs) # ByColumn(new.fields, defs)}

(* classifyImportRows, one row. *)
Classified(row, changes) ==
    [action |-> IF row.action = "update" /\ changes = {} THEN "unchanged" ELSE row.action,
     changes |-> changes, row |-> row]
Compared(row, defs) ==
    Classified(row, IF row.action = "update" THEN DiffStagedRow(buildExportRow(row.id), row, defs) ELSE {})
classify(cells) == Compared(parseRow(cells, {i \in ItemId : Live(i)}, Defs), Defs)

----------------------------------------------------------------------------
(* The commit transaction: a fold over the rows of the file.  tx.room says    *)
(* whether the instance had ids enough, tx.ok whether every row was written.  *)

LiveIn(tx, e) == tx.rows[e].state = "live"
FreshIn(tx, S) == {e \in S : tx.rows[e].state = "absent"}

CreateIn(tx, S, table, p, seq) ==
    IF FreshIn(tx, S) = {} THEN [tx EXCEPT !.room = FALSE]
    ELSE [tx EXCEPT !.rows[CHOOSE e \in FreshIn(tx, S) : TRUE] = Created(NewRow(table, p), seq)]

TombstoneIn(tx, S, seq) ==
    [tx EXCEPT !.rows = [e \in EntityId |->
        IF e \in S THEN Tombstoned(tx.rows[e], seq) ELSE tx.rows[e]]]

ReviseIn(tx, e, column, v, seq) ==
    LET version == tx.rows[e].version + 1
    IN  [tx EXCEPT !.rows[e] = Revised(tx.rows[e], [tx.rows[e].val EXCEPT ![column] = v], seq),
                   !.fv[e][column] = IF tx.rows[e].val[column] = v THEN @ ELSE version]

RowsIn(tx, S, table, i) ==
    {e \in S : LiveIn(tx, e) /\ tx.rows[e].val["table"] = table /\ tx.rows[e].val["item_id"] = i}

LabelNamed(tx, t) == {l \in LabelId : LiveIn(tx, l) /\ tx.rows[l].val["name"] = t}

(* Mutant: a label of the name is not looked for. *)
resolveLabelIDs_Unchecked(tx, t) ==
    CreateIn([tx EXCEPT !.seq = @ + 1], LabelId, "labels", [name |-> t, color |-> t], tx.seq + 1)

(* A name without a live label gets one, under a change_seq of its own.       *)
resolveLabelIDs(tx, t) ==
    IF LabelNamed(tx, t) # {} THEN tx
    ELSE CreateIn([tx EXCEPT !.seq = @ + 1], LabelId, "labels",
                  [name |-> t, color |-> CHOOSE c \in Name : TRUE], tx.seq + 1)

(* The edges are always new rows. *)
AttachNamed(tx, i, texts, seq) ==
    IF ~tx.room THEN tx
    ELSE FoldLeft(LAMBDA t, n : CreateIn(t, EdgeId, "item_labels",
                      [item_id |-> i, label_id |-> CHOOSE l \in LabelNamed(t, n) : TRUE], seq),
                  TombstoneIn(tx, RowsIn(tx, EdgeId, "item_labels", i), seq), texts)
ReplaceNamed(tx, i, texts, seq) == AttachNamed(FoldLeft(resolveLabelIDs, tx, texts), i, texts, seq)
replaceLabels(tx, i, names, seq) == ReplaceNamed(tx, i, SetToSeq({TextOf(n) : n \in Range(names)}), seq)

replaceIdentifications(tx, i, idents, seq) ==
    FoldLeft(LAMBDA t, pair : CreateIn(t, PartId, "item_identifications",
                 [item_id |-> i, name |-> TextOf(pair[2])], seq),
             TombstoneIn(tx, RowsIn(tx, PartId, "item_identifications", i), seq), idents)

replaceCustomFields(tx, i, fields, seq) ==
    FoldLeft(LAMBDA t, v : CreateIn(t, PartId, "item_custom_fields",
                 [item_id |-> i, field_def_id |-> v.def, name |-> TextOf(v.name), field_type |-> v.type,
                  text_value |-> IF v.type = "text" THEN TextOf(v.value) ELSE Null,
                  number_value |-> IF v.type = "number" THEN TextOf(v.value) ELSE Null], seq),
             TombstoneIn(tx, RowsIn(tx, PartId, "item_custom_fields", i), seq), SetToSeq(fields))

upsertBlock(tx, table, i, b, seq) ==
    IF b = NoBlock THEN TombstoneIn(tx, RowsIn(tx, BlockId, table, i), seq)
    ELSE IF RowsIn(tx, BlockId, table, i) = {}
    THEN CreateIn(tx, BlockId, table, [item_id |-> i, holder |-> TextOf(b[1])], seq)
    ELSE ReviseIn(tx, CHOOSE e \in RowsIn(tx, BlockId, table, i) : TRUE, "holder", TextOf(b[1]), seq)

upsertWarranty(tx, i, b, seq) == upsertBlock(tx, "item_warranty", i, b, seq)
upsertPurchase(tx, i, b, seq) == upsertBlock(tx, "item_purchase", i, b, seq)
upsertSale(tx, i, b, seq) == upsertBlock(tx, "item_sale", i, b, seq)

(* The parts of an item that the file changes, in the order of the code. *)
WriteLabels(tx, i, row, changes, seq) ==
    IF "labels" \in changes THEN replaceLabels(tx, i, row.labels, seq) ELSE tx
WriteIdentifications(tx, i, row, changes, seq) ==
    IF "identifications" \in changes THEN replaceIdentifications(tx, i, row.idents, seq) ELSE tx
WriteCustomFields(tx, i, row, changes, seq) ==
    IF "custom_fields" \in changes THEN replaceCustomFields(tx, i, row.fields, seq) ELSE tx
WriteBlocks(tx, i, row, changes, seq) ==
    FoldLeft(LAMBDA t, f : IF f \notin changes THEN t
                           ELSE CASE f = "warranty" -> upsertWarranty(t, i, row.warranty, seq)
                                  [] f = "purchase" -> upsertPurchase(t, i, row.purchase, seq)
                                  [] f = "sale" -> upsertSale(t, i, row.sale, seq),
             tx, <<"warranty", "purchase", "sale">>)
writeParts(tx, i, row, changes, seq) ==
    WriteBlocks(WriteCustomFields(WriteIdentifications(WriteLabels(
        tx, i, row, changes, seq), i, row, changes, seq), i, row, changes, seq), i, row, changes, seq)

EveryPart == {"labels", "identifications", "custom_fields", "warranty", "purchase", "sale"}

commitCreateRow(tx, row) ==
    IF FreshIn(tx, ItemId) = {} THEN [tx EXCEPT !.room = FALSE]
    ELSE writeParts(CreateIn([tx EXCEPT !.seq = @ + 1], ItemId, "items",
                             [name |-> TextOf(row.name)], tx.seq + 1),
                    CHOOSE e \in FreshIn(tx, ItemId) : TRUE, row, EveryPart, tx.seq + 1)

WriteName(tx, row, changes, seq) ==
    IF "name" \in changes
    THEN ReviseIn([tx EXCEPT !.seq = seq], row.id, "name", TextOf(row.name), seq)
    ELSE [tx EXCEPT !.seq = seq]

(* Mutant: the item is not read again inside the transaction. *)
commitUpdateRow_Blind(tx, row, changes) ==
    writeParts(WriteName(tx, row, changes, tx.seq + 1), row.id, row, changes, tx.seq + 1)

(* The item must still be there; its version is the one read here, so the     *)
(* classification's age does not show.                                        *)
commitUpdateRow(tx, row, changes) ==
    IF ~LiveIn(tx, row.id) THEN [tx EXCEPT !.ok = FALSE]
    ELSE writeParts(WriteName(tx, row, changes, tx.seq + 1), row.id, row, changes, tx.seq + 1)

commitRow(tx, c) ==
    CASE ~tx.ok \/ ~tx.room -> tx
      [] c.action = "create" -> commitCreateRow(tx, c.row)
      [] c.action = "update" -> commitUpdateRow(tx, c.row, c.changes)
      [] c.action = "unchanged" -> tx

CommitTx(plan) ==
    FoldLeft(commitRow,
             [seq |-> changeSeq, rows |-> rows, fv |-> fieldVersions, ok |-> TRUE, room |-> TRUE],
             plan)

----------------------------------------------------------------------------
(* The requests. *)

Goes(p, pc) == req[p].pc = pc

(* importexport.Stage: the checked file is renamed into place. *)
Stage(s, f) ==
    /\ session[s] = "none" /\ staged[s] = None
    /\ staged' = [staged EXCEPT ![s] = f]
    /\ UNCHANGED <<storeVars, session, expired, req, applied>>

(* importNativeUploadHandler goes on with the session row, *)
CreateImportSession(s) ==
    /\ session[s] = "none" /\ staged[s] # None
    /\ session' = [session EXCEPT ![s] = "staged"]
    /\ UNCHANGED <<storeVars, expired, staged, req, applied>>

(* or takes the file back when that fails. *)
RemoveStaged(s) == staged' = [staged EXCEPT ![s] = None]

UploadFails(s) ==
    /\ session[s] = "none" /\ staged[s] # None
    /\ RemoveStaged(s)
    /\ UNCHANGED <<storeVars, session, expired, req, applied>>

(* resolveStagedImportSession, for preview and commit.  A committed session   *)
(* answers 409, one that is gone 404.                                         *)
resolveStagedImportSession(p, s) ==
    /\ Goes(p, "idle")
    /\ session[s] = "staged"
    /\ req' = [req EXCEPT ![p] =
          [pc |-> IF s \in expired THEN "expired" ELSE "resolved", session |-> s]]
    /\ UNCHANGED <<storeVars, session, expired, staged, applied>>

DeleteImportSession(s) == session' = [session EXCEPT ![s] = "deleted"]

(* An expired session goes, with its file: 404. *)
DropExpired(p) ==
    /\ Goes(p, "expired")
    /\ DeleteImportSession(req[p].session)
    /\ RemoveStaged(req[p].session)
    /\ req' = [req EXCEPT ![p] = Idle]
    /\ UNCHANGED <<storeVars, expired, applied>>

(* A session without its file goes: 404.  Whatever it has become meanwhile.   *)
DropMissing(p) ==
    /\ Goes(p, "resolved")
    /\ staged[req[p].session] = None
    /\ DeleteImportSession(req[p].session)
    /\ req' = [req EXCEPT ![p] = Idle]
    /\ UNCHANGED <<storeVars, expired, staged, applied>>

Plan(file) == [k \in DOMAIN file |-> classify(file[k])]
Planned(s, plan) ==
    IF \E k \in DOMAIN plan : plan[k].action = "error" THEN Idle
    ELSE [pc |-> "classified", session |-> s, plan |-> plan]

(* The file is read and classified.  A row in error ends the request (422 for *)
(* a commit).                                                                 *)
classifyImportRows(p) ==
    /\ Goes(p, "resolved")
    /\ staged[req[p].session] # None
    /\ req' = [req EXCEPT ![p] = Planned(@.session, Plan(staged[@.session]))]
    /\ UNCHANGED <<storeVars, session, expired, staged, applied>>

(* The answer to a preview; the request's context may also end anywhere.      *)
RequestEnds(p) ==
    /\ ~Goes(p, "idle")
    /\ req' = [req EXCEPT ![p] = Idle]
    /\ UNCHANGED <<storeVars, session, expired, staged, applied>>

(* Mutant: the status is not in the update's WHERE clause. *)
MarkImportSessionCommitted_Any(s) ==
    session' = [session EXCEPT ![s] = "committed"]

MarkImportSessionCommitted(s) ==
    /\ session[s] = "staged"
    /\ session' = [session EXCEPT ![s] = "committed"]

Written(tx) ==
    /\ tx.ok /\ tx.room
    /\ tx.seq <= MaxSeq
    /\ changeSeq' = tx.seq
    /\ StoreRows(tx.rows)
    /\ fieldVersions' = tx.fv

(* The transaction.  It fails when the session is no longer staged (409) or   *)
(* an item of the file is gone (500), and then writes nothing.                *)
Commit(p) ==
    /\ Goes(p, "classified")
    /\ MarkImportSessionCommitted(req[p].session)
    /\ Written(CommitTx(req[p].plan))
    /\ applied' = [applied EXCEPT ![req[p].session] = @ + 1]
    /\ req' = [req EXCEPT ![p] = [pc |-> "applied", session |-> @.session]]
    /\ UNCHANGED <<ledger, conflicts, lostUpdates, expired, staged>>

(* The rest of importCommitHandler: the file goes, 200. *)
CommitDone(p) ==
    /\ Goes(p, "applied")
    /\ RemoveStaged(req[p].session)
    /\ req' = [req EXCEPT ![p] = Idle]
    /\ UNCHANGED <<storeVars, session, expired, applied>>

(* ImportSessionTTL *)
Expire(s) ==
    /\ session[s] = "staged" /\ s \notin expired
    /\ expired' = expired \cup {s}
    /\ UNCHANGED <<storeVars, session, staged, req, applied>>

(* The process ends and starts again: datadir.Ensure empties tmp. *)
Restart ==
    /\ req' = [p \in Proc |-> Idle]
    /\ staged' = [s \in ImportId |-> None]
    /\ UNCHANGED <<storeVars, session, expired, applied>>

(* Items().Update, as in Inventory. *)
UpdateItem(i, p, expectedVersion) ==
    /\ Live(i) /\ rows[i].version = expectedVersion
    /\ UpdateColumns(i, p)
    /\ Rest

RenameNext == \E i \in ItemId : \E n \in Seen(i), q \in ItemPatch : UpdateItem(i, q, n)

importNativeUploadHandler(s) ==
    \/ \E f \in File \cup {exportItemsCSVHandler} : Stage(s, f)
    \/ CreateImportSession(s) \/ UploadFails(s)

importPreviewHandler(p) ==
    \/ \E s \in ImportId : resolveStagedImportSession(p, s)
    \/ DropExpired(p) \/ DropMissing(p) \/ classifyImportRows(p)
    \/ RequestEnds(p)

(* The commit handler takes the same steps and, with no row in error, two more. *)
importCommitHandler(p) == importPreviewHandler(p) \/ Commit(p) \/ CommitDone(p)

UploadNext == \E s \in ImportId : importNativeUploadHandler(s) \/ Expire(s)
RequestNext == \E p \in Proc : importCommitHandler(p)

ImportNext ==
    \/ (Next \/ RenameNext) /\ UNCHANGED importVars
    \/ UploadNext
    \/ RequestNext
    \/ Restart

ImportSpec == ImportInit /\ [][ImportNext]_allVars

----------------------------------------------------------------------------
(* An import is written at most once, however many commit requests race,      *)
(* time out and are repeated: MarkImportSessionCommitted runs in the          *)
(* transaction that writes the rows.  A session is marked committed exactly   *)
(* when its rows were written; only a request that finds the file gone drops   *)
(* the mark.                                                                  *)
ImportedOnce ==
    \A s \in ImportId :
        /\ applied[s] <= 1
        /\ session[s] = "committed" => applied[s] = 1
        /\ applied[s] = 1 => session[s] \in {"committed", "deleted"}

(* A file that was exported and not edited changes nothing when it is         *)
(* imported: every row of it is classified "unchanged", whatever characters    *)
(* names contain, however many definitions share a name, and whether or not a  *)
(* block is blank.  Two kinds of custom field do not survive the file: an      *)
(* empty text (its cell reads as "no value") and a value whose definition has  *)
(* changed its type since.                                                     *)
Exportable(i) ==
    \A c \in PartsOf("item_custom_fields", i) :
        /\ rows[c].val["text_value"] # Blank
        /\ rows[c].val["field_def_id"] # Null /\ Live(rows[c].val["field_def_id"]) =>
              rows[rows[c].val["field_def_id"]].val["field_type"] = rows[c].val["field_type"]

ExportRoundTrips ==
    \A i \in ItemId : Live(i) /\ Exportable(i) =>
        classify(fillFixedColumns(buildExportRow(i), Defs)).action = "unchanged"

(* A label that was detached from an item can be attached to it again: the     *)
(* revived edges of the pair never collide in ux_item_labels_group_item_label. *)
ReattachPossible ==
    \A i \in ItemId, l \in LabelId :
        Live(i) /\ Live(l) /\ GetItemLabel(i, l) = {} => Cardinality(EdgeOf(i, l)) <= 1

============================================================================
