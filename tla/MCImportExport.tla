--------------------------- MODULE MCImportExport ---------------------------
(* One item (and one an import creates), ids enough to delete and re-create   *)
(* what hangs off it, two requests on one import.                             *)
EXTENDS ImportExport

CONSTANTS i1, i2, b1, c1, c2, l1, l2, x1, x2, d1, d2, t1, t2, blank, s1, p1, p2, null, none,
          MaxImportSeq   \* bound on the transactions around an import

MCEntityId == ItemId \cup BlockId \cup PartId \cup LabelId \cup EdgeId \cup DefId
MCFieldName == {"table", "item_id", "label_id", "field_def_id", "holder", "name",
                "color", "field_type", "text_value", "number_value"}
MCValue == MCEntityId \cup Text \cup BlockTable \cup PartTable
             \cup {null, "items", "labels", "item_labels", "custom_field_defs", "text", "number"}

MCSymmetry == Permutations(Proc)

(* A number, a text of all the characters the format escapes, and the blank. *)
MCSpelling ==
    [t \in Text |-> CASE t = t1 -> <<"1">> [] t = t2 -> <<"#", "|", "\\", ":">> [] t = blank -> <<>>]

(* A file that labels i1, one that gives it an identification and a blank    *)
(* warranty, and one of a new item with a custom field of its own and one of   *)
(* a definition "1".                                                          *)
NoCells == <<<<>>, <<>>>>
Bare ==
    [id |-> i1, name |-> <<"1">>, labels |-> <<>>, idents |-> <<>>, warranty |-> NoCells,
     purchase |-> NoCells, sale |-> NoCells, fields |-> {}]
Labelled == [Bare EXCEPT !.labels = encodeLabels(<<MCSpelling[t1]>>)]
Detailed == [Bare EXCEPT !.idents = encodeIdentifications(<<<<<<"k">>, <<"1">>>>>>),
                         !.warranty = <<<<>>, <<"0">>>>]
Added == [Bare EXCEPT !.id = none,
                      !.fields = {<<<<"cf:", <<"1">>>>, <<"1">>>>,
                                  <<adHocHeader("text", <<"1">>), <<"1">>>>}]
MCFile == {<<Labelled>>, <<Detailed>>, <<Added>>}

----------------------------------------------------------------------------
(* The instance is the union of several, named by the tables that are written *)
(* in it: without an import, for what an export can meet in them; and with one, *)
(* a file about the tables, and transactions on them in between.               *)
VARIABLE part

Parts == {"labels", "blocks", "fields", "import labels", "import details", "import fields"}

MCInit == ImportInit /\ part \in Parts

OfTable(table) == {e \in BlockId \cup PartId : rows[e].val["table"] = table}
Imported == \E s \in ImportId : applied[s] > 0
Uploaded(f) == \A s \in ImportId : staged[s] \in {None, f}

(* Colours are not exported. *)
Plain ==
    /\ \A l \in LabelId : rows[l].val["color"] # t2
    /\ part # "blocks" => OfTable("item_sale") \cup OfTable("item_purchase") = {}

(* i1 is named t2 until an import renames it. *)
Instance ==
    /\ Plain
    /\ Exists(i1) => rows[i1].val["name"] = t2 \/ rows[i1].version > 1
    /\ Exists(i2) => Imported
    /\ expired # {} => changeSeq <= 2
    /\ CASE part = "labels" -> changeSeq <= 5
         [] part = "blocks" -> changeSeq <= 4 /\ OfTable("item_custom_fields") = {}
         [] part = "fields" ->
              /\ changeSeq <= 4 /\ OfTable("item_identifications") = {}
              /\ Exists(c2) => changeSeq <= 3
         [] part = "import labels" -> Uploaded(<<Labelled>>) /\ changeSeq <= MaxImportSeq
         [] part = "import details" ->
              /\ Uploaded(<<Detailed>>) /\ changeSeq <= MaxImportSeq
              /\ OfTable("item_custom_fields") = {}
              /\ \A b \in BlockId, c \in PartId : t2 \notin {rows[b].val["holder"], rows[c].val["name"]}
         [] part = "import fields" ->
              /\ Uploaded(<<Added>>) \/ changeSeq = 1
              /\ changeSeq <= 3
              /\ Exists(i1) => ~\E s \in ImportId : staged[s] = <<Added>>

Kept == UNCHANGED part /\ Instance'
Importing == part \in {"import labels", "import details", "import fields"}

MCNext ==
    \/ ItemNext /\ UNCHANGED importVars /\ Kept
    \/ part \in {"labels", "import labels"} /\ LabelNext /\ UNCHANGED importVars /\ Kept
    \/ part = "import labels" /\ RenameNext /\ UNCHANGED importVars /\ Kept
    \/ part \in {"blocks", "import details"} /\ BlockNext /\ UNCHANGED importVars /\ Kept
    \/ part \in {"blocks", "fields", "import details"} /\ PartNext /\ UNCHANGED importVars /\ Kept
    \/ part \in {"fields", "import fields"} /\ DefNext /\ UNCHANGED importVars /\ Kept
    \/ Importing /\ UploadNext /\ Kept
    \/ Importing /\ RequestNext /\ Kept
    \/ Importing /\ Restart /\ Kept

MCSpec == MCInit /\ [][MCNext]_<<allVars, part>>

============================================================================
