--------------------------- MODULE MCItemDetails ---------------------------
(* One item, ids enough to delete and re-create what hangs off it. *)
EXTENDS ItemDetails, TLC

CONSTANTS i1, b1, b2, c1, l1, l2, x1, x2, d1, t1, t2, blank, m1, null

MCEntityId == ItemId \cup BlockId \cup PartId \cup LabelId \cup EdgeId \cup DefId
MCFieldName == {"table", "item_id", "label_id", "field_def_id", "holder", "name",
                "color", "field_type", "text_value", "number_value"}
MCValue == MCEntityId \cup Text \cup BlockTable \cup PartTable
             \cup {null, "items", "labels", "item_labels", "custom_field_defs", "text", "number"}

MCSymmetry ==
    Permutations(BlockId) \cup Permutations(LabelId) \cup Permutations(EdgeId)
      \cup Permutations(Text)

----------------------------------------------------------------------------
(* The instance is the union of three, named by the tables that are written   *)
(* in it.  They meet in the item and in the mutation ledger only.             *)
VARIABLE part

MCInit == Init /\ part \in {"details", "labels", "definitions"}

Kept == UNCHANGED part /\ (part = "definitions" => changeSeq' <= 4)

MCNext ==
    \/ ItemNext /\ Kept
    \/ part = "details" /\ (BlockNext \/ PushBlockNext) /\ Kept
    \/ part \in {"details", "definitions"} /\ (PartNext \/ PushPartNext) /\ Kept
    \/ part = "definitions" /\ DefNext /\ Kept
    \/ part = "labels" /\ (LabelNext \/ PushLabelNext) /\ Kept

MCSpec == MCInit /\ [][MCNext]_<<vars, part>>

============================================================================
