---------------------------- MODULE MCInventory ----------------------------
(* The instance is the union of two: a location, an adjustment and two         *)
(* mutations; and a tree of three locations with one mutation.                *)
EXTENDS Inventory, TLC

CONSTANTS i1, l0, l1, l2, l3, a1, m1, m2, m3, t1

MCEntityId == ItemId \cup LocationId
MCFieldName == {"name", "location_id", "quantity", "parent_id"}
MCValue == Text \cup LocationId \cup {NoLocation, Null} \cup Quantity

Symmetry == Permutations({l1, l2, l3}) \cup Permutations({m1, m2})

VARIABLE part

Parts == {"merge", "tree"}
Places == [merge |-> {l0}, tree |-> {l1, l2, l3}]
Mutations == [merge |-> {m1, m2}, tree |-> {m3}]
LastSeq == [merge |-> MaxSeq - 1, tree |-> MaxSeq]

(* What clients send in each. *)
Known(p, patches) ==
    {v : v \in {w \in patches : \A f \in DOMAIN w \cap {"location_id", "parent_id"} :
                    w[f] \in Places[p] \cup {NoLocation, Null}}}
MergeItemRow == Known("merge", ItemRow)
MergeLocationRow == Known("merge", LocationRow)
MergeItemPatch == Known("merge", Patch(ItemField))
MergeLocationPatch == Known("merge", Patch(LocationField))
TreeItemRow == Known("tree", ItemRow)
TreeLocationRow == Known("tree", LocationRow)
TreeItemPatch == Known("tree", Patch(ItemField))
TreeLocationPatch == Known("tree", Patch(LocationField))

Sent(merge, tree) == IF part = "merge" THEN merge ELSE tree

Seen(e) == 1..rows[e].version
Pushes(e, patches) ==
    [id : Mutations[part], entity : {e}, base : {0} \cup Seen(e), fields : patches]

Rest ==
    \/ \E v \in Sent(MergeItemRow, TreeItemRow) : CreateItem(i1, v)
    \/ \E v \in Sent(MergeItemRow, TreeItemRow), n \in Seen(i1) : UpdateItem(i1, v, n)
    \/ DeleteItem(i1)
    \/ part = "merge" /\ \E d \in Quantity : CreateStockAdjustment(a1, i1, d)
    \/ \E l \in Places[part], v \in Sent(MergeLocationRow, TreeLocationRow) : CreateLocation(l, v)
    \/ \E l \in Places[part] : \E v \in Sent(MergeLocationRow, TreeLocationRow), n \in Seen(l) : UpdateLocation(l, v, n)
    \/ \E l \in Places[part], r \in BOOLEAN, t \in Places[part] \cup {NoLocation} :
          DeleteLocation(l, r, t)

Push ==
    \/ \E m \in Pushes(i1, Sent(MergeItemPatch, TreeItemPatch)) : PushCreateItem(m) \/ PushUpdateItem(m)
    \/ \E l \in Places[part] : \E m \in Pushes(l, Sent(MergeLocationPatch, TreeLocationPatch)) :
          PushCreateLocation(m) \/ PushUpdateLocation(m)
    \/ /\ part = "merge"
       /\ \E m \in [id : Mutations[part], entity : {a1}, item : {i1}, delta : Quantity] :
             PushStockAdjustment(m)

Kept == UNCHANGED part /\ changeSeq' <= LastSeq[part]

MCInit == Init /\ part \in Parts
MCNext == (Rest /\ Kept) \/ (Push /\ Kept)
MCSpec == MCInit /\ [][MCNext]_<<vars, part>>

============================================================================
