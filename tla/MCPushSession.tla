--------------------------- MODULE MCPushSession ---------------------------
EXTENDS PushSession, TLC

CONSTANTS t1, i1, l1, l2, a1, a2, m1, m2, m3, m4, m5, r1, r2

MCItemId == {i1}
MCLocationId == {l1, l2}
MCAdjustmentId == {a1, a2}
MCMutationId == {m1, m2, m3, m4, m5}
MCEntityId == MCItemId \cup MCLocationId
MCFieldName == {"name", "location_id", "quantity", "parent_id"}
MCText == {NoText, t1}
MCValue == MCText \cup MCLocationId \cup {NoLocation, Null} \cup (-QuantityLimit .. QuantityLimit - 1)

(* Create an item, adjust its stock twice and save it unchanged, offline. *)
StockBatch ==
    << [type |-> "item", m |-> [id |-> m1, entity |-> i1, base |-> 0, fields |-> "name" :> t1]],
       [type |-> "stock_adjustment", m |-> [id |-> m2, entity |-> a1, item |-> i1, delta |-> 1]],
       [type |-> "stock_adjustment", m |-> [id |-> m3, entity |-> a2, item |-> i1, delta |-> 1]],
       [type |-> "item", m |-> [id |-> m4, entity |-> i1, base |-> 1, fields |-> "name" :> t1]] >>

(* Create a location below one of another member, rename it and put an item *)
(* there.                                                                    *)
PlaceBatch ==
    << [type |-> "location", m |-> [id |-> m1, entity |-> l2, base |-> 0, fields |-> "parent_id" :> l1]],
       [type |-> "location", m |-> [id |-> m2, entity |-> l2, base |-> 1, fields |-> "name" :> t1]],
       [type |-> "item", m |-> [id |-> m3, entity |-> i1, base |-> 0, fields |-> "location_id" :> l2]] >>

(* The same, followed by a rename of the other member's location and a      *)
(* mutation the server has no handler for.                                   *)
AbortBatch ==
    PlaceBatch \o
    << [type |-> "location", m |-> [id |-> m4, entity |-> l1, base |-> 1, fields |-> "name" :> NoText]],
       [type |-> "unknown", m |-> [id |-> m5]] >>

MCQueues == {StockBatch, AbortBatch}
PlaceQueues == {PlaceBatch}

============================================================================
