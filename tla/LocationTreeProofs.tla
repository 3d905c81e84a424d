------------------------- MODULE LocationTreeProofs -------------------------
(***************************************************************************)
(* The location tree stays a forest with live parents, however creates,    *)
(* moves, pushes and reassigning deletes interleave.                         *)
(***************************************************************************)
EXTENDS InventoryProofs

(* P is acyclic on L: every non-empty set has a member whose parent is not  *)
(* in the set.                                                               *)
Acyclic(L, P) == \A T \in SUBSET L : T # {} => \E x \in T : P[x] \notin T

(* Making the rows of M roots keeps a forest. *)
LEMMA UprootKeepsForest ==
    ASSUME NEW L, NEW P, NEW Q, NEW M, Acyclic(L, P),
           \A x \in L : Q[x] = P[x] \/ (x \in M /\ Q[x] \notin L)
    PROVE  Acyclic(L, Q)
  BY DEF Acyclic

(* Hanging the rows of M under t keeps a forest when some set S closed       *)
(* under parents holds t and none of them.                                   *)
LEMMA MoveKeepsForest ==
    ASSUME NEW L, NEW P, NEW Q, NEW M, NEW t, NEW S \in SUBSET L, Acyclic(L, P),
           \A x \in L : Q[x] = IF x \in M THEN t ELSE P[x],
           t \in S, M \cap S = {},
           \A x \in S : P[x] \in L => P[x] \in S
    PROVE  Acyclic(L, Q)
<1> SUFFICES ASSUME NEW T \in SUBSET L, T # {} PROVE \E x \in T : Q[x] \notin T
  BY DEF Acyclic
<1>1. CASE T \cap M = {}
  BY <1>1 DEF Acyclic
<1>2. CASE T \cap M # {} /\ t \notin T
  BY <1>2
<1>3. CASE t \in T
  <2>1. T \cap S # {} /\ T \cap S \in SUBSET L
    BY <1>3
  <2>2. PICK x \in T \cap S : P[x] \notin T \cap S
    BY <2>1 DEF Acyclic
  <2>3. P[x] \notin T
    BY <2>2
  <2>4. Q[x] = P[x]
    BY <2>2
  <2> QED
    BY <2>2, <2>3, <2>4
<1> QED
  BY <1>1, <1>2, <1>3

ParentOf == [l \in LocationId |-> Parent(l)]

(* ForestInv and LiveParentInv need to know of tombstoned and absent rows    *)
(* too: an edge joins two stored rows.                                       *)
TreeInv ==
    /\ Acyclic(LocationId, ParentOf)
    /\ LiveParentInv
    /\ \A l \in LocationId : Parent(l) \in LocationId => Exists(l) /\ Exists(Parent(l))

(* A transaction that writes no location. *)
LEMMA SameTree ==
    ASSUME TreeInv, \A l \in LocationId : rows'[l] = rows[l]
    PROVE  TreeInv'
<1>1. ParentOf' = ParentOf /\ \A l \in LocationId : Parent(l)' = Parent(l)
  BY DEF ParentOf, Parent
<1>2. \A l \in LocationId : (Live(l)' <=> Live(l)) /\ (Exists(l)' <=> Exists(l))
  BY DEF Live, Exists
<1>3. LiveParentInv'
  BY <1>1, <1>2 DEF TreeInv, LiveParentInv, ParentIsLive
<1> QED
  BY <1>1, <1>2, <1>3 DEF TreeInv

(* A transaction that hangs the rows M under t and tombstones the rows Gone. *)
LEMMA MovedTree ==
    ASSUME TreeInv, NEW M \in SUBSET LocationId, NEW Gone \in SUBSET LocationId,
           NEW t \in LocationId \cup {NoLocation},
           \A x \in LocationId : Parent(x)' = IF x \in M THEN t ELSE Parent(x),
           \A x \in LocationId : Exists(x) => Exists(x)',
           \A x \in M : Exists(x)',
           \A x \in LocationId : Live(x) /\ x \notin Gone => Live(x)',
           \A x \in LocationId : Live(x)' /\ x \notin M => Live(x) /\ Parent(x) \notin Gone,
           t # NoLocation =>
              /\ Live(t) /\ t \notin Gone
              /\ \E S \in SUBSET LocationId : t \in S /\ M \cap S = {} /\ ParentClosed(S)
    PROVE  TreeInv'
<1>1. \A x \in LocationId : /\ ParentOf[x] = Parent(x)
                            /\ ParentOf'[x] = IF x \in M THEN t ELSE ParentOf[x]
  BY DEF ParentOf
<1>2. Acyclic(LocationId, ParentOf')
  <2>1. CASE t = NoLocation
    <3>1. \A x \in LocationId : ParentOf'[x] = ParentOf[x] \/ (x \in M /\ ParentOf'[x] \notin LocationId)
      BY <1>1, <2>1, EntityAssumption
    <3> QED
      BY <3>1, UprootKeepsForest DEF TreeInv
  <2>2. CASE t # NoLocation
    <3>1. PICK S \in SUBSET LocationId : t \in S /\ M \cap S = {} /\ ParentClosed(S)
      BY <2>2
    <3>2. \A x \in S : ParentOf[x] \in LocationId => ParentOf[x] \in S
      BY <1>1, <3>1 DEF ParentClosed
    <3> QED
      BY <1>1, <3>1, <3>2, MoveKeepsForest DEF TreeInv
  <2> QED
    BY <2>1, <2>2
<1>3. ASSUME NEW x \in LocationId, Live(x)' PROVE ParentIsLive(Parent(x))'
  <2>1. CASE x \in M
    <3>1. Parent(x)' = t
      BY <2>1
    <3>2. t # NoLocation => t \in LocationId /\ rows'[t].state = "live"
      BY DEF Live
    <3> QED
      BY <3>1, <3>2 DEF ParentIsLive, Live
  <2>2. CASE x \notin M
    <3>1. Parent(x)' = Parent(x) /\ Live(x) /\ Parent(x) \notin Gone
      BY <1>3, <2>2
    <3>2. Parent(x) = NoLocation \/ (Parent(x) \in LocationId /\ Live(Parent(x)))
      BY <3>1 DEF TreeInv, LiveParentInv, ParentIsLive
    <3>3. Parent(x) \in LocationId /\ Live(Parent(x)) => rows'[Parent(x)].state = "live"
      BY <3>1 DEF Live
    <3> QED
      BY <3>1, <3>2, <3>3 DEF ParentIsLive, Live
  <2> QED
    BY <2>1, <2>2
<1>4. ASSUME NEW x \in LocationId, Parent(x)' \in LocationId PROVE Exists(x)' /\ Exists(Parent(x))'
  <2>1. CASE x \in M
    <3>1. Parent(x)' = t /\ Exists(x)' /\ t \in LocationId
      BY <1>4, <2>1
    <3>2. Live(t)
      BY <3>1, EntityAssumption
    <3>3. rows'[t].state # "absent"
      BY <3>1, <3>2 DEF Live, Exists
    <3> QED
      BY <3>1, <3>3 DEF Exists
  <2>2. CASE x \notin M
    <3>1. Parent(x)' = Parent(x) /\ Parent(x) \in LocationId
      BY <1>4, <2>2
    <3>2. Exists(x) /\ Exists(Parent(x))
      BY <3>1 DEF TreeInv
    <3>3. Exists(x)' /\ rows'[Parent(x)].state # "absent"
      BY <3>1, <3>2 DEF Exists
    <3> QED
      BY <3>1, <3>3 DEF Exists
  <2> QED
    BY <2>1, <2>2
<1> QED
  BY <1>2, <1>3, <1>4 DEF TreeInv, LiveParentInv

(* A new location hangs under a stored one. *)
LEMMA CreatedTree ==
    ASSUME TypeOK, TreeInv, NEW l \in LocationId, ~Exists(l), NEW v \in RowValue(LocationField),
           ParentIsLive(v["parent_id"]), NEW s,
           StoreRows([rows EXCEPT ![l] = Created(v, s)])
    PROVE  TreeInv'
<1> DEFINE t == v["parent_id"]
           S == {x \in LocationId : Exists(x)}
<1>1. /\ rows \in [EntityId -> Row] /\ l \in EntityId
      /\ rows' = [rows EXCEPT ![l] = Created(v, s)]
  BY EntityAssumption DEF TypeOK, StoreTypeOK, StoreRows
<1>2. \A x \in LocationId : rows'[x] = IF x = l THEN Created(v, s) ELSE rows[x]
  BY <1>1, EntityAssumption
<1>3. t \in LocationId \cup {NoLocation}
  BY DEF ParentIsLive
<1>4. \A x \in LocationId : Parent(x)' = IF x \in {l} THEN t ELSE Parent(x)
  BY <1>2 DEF Parent, Created
<1>5. \A x \in LocationId : /\ Exists(x)' <=> x = l \/ Exists(x)
                            /\ Live(x)' <=> x = l \/ Live(x)
  BY <1>2 DEF Exists, Live, Created
<1>6. t # NoLocation => Live(t) /\ t \in S /\ {l} \cap S = {} /\ ParentClosed(S)
  <2>1. ParentClosed(S)
    BY DEF ParentClosed, TreeInv
  <2> QED
    BY <1>3, <2>1 DEF ParentIsLive, Live, Exists
<1> DEFINE M == {l}
           Gone == {}
<1>7. S \in SUBSET LocationId /\ M \in SUBSET LocationId /\ Gone \in SUBSET LocationId
  OBVIOUS
<1>8. /\ \A x \in LocationId : Parent(x)' = IF x \in M THEN t ELSE Parent(x)
      /\ \A x \in LocationId : Exists(x) => Exists(x)'
      /\ \A x \in M : Exists(x)'
      /\ \A x \in LocationId : Live(x) /\ x \notin Gone => Live(x)'
      /\ \A x \in LocationId : Live(x)' /\ x \notin M => Live(x) /\ Parent(x) \notin Gone
  BY <1>4, <1>5
<1>9. t # NoLocation =>
        /\ Live(t) /\ t \notin Gone
        /\ \E U \in SUBSET LocationId : t \in U /\ M \cap U = {} /\ ParentClosed(U)
  BY <1>6, <1>7
<1> HIDE DEF t, S, M, Gone
<1> QED
  BY <1>3, <1>7, <1>8, <1>9, MovedTree

(* An update moves one location, and the cycle check found the set of the   *)
(* new parent's ancestors.                                                   *)
LEMMA UpdatedTree ==
    ASSUME TypeOK, TreeInv, NEW l \in LocationId, Live(l), NEW v \in RowValue(LocationField),
           MoveAllowed(l, v["parent_id"]), UpdateRow(l, v)
    PROVE  TreeInv'
<1> DEFINE t == v["parent_id"]
<1>1. /\ rows \in [EntityId -> Row] /\ l \in EntityId
      /\ rows' = [rows EXCEPT ![l] = Revised(rows[l], v, changeSeq + 1)]
  BY EntityAssumption DEF TypeOK, StoreTypeOK, UpdateRow, StoreRows
<1>2. \A x \in LocationId :
        rows'[x] = IF x = l THEN Revised(rows[l], v, changeSeq + 1) ELSE rows[x]
  BY <1>1, EntityAssumption
<1>3. t \in LocationId \cup {NoLocation}
  BY DEF MoveAllowed, ParentIsLive
<1>4. \A x \in LocationId : Parent(x)' = IF x \in {l} THEN t ELSE Parent(x)
  BY <1>2 DEF Parent, Revised
<1>5. \A x \in LocationId : (Exists(x)' <=> Exists(x)) /\ (Live(x)' <=> Live(x))
  BY <1>2 DEF Exists, Live, Revised
<1>6. t # NoLocation => /\ Live(t)
                       /\ \E S \in SUBSET LocationId : t \in S /\ {l} \cap S = {} /\ ParentClosed(S)
  BY DEF MoveAllowed, ParentIsLive, LocationMoveCreatesCycle
<1>7. Exists(l)'
  BY <1>5 DEF Live, Exists
<1> HIDE DEF t
<1> QED
  BY <1>3, <1>4, <1>5, <1>6, <1>7, MovedTree

(* A delete hangs the live children under the target. *)
LEMMA DeletedTree ==
    ASSUME TypeOK, TreeInv, NEW l \in LocationId, NEW reassign \in BOOLEAN,
           NEW t \in LocationId \cup {NoLocation}, DeleteLocation(l, reassign, t)
    PROVE  TreeInv'
<1> DEFINE M == LiveChildren(l) \ {l}
<1>1. Live(l) /\ MoveAllowed(l, t) /\ rows' = DeletedLocationRows(l, t)
  BY DEF DeleteLocation, StoreRows
<1>2. \A x \in LocationId :
        rows'[x] = IF x = l THEN Tombstoned(rows[x], changeSeq + 1)
                   ELSE IF x \in M
                   THEN Revised(rows[x], [rows[x].val EXCEPT !["parent_id"] = t], changeSeq + 1)
                   ELSE rows[x]
  BY <1>1, EntityAssumption DEF DeletedLocationRows, LiveItems
<1>3. \A x \in M : x \in LocationId /\ Live(x) /\ Parent(x) = l
  BY DEF LiveChildren
<1>4. ASSUME NEW x \in LocationId
      PROVE  /\ Parent(x)' = IF x \in M THEN t ELSE Parent(x)
             /\ Exists(x)' <=> Exists(x)
             /\ Live(x)' <=> Live(x) /\ x # l
  <2>1. CASE x = l
    <3>1. rows'[x] = Tombstoned(rows[x], changeSeq + 1) /\ x \notin M
      BY <1>2, <2>1
    <3> QED
      BY <1>1, <2>1, <3>1 DEF Tombstoned, Parent, Exists, Live
  <2>2. CASE x \in M
    <3>1. rows'[x] = Revised(rows[x], [rows[x].val EXCEPT !["parent_id"] = t], changeSeq + 1)
      BY <1>2, <2>2
    <3>2. rows[x].val \in [FieldName -> Value] /\ "parent_id" \in FieldName
      BY EntityAssumption, FieldAssumption DEF TypeOK, StoreTypeOK, Row
    <3>3. rows'[x].val["parent_id"] = t /\ rows'[x].state = rows[x].state
      BY <3>1, <3>2 DEF Revised
    <3> QED
      BY <2>2, <3>3 DEF Parent, Exists, Live
  <2>3. CASE x # l /\ x \notin M
    <3>1. rows'[x] = rows[x]
      BY <1>2, <2>3
    <3> QED
      BY <2>3, <3>1 DEF Parent, Exists, Live
  <2> QED
    BY <2>1, <2>2, <2>3
<1>5. /\ \A x \in LocationId : Parent(x)' = IF x \in M THEN t ELSE Parent(x)
      /\ \A x \in LocationId : (Exists(x)' <=> Exists(x)) /\ (Live(x)' <=> Live(x) /\ x # l)
  BY <1>4
<1>6. ASSUME t # NoLocation
      PROVE  /\ Live(t) /\ t \notin {l}
             /\ \E S \in SUBSET LocationId : t \in S /\ M \cap S = {} /\ ParentClosed(S)
  <2>1. PICK S \in SUBSET LocationId : t \in S /\ ParentClosed(S) /\ l \notin S
    BY <1>1, <1>6 DEF MoveAllowed, LocationMoveCreatesCycle
  <2>2. M \cap S = {}
    BY <1>3, <2>1 DEF ParentClosed
  <2> QED
    BY <1>1, <1>6, <2>1, <2>2 DEF MoveAllowed, ParentIsLive
<1>7. \A x \in LocationId : Live(x)' /\ x \notin M => Live(x) /\ Parent(x) \notin {l}
  BY <1>5 DEF LiveChildren
<1>8. \A x \in M : Exists(x)'
  BY <1>3, <1>5 DEF Live, Exists
<1>9. M \in SUBSET LocationId /\ {l} \in SUBSET LocationId
  BY <1>3
<1> HIDE DEF M
<1> QED
  BY <1>5, <1>6, <1>7, <1>8, <1>9, MovedTree

(* Every transaction keeps TreeInv. *)
LEMMA TreeInductive ==
    ASSUME TypeOK, TreeInv, [Next]_vars
    PROVE  TreeInv'
<1>1. ASSUME NEW e \in EntityId, e \notin LocationId, NEW r, StoreRows([rows EXCEPT ![e] = r])
      PROVE  TreeInv'
  <2>1. \A l \in LocationId : rows'[l] = rows[l]
    BY <1>1, EntityAssumption DEF StoreRows, TypeOK, StoreTypeOK
  <2> QED
    BY <2>1, SameTree
<1>2. ASSUME UNCHANGED rows PROVE TreeInv'
  BY <1>2, SameTree
<1>3. \A i \in ItemId : i \in EntityId /\ i \notin LocationId
  BY EntityAssumption
<1>4. ASSUME NEW i \in ItemId, NEW v, UpdateRow(i, v) PROVE TreeInv'
  BY <1>1, <1>3, <1>4 DEF UpdateRow
<1>5. ASSUME NEW i \in ItemId, NEW v, CreateItem(i, v) PROVE TreeInv'
  BY <1>1, <1>3, <1>5 DEF CreateItem
<1>6. ASSUME NEW i \in ItemId, NEW v, NEW n, UpdateItem(i, v, n) PROVE TreeInv'
  BY <1>4, <1>6 DEF UpdateItem
<1>7. ASSUME NEW i \in ItemId, DeleteItem(i) PROVE TreeInv'
  BY <1>1, <1>3, <1>7 DEF DeleteItem
<1>8. ASSUME NEW a, NEW i \in ItemId, NEW d, CreateStockAdjustment(a, i, d) PROVE TreeInv'
  BY <1>4, <1>8 DEF CreateStockAdjustment, AdjustQuantity
<1>9. ASSUME NEW m \in ItemMutation, PushCreateItem(m) PROVE TreeInv'
  BY <1>1, <1>2, <1>3, <1>9 DEF PushCreateItem, SettleConflict, ItemMutation
<1>10. ASSUME NEW m \in ItemMutation, PushUpdateItem(m) PROVE TreeInv'
  BY <1>2, <1>4, <1>10 DEF PushUpdateItem, SettleConflict, ItemMutation
<1>11. ASSUME NEW m \in AdjustmentMutation, PushStockAdjustment(m) PROVE TreeInv'
  BY <1>2, <1>4, <1>11
     DEF PushStockAdjustment, AdjustQuantity, SettleConflict, AdjustmentMutation
<1>12. ASSUME NEW l \in LocationId, NEW v \in LocationRow, CreateLocation(l, v) PROVE TreeInv'
  BY <1>12, CreatedTree DEF CreateLocation, LocationRow
<1>13. ASSUME NEW l \in LocationId, NEW v \in LocationRow, NEW n, UpdateLocation(l, v, n)
       PROVE  TreeInv'
  BY <1>13, UpdatedTree DEF UpdateLocation, LocationRow
<1>14. ASSUME NEW l \in LocationId, NEW r \in BOOLEAN, NEW t \in LocationId \cup {NoLocation},
              DeleteLocation(l, r, t)
       PROVE  TreeInv'
  BY <1>14, DeletedTree
<1>15. ASSUME NEW m \in LocationMutation, PushCreateLocation(m) PROVE TreeInv'
  <2> DEFINE v == FromPatch(LocationField, m.fields)
  <2>1. m.entity \in LocationId /\ v \in RowValue(LocationField)
    BY FromPatchType DEF LocationMutation
  <2> HIDE DEF v
  <2> QED
    BY <1>2, <1>15, <2>1, CreatedTree DEF PushCreateLocation, SettleConflict, v
<1>16. ASSUME NEW m \in LocationMutation, PushUpdateLocation(m) PROVE TreeInv'
  <2> DEFINE apply == DOMAIN m.fields \ PushConflicts(m.entity, m.base, DOMAIN m.fields)
             merged == PushMerge(rows[m.entity].val, m.fields, apply)
  <2>1. m.entity \in LocationId /\ m.fields \in Patch(LocationField)
    BY DEF LocationMutation
  <2>2. Live(m.entity) => merged \in RowValue(LocationField)
    <3> HIDE DEF apply
    <3>1. apply \in SUBSET DOMAIN m.fields
      BY DEF apply
    <3> QED
      BY <2>1, <3>1, PushMergeType, LiveRowType
  <2>3. \/ UNCHANGED rows
        \/ Live(m.entity) /\ MoveAllowed(m.entity, merged["parent_id"]) /\ UpdateRow(m.entity, merged)
    BY <1>16 DEF PushUpdateLocation, SettleConflict
  <2> HIDE DEF merged
  <2> QED
    BY <1>2, <2>1, <2>2, <2>3, UpdatedTree
<1> QED
  BY <1>2, <1>5, <1>6, <1>7, <1>8, <1>9, <1>10, <1>11, <1>12, <1>13, <1>14, <1>15, <1>16
     DEF Next, itemCreateHandler, itemUpdateHandler, itemDeleteHandler,
         stockAdjustmentCreateHandler, locationCreateHandler, locationUpdateHandler,
         locationDeleteHandler, pushItem, pushLocation, vars, storeVars

(* There are no edges at first. *)
LEMMA TreeInit == Init => TreeInv
<1> SUFFICES ASSUME Init PROVE TreeInv
  OBVIOUS
<1>1. \A l \in LocationId : rows[l] = AbsentRow
  BY EntityAssumption DEF Init, StoreInit
<1>2. \A l \in LocationId : Parent(l) = Null /\ ~Live(l)
  BY <1>1, FieldAssumption DEF Parent, AbsentRow, Live
<1> QED
  BY <1>2, EntityAssumption DEF TreeInv, Acyclic, ParentOf, LiveParentInv

(* TreeInv holds in every reachable state. *)
LEMMA TreeInvCorrect == Spec => []TreeInv
<1>1. TypeOK /\ TreeInv /\ [Next]_vars => TreeInv'
  BY TreeInductive
<1> QED
  BY <1>1, TreeInit, TypeCorrect, PTL DEF Spec

(* No interleaving of creates, moves, pushes and deletes closes a cycle of  *)
(* parent edges, however many locations there are: Descendants and Tree      *)
(* terminate.                                                                *)
THEOREM ForestCorrect == Spec => []ForestInv
<1>1. TreeInv => ForestInv
  BY DEF TreeInv, Acyclic, ParentOf, ForestInv
<1> QED
  BY <1>1, TreeInvCorrect, PTL

(* A live location never hangs under a tombstoned or missing one. *)
THEOREM LiveParentCorrect == Spec => []LiveParentInv
<1>1. TreeInv => LiveParentInv
  BY DEF TreeInv
<1> QED
  BY <1>1, TreeInvCorrect, PTL

----------------------------------------------------------------------------
(* Deleting a location. *)

NoneEnds == \A l \in LocationId : Live(l) => Live(l)'

(* A step that writes one row, and keeps it if it is a location's. *)
WritesAndKeeps(e) ==
    /\ \A x \in EntityId : x # e => rows'[x] = rows[x]
    /\ e \in LocationId => rows'[e].state \in {"live", rows[e].state}

(* A statement that writes one row and keeps it live ends no row. *)
LEMMA OneRowStays ==
    ASSUME NEW e \in EntityId, WritesAndKeeps(e)
    PROVE  NoneEnds
  BY EntityAssumption DEF WritesAndKeeps, NoneEnds, Live

(* An UPDATE of one row is such a statement. *)
LEMMA UpdateKeeps ==
    ASSUME TypeOK, NEW e \in EntityId, NEW v, UpdateRow(e, v)
    PROVE  WritesAndKeeps(e)
<1>1. rows \in [EntityId -> Row] /\ rows' = [rows EXCEPT ![e] = Revised(rows[e], v, changeSeq + 1)]
  BY DEF TypeOK, StoreTypeOK, UpdateRow, StoreRows
<1>2. rows'[e] = Revised(rows[e], v, changeSeq + 1) /\ \A x \in EntityId : x # e => rows'[x] = rows[x]
  BY <1>1
<1>3. rows'[e].state = rows[e].state
  BY <1>2 DEF Revised
<1> QED
  BY <1>2, <1>3 DEF WritesAndKeeps

(* So is an INSERT. *)
LEMMA CreateKeeps ==
    ASSUME TypeOK, NEW e \in EntityId, NEW v, NEW s,
           StoreRows([rows EXCEPT ![e] = Created(v, s)])
    PROVE  WritesAndKeeps(e)
<1>1. rows \in [EntityId -> Row] /\ rows' = [rows EXCEPT ![e] = Created(v, s)]
  BY DEF TypeOK, StoreTypeOK, StoreRows
<1>2. rows'[e] = Created(v, s) /\ \A x \in EntityId : x # e => rows'[x] = rows[x]
  BY <1>1
<1>3. rows'[e].state = "live"
  BY <1>2 DEF Created
<1> QED
  BY <1>2, <1>3 DEF WritesAndKeeps

(* Only DeleteLocation ends a location. *)
LEMMA OthersStay ==
    ASSUME TypeOK, Next,
           ~ \E l \in LocationId, r \in BOOLEAN, t \in LocationId \cup {NoLocation} :
                DeleteLocation(l, r, t)
    PROVE  NoneEnds
<1>0. (\A i \in ItemId : i \in EntityId /\ i \notin LocationId) /\ (\A l \in LocationId : l \in EntityId)
  BY EntityAssumption
<1>1. ASSUME NEW e \in EntityId, NEW v, UpdateRow(e, v) PROVE NoneEnds
  BY <1>1, UpdateKeeps, OneRowStays
<1>2. ASSUME NEW e \in EntityId, NEW v, NEW s, StoreRows([rows EXCEPT ![e] = Created(v, s)])
      PROVE  NoneEnds
  BY <1>2, CreateKeeps, OneRowStays
<1>3. ASSUME UNCHANGED <<rows, fieldVersions, changedAt, lostUpdates>> PROVE NoneEnds
  BY <1>3 DEF NoneEnds, Live
<1>3b. ASSUME NEW id, NEW F, SettleConflict(id, F) PROVE NoneEnds
  BY <1>3b DEF SettleConflict, NoneEnds, Live
<1>4. ASSUME NEW i \in ItemId, DeleteItem(i) PROVE NoneEnds
  <2>1. rows \in [EntityId -> Row] /\ rows' = [rows EXCEPT ![i] = Tombstoned(rows[i], changeSeq + 1)]
    BY <1>4 DEF DeleteItem, StoreRows, TypeOK, StoreTypeOK
  <2>2. WritesAndKeeps(i)
    BY <1>0, <2>1 DEF WritesAndKeeps
  <2> QED
    BY <1>0, <2>2, OneRowStays
<1>5. ASSUME NEW m \in ItemMutation, pushItem(m) PROVE NoneEnds
  <2>1. m.entity \in EntityId
    BY <1>0 DEF ItemMutation
  <2>2. CASE PushCreateItem(m)
    <3> DEFINE v == FromPatch(ItemField, m.fields)
    <3> HIDE DEF v
    <3>1. ASSUME NEW taken \in 0 .. ShortCodeAttempts - 1,
                 StoreRows([rows EXCEPT ![m.entity] = Created(v, changeSeq + taken + 1)])
          PROVE  NoneEnds
      BY <1>2, <2>1, <3>1
    <3> QED
      BY <1>3, <1>3b, <2>2, <3>1 DEF PushCreateItem, v
  <2>3. CASE PushUpdateItem(m)
    <3> DEFINE apply == DOMAIN m.fields \ PushConflicts(m.entity, m.base, DOMAIN m.fields)
               merged == PushMerge(rows[m.entity].val, m.fields, apply)
    <3>1. ASSUME UpdateRow(m.entity, merged) PROVE NoneEnds
      <4> HIDE DEF merged
      <4> QED
        BY <1>1, <2>1, <3>1
    <3> QED
      BY <1>3b, <2>3, <3>1 DEF PushUpdateItem
  <2> QED
    BY <1>5, <2>2, <2>3 DEF pushItem
<1>6. ASSUME NEW m \in LocationMutation, pushLocation(m) PROVE NoneEnds
  <2>1. m.entity \in EntityId
    BY <1>0 DEF LocationMutation
  <2>2. CASE PushCreateLocation(m)
    <3> DEFINE v == FromPatch(LocationField, m.fields)
    <3> HIDE DEF v
    <3>1. ASSUME StoreRows([rows EXCEPT ![m.entity] = Created(v, changeSeq + 1)])
          PROVE  NoneEnds
      BY <1>2, <2>1, <3>1
    <3> QED
      BY <1>3b, <2>2, <3>1 DEF PushCreateLocation, v
  <2>3. CASE PushUpdateLocation(m)
    <3> DEFINE apply == DOMAIN m.fields \ PushConflicts(m.entity, m.base, DOMAIN m.fields)
               merged == PushMerge(rows[m.entity].val, m.fields, apply)
    <3>1. ASSUME UpdateRow(m.entity, merged) PROVE NoneEnds
      <4> HIDE DEF merged
      <4> QED
        BY <1>1, <2>1, <3>1
    <3> QED
      BY <1>3b, <2>3, <3>1 DEF PushUpdateLocation
  <2> QED
    BY <1>6, <2>2, <2>3 DEF pushLocation
<1>7. ASSUME NEW m \in AdjustmentMutation, PushStockAdjustment(m)
      PROVE  NoneEnds
  <2>1. m.item \in EntityId
    BY <1>0 DEF AdjustmentMutation
  <2>2. ASSUME NEW a, AdjustQuantity(a, m.item, m.delta) PROVE NoneEnds
    BY <1>1, <2>1, <2>2 DEF AdjustQuantity
  <2> QED
    BY <1>7, <1>3b, <2>2 DEF PushStockAdjustment
<1>8. ASSUME NEW i \in ItemId, NEW v, CreateItem(i, v) PROVE NoneEnds
  BY <1>0, <1>2, <1>8 DEF CreateItem
<1>9. ASSUME NEW i \in ItemId, NEW v, NEW n, UpdateItem(i, v, n)
      PROVE  NoneEnds
  BY <1>0, <1>1, <1>9 DEF UpdateItem
<1>10. ASSUME NEW l \in LocationId, NEW v, CreateLocation(l, v)
       PROVE  NoneEnds
  BY <1>0, <1>2, <1>10 DEF CreateLocation
<1>11. ASSUME NEW l \in LocationId, NEW v, NEW n, UpdateLocation(l, v, n)
       PROVE  NoneEnds
  BY <1>0, <1>1, <1>11 DEF UpdateLocation
<1>12. ASSUME NEW a \in AdjustmentId, NEW i \in ItemId, NEW d, CreateStockAdjustment(a, i, d)
       PROVE  NoneEnds
  BY <1>0, <1>1, <1>12 DEF CreateStockAdjustment, AdjustQuantity
<1> QED
  BY <1>4, <1>5, <1>6, <1>7, <1>8, <1>9, <1>10, <1>11, <1>12
     DEF Next, itemCreateHandler, itemUpdateHandler, itemDeleteHandler,
         stockAdjustmentCreateHandler, locationCreateHandler, locationUpdateHandler,
         locationDeleteHandler

(* DeleteLocation ends one location and moves every item it holds elsewhere: *)
(* the target is never the location itself.                                  *)
LEMMA DeleteStrandsNone ==
    ASSUME TypeOK, NEW l \in LocationId, NEW reassign \in BOOLEAN,
           NEW t \in LocationId \cup {NoLocation}, DeleteLocation(l, reassign, t),
           NEW x \in LocationId, Live(x), ~Live(x)',
           NEW i \in ItemId, Live(i)'
    PROVE  rows'[i].val["location_id"] # x
<1>1. rows' = DeletedLocationRows(l, t) /\ MoveAllowed(l, t)
  BY DEF DeleteLocation, StoreRows
<1>2. /\ rows \in [EntityId -> Row] /\ x \in EntityId /\ i \in EntityId
      /\ i \notin LocationId /\ "location_id" \in FieldName
  BY EntityAssumption, FieldAssumption DEF TypeOK, StoreTypeOK
<1>3. x = l
  <2>1. ASSUME x # l PROVE rows'[x].state = rows[x].state
    BY <1>1, <1>2, <2>1 DEF DeletedLocationRows, Revised
  <2> QED
    BY <2>1 DEF Live
<1>4. t # l
  <2>1. LocationMoveCreatesCycle(l, l)
    BY DEF LocationMoveCreatesCycle
  <2> QED
    BY <1>1, <2>1, EntityAssumption DEF MoveAllowed
<1>5. i # l /\ i \notin LiveChildren(l)
  BY <1>2 DEF LiveChildren
<1>6. CASE i \in LiveItems(l)
  <2>1. rows'[i].val = [rows[i].val EXCEPT !["location_id"] = t]
    BY <1>1, <1>2, <1>5, <1>6 DEF DeletedLocationRows, Revised
  <2>2. rows[i].val \in [FieldName -> Value]
    BY <1>2 DEF Row
  <2> QED
    BY <1>2, <1>3, <1>4, <2>1, <2>2
<1>7. CASE i \notin LiveItems(l)
  <2>1. rows'[i] = rows[i]
    BY <1>1, <1>2, <1>5, <1>7 DEF DeletedLocationRows
  <2> QED
    BY <1>3, <1>7, <2>1 DEF LiveItems, Live
<1> QED
  BY <1>6, <1>7

(* A location never goes while a live item still names it: the delete moves  *)
(* the items or is refused, in one transaction.                              *)
THEOREM DeleteStrandsNoItemCorrect == Spec => DeleteStrandsNoItem
<1> DEFINE A == \A l \in LocationId : Live(l) /\ ~Live(l)' =>
                  \A i \in ItemId : Live(i)' => rows'[i].val["location_id"] # l
<1>1. TypeOK /\ [Next]_vars => [A]_vars
  <2> SUFFICES ASSUME TypeOK, Next PROVE A
    OBVIOUS
  <2>1. CASE \E l \in LocationId, r \in BOOLEAN, t \in LocationId \cup {NoLocation} :
               DeleteLocation(l, r, t)
    BY <2>1, DeleteStrandsNone
  <2>2. CASE ~ \E l \in LocationId, r \in BOOLEAN, t \in LocationId \cup {NoLocation} :
               DeleteLocation(l, r, t)
    BY <2>2, OthersStay DEF NoneEnds
  <2> QED
    BY <2>1, <2>2
<1> QED
  BY <1>1, TypeCorrect, PTL DEF Spec, DeleteStrandsNoItem

============================================================================
