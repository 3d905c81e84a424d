------------------------- MODULE PushSessionProofs -------------------------
(***************************************************************************)
(* PushSession implements Outbox: whatever the queue, the number of          *)
(* concurrent requests, retries, lost replies and restarts, the transactions *)
(* of a device's batches are one pass over its queue.                        *)
(***************************************************************************)
EXTENDS PushSession, InventoryProofs, FiniteSetTheorems, TLAPS

(* The ledger decides everything: a mutation that has no ledger row has      *)
(* written nothing, a request that runs has a ledger row for everything      *)
(* before its position, and one that is done for the whole queue.            *)
SessionInv ==
    /\ queue \in Queues
    /\ ledger \in [MutationId -> {"none", "applied", "conflict"}]
    /\ applied \in [MutationId -> {0, 1}]
    /\ \A id \in MutationId : ledger[id] = "none" => applied[id] = 0
    /\ state \in [Request -> {"free", "running", "done", "failed"}]
    /\ pos \in [Request -> Nat \ {0}]
    /\ \A r \in Request : state[r] = "running" =>
          \A k \in 1..Len(queue) : k < pos[r] => Settled(k)
    /\ \A r \in Request : state[r] = "done" => \A k \in 1..Len(queue) : Settled(k)

----------------------------------------------------------------------------
(* What a mutation's transaction does to the ledger: the id was not there,  *)
(* and its row is all that is added.                                         *)
Decides(id) ==
    /\ ledger[id] = "none"
    /\ \E outcome \in {"applied", "conflict"} : ledger' = [ledger EXCEPT ![id] = outcome]

(* The positions of a queue are numbers and hold mutations with their own    *)
(* ids.                                                                      *)
LEMMA QueueFacts ==
    ASSUME SessionInv
    PROVE  /\ Len(queue) \in Nat
           /\ \A k \in 1..Len(queue) : queue[k].m.id \in MutationId
           /\ \A j, k \in 1..Len(queue) : queue[j].m.id = queue[k].m.id => j = k
<1>1. queue \in Queues
  BY DEF SessionInv
<1>2. queue \in Seq(Range(queue))
  BY <1>1, QueueAssumption
<1> QED
  BY <1>1, <1>2, QueueAssumption

(* Every handler of a pushed mutation settles exactly its own id. *)
LEMMA PushDecides ==
    ASSUME NEW b, PushEntity(b)
    PROVE  Decides(b.m.id)
<1>1. ASSUME NEW m, PushCreateItem(m) PROVE Decides(m.id)
  BY <1>1 DEF PushCreateItem, Unsettled, SettleConflict, Settle, Decides
<1>2. ASSUME NEW m, PushUpdateItem(m) PROVE Decides(m.id)
  BY <1>2 DEF PushUpdateItem, Unsettled, SettleConflict, Settle, Decides
<1>3. ASSUME NEW m, PushStockAdjustment(m) PROVE Decides(m.id)
  BY <1>3 DEF PushStockAdjustment, Unsettled, SettleConflict, Settle, Decides
<1>4. ASSUME NEW m, PushCreateLocation(m) PROVE Decides(m.id)
  BY <1>4 DEF PushCreateLocation, Unsettled, SettleConflict, Settle, Decides
<1>5. ASSUME NEW m, PushUpdateLocation(m) PROVE Decides(m.id)
  BY <1>5 DEF PushUpdateLocation, Unsettled, SettleConflict, Settle, Decides
<1> QED
  BY <1>1, <1>2, <1>3, <1>4, <1>5 DEF PushEntity

(* What other members do through REST leaves the ledger alone. *)
LEMMA RestKeepsLedger ==
    ASSUME Rest
    PROVE  UNCHANGED <<ledger, queue, state, pos, acked, crashes, applied>>
<1>1. UNCHANGED ledger
  BY DEF Rest, CreateLocation, DeleteLocation, DeleteItem
<1> QED
  BY <1>1 DEF Rest, sessionVars

----------------------------------------------------------------------------
(* SessionInv holds at the start and is kept by every step. *)
LEMMA SessionInvInit == SessionInit => SessionInv
<1> SUFFICES ASSUME SessionInit PROVE SessionInv
  OBVIOUS
<1>1. ledger = [id \in MutationId |-> "none"]
  BY DEF SessionInit, Init, StoreInit
<1> QED
  BY <1>1 DEF SessionInit, SessionInv

(* A mutation's transaction: its position becomes settled, nothing else in   *)
(* the ledger or the history changes.                                        *)
LEMMA ApplyKeepsInv ==
    ASSUME SessionInv, NEW r \in Request, ApplyMutation(r)
    PROVE  /\ SessionInv'
           /\ pos[r] \in 1..Len(queue)
           /\ Decides(queue[pos[r]].m.id)
           /\ applied' \in {applied, [applied EXCEPT ![queue[pos[r]].m.id] = 1]}
           /\ UNCHANGED <<queue, acked>>
<1> DEFINE id == queue[pos[r]].m.id
<1>1. /\ Len(queue) \in Nat
      /\ \A k \in 1..Len(queue) : queue[k].m.id \in MutationId
  BY QueueFacts
<1>2. pos[r] \in Nat \ {0} /\ pos[r] <= Len(queue) /\ state[r] = "running"
  BY DEF ApplyMutation, Running, SessionInv
<1>3. pos[r] \in 1..Len(queue) /\ id \in MutationId
  BY <1>1, <1>2
<1>4. Decides(id)
  BY PushDecides DEF ApplyMutation
<1>5. /\ pos' = [pos EXCEPT ![r] = @ + 1]
      /\ UNCHANGED <<queue, state, acked>>
  BY DEF ApplyMutation, Advance
<1>6. applied[id] = 0
  BY <1>3, <1>4 DEF SessionInv, Decides
<1>7. applied' \in {applied, [applied EXCEPT ![id] = 1]}
  <2>1. applied' = [applied EXCEPT ![id] = @ + (IF rows' # rows THEN 1 ELSE 0)]
    BY DEF ApplyMutation
  <2>2. CASE rows' # rows
    BY <1>3, <1>6, <2>1, <2>2 DEF SessionInv
  <2>3. CASE rows' = rows
    BY <1>3, <1>6, <2>1, <2>3 DEF SessionInv
  <2> QED
    BY <2>2, <2>3
<1>8. PICK outcome \in {"applied", "conflict"} : ledger' = [ledger EXCEPT ![id] = outcome]
  BY <1>4 DEF Decides
<1> HIDE DEF id
<1>9. /\ ledger' \in [MutationId -> {"none", "applied", "conflict"}]
      /\ ledger'[id] # "none"
      /\ \A x \in MutationId : ledger[x] # "none" => ledger'[x] # "none"
      /\ \A x \in MutationId : x # id => ledger'[x] = ledger[x]
  BY <1>3, <1>8 DEF SessionInv
<1>10. applied' \in [MutationId -> {0, 1}]
  BY <1>3, <1>7 DEF SessionInv
<1>11. \A x \in MutationId : ledger'[x] = "none" => applied'[x] = 0
  BY <1>3, <1>7, <1>9 DEF SessionInv
<1>12. \A k \in 1..Len(queue) : Settled(k) => Settled(k)'
  BY <1>1, <1>5, <1>9 DEF Settled
<1>13. \A k \in 1..Len(queue) : k = pos[r] => Settled(k)'
  BY <1>5, <1>9 DEF Settled, id
<1>14. pos' \in [Request -> Nat \ {0}]
  BY <1>2, <1>5 DEF SessionInv
<1>15. \A q \in Request : state[q] = "running" =>
          \A k \in 1..Len(queue) : k < pos'[q] => Settled(k)'
  <2> SUFFICES ASSUME NEW q \in Request, state[q] = "running",
                      NEW k \in 1..Len(queue), k < pos'[q]
               PROVE  Settled(k)'
    OBVIOUS
  <2>1. CASE k < pos[q]
    BY <1>12, <2>1 DEF SessionInv
  <2>2. CASE ~(k < pos[q])
    <3>1. pos \in [Request -> Nat \ {0}] /\ k \in Nat
      BY <1>1 DEF SessionInv
    <3>2. q = r /\ k = pos[r]
      BY <1>5, <2>2, <3>1
    <3> QED
      BY <3>2, <1>13
  <2> QED
    BY <2>1, <2>2
<1>16. \A q \in Request : state[q] = "done" => \A k \in 1..Len(queue) : Settled(k)'
  BY <1>12 DEF SessionInv
<1>17. SessionInv'
  BY <1>5, <1>9, <1>10, <1>11, <1>14, <1>15, <1>16 DEF SessionInv
<1> QED
  BY <1>3, <1>4, <1>5, <1>7, <1>17 DEF id

(* The other steps of a request, of the device and of other members. *)
LEMMA OtherKeepsInv ==
    ASSUME SessionInv,
           \/ Rest
           \/ Crash
           \/ \E r \in Request : \/ SkipMutation(r) \/ FailBatch(r) \/ FinishBatch(r)
                                 \/ Send(r) \/ ReceiveReply(r) \/ GiveUp(r)
    PROVE  SessionInv' /\ UNCHANGED <<queue, ledger, applied>>
<1> USE DEF SessionInv, Settled
<1>0. Len(queue) \in Nat
  BY QueueFacts
<1>1. CASE Rest
  <2>1. UNCHANGED <<ledger, queue, state, pos, applied>>
    BY <1>1, RestKeepsLedger
  <2> QED
    BY <2>1
<1>2. CASE Crash
  <2>1. state' = [r \in Request |-> "free"] /\ UNCHANGED <<queue, ledger, applied, pos>>
    BY <1>2 DEF Crash, vars, storeVars
  <2> QED
    BY <2>1
<1>3. ASSUME NEW r \in Request, SkipMutation(r)
      PROVE  SessionInv' /\ UNCHANGED <<queue, ledger, applied>>
  <2>1. /\ state[r] = "running" /\ pos[r] <= Len(queue)
        /\ ledger[queue[pos[r]].m.id] # "none"
        /\ pos' = [pos EXCEPT ![r] = @ + 1]
        /\ UNCHANGED <<queue, state, ledger, applied>>
    BY <1>3 DEF SkipMutation, Running, Advance, vars, storeVars
  <2>2. pos' \in [Request -> Nat \ {0}]
    BY <2>1
  <2>3. ASSUME NEW q \in Request, state[q] = "running", NEW k \in 1..Len(queue), k < pos'[q]
        PROVE  ledger[queue[k].m.id] # "none"
    <3>1. CASE k < pos[q]
      BY <2>3, <3>1
    <3>2. CASE ~(k < pos[q])
      <4>1. q = r /\ k = pos[r]
        BY <1>0, <2>1, <2>3, <3>2
      <4> QED
        BY <2>1, <4>1
    <3> QED
      BY <3>1, <3>2
  <2> QED
    BY <2>1, <2>2, <2>3
<1>4. ASSUME NEW r \in Request, FailBatch(r) \/ GiveUp(r)
      PROVE  SessionInv' /\ UNCHANGED <<queue, ledger, applied>>
  <2>1. /\ \E s \in {"free", "failed"} : state' = [state EXCEPT ![r] = s]
        /\ UNCHANGED <<queue, pos, ledger, applied>>
    BY <1>4 DEF FailBatch, GiveUp, vars, storeVars
  <2> QED
    BY <2>1
<1>5. ASSUME NEW r \in Request, FinishBatch(r)
      PROVE  SessionInv' /\ UNCHANGED <<queue, ledger, applied>>
  <2>1. /\ state[r] = "running" /\ pos[r] > Len(queue)
        /\ state' = [state EXCEPT ![r] = "done"]
        /\ UNCHANGED <<queue, pos, ledger, applied>>
    BY <1>5 DEF FinishBatch, vars, storeVars
  <2>2. \A k \in 1..Len(queue) : k < pos[r]
    BY <1>0, <2>1
  <2>3. \A k \in 1..Len(queue) : ledger[queue[k].m.id] # "none"
    BY <2>1, <2>2
  <2> QED
    BY <2>1, <2>3
<1>6. ASSUME NEW r \in Request, Send(r)
      PROVE  SessionInv' /\ UNCHANGED <<queue, ledger, applied>>
  <2>1. /\ state' = [state EXCEPT ![r] = "running"]
        /\ pos' = [pos EXCEPT ![r] = 1]
        /\ UNCHANGED <<queue, ledger, applied>>
    BY <1>6 DEF Send, vars, storeVars
  <2>2. \A k \in 1..Len(queue) : ~(k < 1)
    BY <1>0
  <2> QED
    BY <2>1, <2>2
<1>7. ASSUME NEW r \in Request, ReceiveReply(r)
      PROVE  SessionInv' /\ UNCHANGED <<queue, ledger, applied>>
  <2>1. /\ state' = [state EXCEPT ![r] = "free"]
        /\ UNCHANGED <<queue, pos, ledger, applied>>
    BY <1>7 DEF ReceiveReply, vars, storeVars
  <2> QED
    BY <2>1
<1> QED
  BY <1>1, <1>2, <1>3, <1>4, <1>5, <1>6, <1>7, RestKeepsLedger DEF Crash, vars, storeVars

----------------------------------------------------------------------------
(* Refinement. *)

(* The start of a session is an untouched queue. *)
LEMMA OutboxInit == SessionInit => Promise!Init
<1> SUFFICES ASSUME SessionInit PROVE Promise!Init
  OBVIOUS
<1>1. SessionInv
  BY SessionInvInit
<1>2. /\ Len(queue) \in Nat
      /\ \A k \in 1..Len(queue) : queue[k].m.id \in MutationId
  BY <1>1, QueueFacts
<1>3. /\ ledger = [id \in MutationId |-> "none"]
      /\ applied = [id \in MutationId |-> 0]
  BY DEF SessionInit, Init, StoreInit
<1>4. {k \in 1..Len(queue) : Settled(k)} = {}
  BY <1>2, <1>3 DEF Settled
<1>5. [k \in 1..Len(queue) |-> applied[queue[k].m.id]] = [k \in 1..Len(queue) |-> 0]
  BY <1>2, <1>3
<1> QED
  BY <1>4, <1>5 DEF Promise!Init, SessionInit

(* A mutation's transaction decides the first position that is not decided. *)
LEMMA ApplySettles ==
    ASSUME SessionInv, NEW r \in Request, ApplyMutation(r)
    PROVE  \E k \in 1..Len(queue) : Promise!Settle(k)
<1> DEFINE id == queue[pos[r]].m.id
           N == 1..Len(queue)
           settled == {k \in N : Settled(k)}
           effects == [k \in N |-> applied[queue[k].m.id]]
<1>1. /\ pos[r] \in N
      /\ Decides(id)
      /\ applied' \in {applied, [applied EXCEPT ![id] = 1]}
      /\ UNCHANGED <<queue, acked>>
  BY ApplyKeepsInv
<1>2. /\ Len(queue) \in Nat
      /\ \A k \in N : queue[k].m.id \in MutationId
      /\ \A j, k \in N : queue[j].m.id = queue[k].m.id => j = k
  BY QueueFacts
<1>3. pos[r] \notin settled
  BY <1>1 DEF Decides, Settled
<1>4. \A j \in 1 .. pos[r] - 1 : j \in settled
  <2>1. \A j \in 1 .. pos[r] - 1 : j \in N /\ j < pos[r]
    BY <1>1, <1>2
  <2>2. state[r] = "running"
    BY DEF ApplyMutation, Running
  <2> QED
    BY <2>1, <2>2 DEF SessionInv
<1>5. \A k \in N : Settled(k)' <=> (Settled(k) \/ k = pos[r])
  <2>1. PICK outcome \in {"applied", "conflict"} : ledger' = [ledger EXCEPT ![id] = outcome]
    BY <1>1 DEF Decides
  <2>2. ledger \in [MutationId -> {"none", "applied", "conflict"}]
    BY DEF SessionInv
  <2> QED
    BY <1>1, <1>2, <2>1, <2>2 DEF Settled
<1>6. settled' = settled \cup {pos[r]}
  BY <1>1, <1>5
<1>7. effects' \in {effects, [effects EXCEPT ![pos[r]] = 1]}
  <2>1. applied \in [MutationId -> {0, 1}]
    BY DEF SessionInv
  <2>2. CASE applied' = applied
    BY <1>1, <2>2
  <2>3. CASE applied' = [applied EXCEPT ![id] = 1]
    <3>1. \A k \in N : applied'[queue[k].m.id] = IF k = pos[r] THEN 1 ELSE applied[queue[k].m.id]
      BY <1>1, <1>2, <2>1, <2>3
    <3> QED
      BY <1>1, <3>1
  <2> QED
    BY <1>1, <2>2, <2>3
<1>8. PICK p \in N : p = pos[r]
  BY <1>1
<1>9. Promise!Settle(p)
  BY <1>1, <1>3, <1>4, <1>6, <1>7, <1>8 DEF Promise!Settle
<1> QED
  BY <1>9

(* Every step of the session is a step of the outbox or leaves it alone. *)
LEMMA OutboxStep ==
    ASSUME SessionInv, [SessionNext]_allVars
    PROVE  SessionInv' /\ [Promise!Next]_(Promise!vars)
<1> USE DEF Promise!vars
<1>1. ASSUME NEW r \in Request, ApplyMutation(r)
      PROVE  SessionInv' /\ [Promise!Next]_(Promise!vars)
  <2>1. SessionInv'
    BY <1>1, ApplyKeepsInv
  <2>2. \E k \in 1..Len(queue) : Promise!Settle(k)
    BY <1>1, ApplySettles
  <2> QED
    BY <2>1, <2>2 DEF Promise!Next
<1>2. ASSUME NEW r \in Request, ReceiveReply(r)
      PROVE  SessionInv' /\ [Promise!Next]_(Promise!vars)
  <2>1. SessionInv' /\ UNCHANGED <<queue, ledger, applied>>
    BY <1>2, OtherKeepsInv
  <2>2. \A k \in 1..Len(queue) : Settled(k)
    BY <1>2 DEF ReceiveReply, SessionInv
  <2>3. acked' = TRUE
    BY <1>2 DEF ReceiveReply
  <2>4. Promise!Acknowledge
    BY <2>1, <2>2, <2>3 DEF Promise!Acknowledge, Settled
  <2> QED
    BY <2>1, <2>4 DEF Promise!Next
<1>3. ASSUME \/ Rest
             \/ Crash
             \/ \E r \in Request : \/ SkipMutation(r) \/ FailBatch(r) \/ FinishBatch(r)
                                   \/ Send(r) \/ GiveUp(r)
      PROVE  SessionInv' /\ [Promise!Next]_(Promise!vars)
  <2>1. SessionInv' /\ UNCHANGED <<queue, ledger, applied>>
    BY <1>3, OtherKeepsInv
  <2>2. UNCHANGED acked
    BY <1>3, RestKeepsLedger
    DEF Crash, SkipMutation, Advance, FailBatch, FinishBatch, Send, GiveUp
  <2> QED
    BY <2>1, <2>2 DEF Settled
<1>4. CASE UNCHANGED allVars
  <2>1. UNCHANGED <<queue, ledger, applied, acked, state, pos>>
    BY <1>4 DEF allVars, vars, storeVars, sessionVars
  <2> QED
    BY <2>1 DEF SessionInv, Settled
<1> QED
  BY <1>1, <1>2, <1>3, <1>4 DEF SessionNext, Handle

(* POST /sync/push keeps the promise of Outbox: repeated, concurrent, failed  *)
(* and interrupted batches of a device decide its mutations front to back,    *)
(* each once and with at most one write, and the device drops its queue only  *)
(* when all of it is decided.                                                 *)
THEOREM OutboxCorrect == SessionSpec => OutboxKept
<1>1. SessionInit => SessionInv /\ Promise!Init
  BY SessionInvInit, OutboxInit
<1>2. SessionInv /\ [SessionNext]_allVars => SessionInv' /\ [Promise!Next]_(Promise!vars)
  BY OutboxStep
<1> QED
  BY <1>1, <1>2, PTL DEF SessionSpec, OutboxKept, Promise!Spec


----------------------------------------------------------------------------
(* A session is a run of Inventory. *)

(* Every step is a transaction of Inventory or leaves its state alone. *)
LEMMA InventoryStep ==
    ASSUME SessionInv, [SessionNext]_allVars
    PROVE  [Next]_vars
<1>1. CASE Rest
  <2>1. CASE \E l \in RestLocation, v \in LocationRow : CreateLocation(l, v)
    BY <2>1, SessionAssumption DEF Next, locationCreateHandler
  <2>2. CASE \E l \in RestLocation : DeleteLocation(l, FALSE, NoLocation)
    BY <2>2, SessionAssumption DEF Next, locationDeleteHandler
  <2>3. CASE \E i \in ItemId : DeleteItem(i)
    BY <2>3 DEF Next, itemDeleteHandler
  <2> QED
    BY <1>1, <2>1, <2>2, <2>3 DEF Rest
<1>2. ASSUME NEW r \in Request, ApplyMutation(r) PROVE Next
  <2>1. PICK b : b = queue[pos[r]]
    OBVIOUS
  <2>2. pos[r] \in 1..Len(queue) /\ queue \in Queues
    BY <1>2, ApplyKeepsInv DEF SessionInv
  <2>3. /\ b.type = "item" => b.m \in ItemMutation
        /\ b.type = "location" => b.m \in LocationMutation
        /\ b.type = "stock_adjustment" => b.m \in AdjustmentMutation
    BY <2>1, <2>2, QueueAssumption
  <2>4. PushEntity(b)
    BY <1>2, <2>1 DEF ApplyMutation
  <2> QED
    BY <2>3, <2>4 DEF PushEntity, Next, pushItem, pushLocation
<1>3. ASSUME NEW r \in Request, SkipMutation(r) \/ FailBatch(r) \/ FinishBatch(r)
      PROVE  UNCHANGED vars
  BY <1>3 DEF SkipMutation, FailBatch, FinishBatch
<1>4. ASSUME NEW r \in Request, Send(r) \/ ReceiveReply(r) \/ GiveUp(r)
      PROVE  UNCHANGED vars
  BY <1>4 DEF Send, ReceiveReply, GiveUp
<1>5. CASE Crash \/ UNCHANGED allVars
  BY <1>5 DEF Crash, allVars
<1> QED
  BY <1>1, <1>2, <1>3, <1>4, <1>5 DEF SessionNext, Handle

(* Whatever the batches, retries and restarts, the tables only ever change by *)
(* the transactions of Inventory, so all that is proved of those (no lost     *)
(* update, no cycle of locations, exact field versions) holds in a session.   *)
THEOREM SessionIsInventory == SessionSpec => Spec
<1>1. SessionInit => SessionInv /\ Init
  BY SessionInvInit DEF SessionInit
<1>2. SessionInv /\ [SessionNext]_allVars => SessionInv' /\ [Next]_vars
  BY OutboxStep, InventoryStep
<1> QED
  BY <1>1, <1>2, PTL DEF SessionSpec, Spec

----------------------------------------------------------------------------
(* Sums over finite sets. *)

(* A set of numbers without a first one is empty. *)
LEMMA NoFirst ==
    ASSUME NEW S \in SUBSET Nat,
           \A n \in S : \E m \in S : m < n
    PROVE  S = {}
<1> SUFFICES ASSUME S # {} PROVE FALSE
  OBVIOUS
<1>1. PICK R : R = OpToRel(<, Nat)
  OBVIOUS
<1>2. IsWellFoundedOn(R, Nat)
  BY <1>1, NatLessThanWellFounded
<1>3. PICK x \in S : \A y \in S : ~(<<y, x>> \in R)
  BY <1>2, WFMin
<1>4. \A y \in S : <<y, x>> \in R <=> y < x
  BY <1>1 DEF OpToRel
<1> QED BY <1>3, <1>4

(* A family of finite sets in which each has a smaller one is empty. *)
LEMMA NoSmallest ==
    ASSUME NEW F, \A s \in F : IsFiniteSet(s),
           \A s \in F : s # {} /\ \E x \in s : s \ {x} \in F
    PROVE  F = {}
<1> DEFINE S == {Cardinality(s) : s \in F}
<1>1. S \in SUBSET Nat
  BY FS_CardinalityType
<1>2. ASSUME NEW n \in S PROVE \E m \in S : m < n
  <2>1. PICK s \in F : n = Cardinality(s)
    OBVIOUS
  <2>2. PICK x \in s : s \ {x} \in F
    BY <2>1
  <2>3. Cardinality(s \ {x}) = Cardinality(s) - 1 /\ Cardinality(s) \in Nat
    BY <2>1, <2>2, FS_RemoveElement, FS_CardinalityType
  <2> QED BY <2>1, <2>2, <2>3
<1>3. S = {}
  <2> HIDE DEF S
  <2> QED BY <1>1, <1>2, NoFirst
<1> QED BY <1>3

(* g[s] is the sum of f over s, for every subset s of A. *)
Sums(f, A, g) ==
    /\ g \in [SUBSET A -> Int]
    /\ g[{}] = 0
    /\ \A s \in SUBSET A : \A x \in s : g[s] = f[x] + g[s \ {x}]

(* The sums over the subsets of a finite set exist, by induction on the subset. *)
LEMMA SumsExist ==
    ASSUME NEW A, IsFiniteSet(A), NEW f \in [A -> Int]
    PROVE  \E g : Sums(f, A, g)
<1> DEFINE F == {B \in SUBSET A : ~\E g : Sums(f, B, g)}
<1>1. \A B \in F : IsFiniteSet(B)
  BY FS_Subset
<1>2. ASSUME NEW B \in F PROVE B # {} /\ \E b \in B : B \ {b} \in F
  <2>1. B # {}
    <3> SUFFICES Sums(f, {}, [s \in SUBSET {} |-> 0])
      OBVIOUS
    <3> QED BY DEF Sums
  <2>2. PICK b \in B : TRUE
    BY <2>1
  <2> SUFFICES ASSUME NEW g, Sums(f, B \ {b}, g) PROVE \E h : Sums(f, B, h)
    OBVIOUS
  <2>3. PICK h : h = [s \in SUBSET B |-> IF b \in s THEN f[b] + g[s \ {b}] ELSE g[s]]
    OBVIOUS
  <2>4. \A s \in SUBSET B : s \ {b} \in SUBSET (B \ {b}) /\ (b \notin s => s \in SUBSET (B \ {b}))
    OBVIOUS
  <2>5. \A x \in B : f[x] \in Int
    OBVIOUS
  <2>6. \A s \in SUBSET (B \ {b}) : g[s] \in Int
    BY DEF Sums
  <2>7. h \in [SUBSET B -> Int]
    BY <2>3, <2>4, <2>5, <2>6
  <2>8. h[{}] = 0
    BY <2>3 DEF Sums
  <2>9. ASSUME NEW s \in SUBSET B, NEW x \in s PROVE h[s] = f[x] + h[s \ {x}]
    <3>1. CASE x = b
      <4>1. h[s] = f[b] + g[s \ {b}] /\ h[s \ {b}] = g[s \ {b}]
        BY <2>3, <3>1
      <4> QED BY <3>1, <4>1
    <3>2. CASE b \notin s
      <4>1. g[s] = f[x] + g[s \ {x}]
        BY <2>4, <3>2 DEF Sums
      <4> QED BY <2>3, <3>2, <4>1
    <3>3. CASE x # b /\ b \in s
      <4>1. h[s] = f[b] + g[s \ {b}] /\ h[s \ {x}] = f[b] + g[(s \ {x}) \ {b}]
        BY <2>3, <3>3
      <4>2. g[s \ {b}] = f[x] + g[(s \ {b}) \ {x}]
        BY <2>4, <3>3 DEF Sums
      <4>3. (s \ {b}) \ {x} = (s \ {x}) \ {b} /\ (s \ {b}) \ {x} \in SUBSET (B \ {b})
        OBVIOUS
      <4>4. PICK c \in Int : c = g[(s \ {b}) \ {x}]
        BY <2>6, <4>3
      <4>5. PICK p \in Int, q \in Int : p = f[b] /\ q = f[x]
        BY <2>5
      <4>6. h[s] = p + (q + c) /\ h[s \ {x}] = p + c
        BY <4>1, <4>2, <4>3, <4>4, <4>5
      <4> QED BY <4>5, <4>6
    <3> QED BY <3>1, <3>2, <3>3
  <2> QED BY <2>7, <2>8, <2>9 DEF Sums
<1>3. F = {}
  <2> HIDE DEF F
  <2> QED BY <1>1, <1>2, NoSmallest
<1> QED BY <1>3

(* Only the values of f on s matter. *)
LEMMA SumsUnique ==
    ASSUME NEW A, NEW B, NEW f, NEW h, NEW g, NEW k, Sums(f, A, g), Sums(h, B, k),
           NEW S \in SUBSET A, S \in SUBSET B, IsFiniteSet(S), \A x \in S : f[x] = h[x]
    PROVE  g[S] = k[S]
<1> DEFINE F == {s \in SUBSET S : g[s] # k[s]}
<1>1. \A s \in F : IsFiniteSet(s)
  BY FS_Subset
<1>2. ASSUME NEW s \in F PROVE s # {} /\ \E x \in s : s \ {x} \in F
  <2>1. s # {}
    BY DEF Sums
  <2>2. PICK x \in s : TRUE
    BY <2>1
  <2>3. g[s] = f[x] + g[s \ {x}] /\ k[s] = h[x] + k[s \ {x}] /\ f[x] = h[x]
    BY DEF Sums
  <2> QED BY <2>2, <2>3
<1>3. F = {}
  <2> HIDE DEF F
  <2> QED BY <1>1, <1>2, NoSmallest
<1> QED BY <1>3

(* MapThenSumSet, which takes the elements one by one, adds them up. *)
LEMMA DeltasAreSums ==
    ASSUME NEW t, NEW i, NEW S, S = {a \in AdjustmentId : t[a].item = i}, IsFiniteSet(S),
           NEW f, NEW g, Sums(f, S, g), \A x \in S : f[x] = t[x].delta
    PROVE  Deltas(t, i) = g[S]
<1> DEFINE Body(h) == [s \in SUBSET S |->
             IF s = {} THEN 0 ELSE LET x == CHOOSE y \in s : TRUE IN t[x].delta + h[s \ {x}]]
           iter == CHOOSE h : h = Body(h)
<1>1. Deltas(t, i) = iter[S]
  BY DEF Deltas, MapThenSumSet, MapThenFoldSet
<1>2. g = Body(g)
  <2>1. ASSUME NEW s \in SUBSET S PROVE g[s] = Body(g)[s]
    <3>1. CASE s = {}
      BY <3>1 DEF Sums
    <3>2. CASE s # {}
      <4>1. PICK x : x = CHOOSE y \in s : TRUE
        OBVIOUS
      <4>2. x \in s
        BY <3>2, <4>1
      <4>3. g[s] = f[x] + g[s \ {x}] /\ f[x] = t[x].delta
        BY <4>2 DEF Sums
      <4> QED BY <3>2, <4>1, <4>3
    <3> QED BY <3>1, <3>2
  <2> HIDE DEF Body
  <2>2. g = [s \in SUBSET S |-> g[s]]
    BY DEF Sums
  <2>3. Body(g) = [s \in SUBSET S |-> Body(g)[s]]
    BY DEF Body
  <2> QED BY <2>1, <2>2, <2>3
<1>3. iter = Body(iter)
  <2> HIDE DEF Body
  <2> QED BY <1>2
<1> HIDE DEF iter
<1> DEFINE F == {s \in SUBSET S : g[s] # iter[s]}
<1>4. \A s \in F : IsFiniteSet(s)
  BY FS_Subset
<1>5. ASSUME NEW s \in F PROVE s # {} /\ \E x \in s : s \ {x} \in F
  <2>1. s # {}
    BY <1>3 DEF Sums
  <2>2. PICK x \in s : x = CHOOSE y \in s : TRUE
    BY <2>1
  <2>3. iter[s] = t[x].delta + iter[s \ {x}]
    BY <1>3, <2>1, <2>2
  <2>4. g[s] = t[x].delta + g[s \ {x}]
    BY DEF Sums
  <2> QED BY <2>1, <2>2, <2>3, <2>4
<1>6. F = {}
  <2> HIDE DEF F
  <2> QED BY <1>4, <1>5, NoSmallest
<1> QED BY <1>1, <1>6

----------------------------------------------------------------------------
(* Sums modulo the int64 range. *)

(* Quotient and remainder. *)
LEMMA DivMod ==
    ASSUME NEW m \in Nat \ {0}, NEW x \in Int
    PROVE  \E k \in Int : x = m * k + (x % m) /\ x % m \in 0..(m - 1)
<1>1. x = m * (x \div m) + (x % m)
  OBVIOUS
<1>2. x \div m \in Int /\ x % m \in 0..(m - 1)
  OBVIOUS
<1> QED BY <1>1, <1>2

(* A multiple of m leaves no remainder. *)
LEMMA Multiple ==
    ASSUME NEW m \in Nat \ {0}, NEW k \in Int
    PROVE  (m * k) % m = 0
<1>1. m * k \in Int
  OBVIOUS
<1>2. PICK j \in Int : m * k = m * j + ((m * k) % m) /\ (m * k) % m \in 0..(m - 1)
  BY <1>1, DivMod
<1>3. PICK r \in 0..(m - 1) : r = (m * k) % m
  BY <1>2
<1>4. m * (k - j) = r
  BY <1>2, <1>3
<1>5. k - j = 0
  <2>1. CASE k - j > 0
    <3>1. m * (k - j) >= m
      BY <2>1
    <3> QED BY <1>3, <1>4, <3>1
  <2>2. CASE k - j < 0
    <3>1. m * (k - j) <= -m
      BY <2>2
    <3> QED BY <1>3, <1>4, <3>1
  <2> QED BY <2>1, <2>2
<1> QED BY <1>3, <1>4, <1>5

(* int64 addition keeps a quantity congruent to the sum. *)
LEMMA AddKeepsCongruence ==
    ASSUME NEW s \in Int, NEW q \in Int, NEW d \in Int,
           (s - q) % (2 * QuantityLimit) = 0
    PROVE  ((s + d) - AddQuantity(q, d)) % (2 * QuantityLimit) = 0
<1> USE QuantityAssumption
<1>1. PICK m \in Nat \ {0} : m = 2 * QuantityLimit
  OBVIOUS
<1>2. PICK k \in Int : s - q = m * k
  <2>1. PICK z \in Int : z = s - q
    OBVIOUS
  <2>2. PICK k \in Int : z = m * k + (z % m)
    BY DivMod
  <2>3. z % m = 0
    BY <1>1, <2>1
  <2> QED BY <2>1, <2>2, <2>3
<1>3. PICK x \in Int : x = q + d + QuantityLimit
  OBVIOUS
<1>4. PICK j \in Int : x = m * j + (x % m) /\ x % m \in Int
  <2>1. PICK j \in Int : x = m * j + (x % m) /\ x % m \in 0..(m - 1)
    BY DivMod
  <2> QED BY <2>1
<1>5. AddQuantity(q, d) = (x % m) - QuantityLimit
  BY <1>1, <1>3 DEF AddQuantity
<1>6. PICK y \in Int : y = x % m
  BY <1>4
<1>7. (s + d) - AddQuantity(q, d) = m * k + m * j
  <2>1. PICK a \in Int, b \in Int : a = m * k /\ b = m * j
    OBVIOUS
  <2>2. s - q = a /\ x = b + y /\ AddQuantity(q, d) = y - QuantityLimit
    BY <1>2, <1>4, <1>5, <1>6, <2>1
  <2>3. y = q + d + QuantityLimit - b
    BY <1>3, <2>2
  <2>4. (s + d) - AddQuantity(q, d) = (s + d) - ((q + d + QuantityLimit - b) - QuantityLimit)
    BY <2>2, <2>3
  <2>5. (s + d) - ((q + d + QuantityLimit - b) - QuantityLimit) = (s - q) + b
    OBVIOUS
  <2> QED BY <2>1, <2>2, <2>4, <2>5
<1>8. m * k + m * j = m * (k + j)
  OBVIOUS
<1> QED BY <1>1, <1>7, <1>8, Multiple

----------------------------------------------------------------------------
(* The stock of an item is the sum of its adjustments. *)

AdjustmentsOf(t, i) == {a \in AdjustmentId : t[a].item = i}
DeltaOf(t) == [a \in AdjustmentId |-> t[a].delta]

(* Deltas are integers. *)
LEMMA DeltaOfType ==
    ASSUME NEW t \in [AdjustmentId -> AdjustmentRow]
    PROVE  DeltaOf(t) \in [AdjustmentId -> Int]
<1>1. \A a \in AdjustmentId : t[a].delta \in Quantity
  BY DEF AdjustmentRow
<1>2. Quantity \subseteq Int
  BY QuantityAssumption DEF Quantity
<1> QED BY <1>1, <1>2 DEF DeltaOf

(* The sum that Deltas computes. *)
LEMMA DeltasValue ==
    ASSUME NEW t \in [AdjustmentId -> AdjustmentRow], NEW i, NEW g, Sums(DeltaOf(t), AdjustmentId, g)
    PROVE  Deltas(t, i) = g[AdjustmentsOf(t, i)] /\ Deltas(t, i) \in Int
<1>1. PICK S : S = AdjustmentsOf(t, i)
  OBVIOUS
<1>2. S \in SUBSET AdjustmentId /\ IsFiniteSet(S)
  BY <1>1, SessionAssumption, FS_Subset DEF AdjustmentsOf
<1>3. PICK f : f = [a \in S |-> t[a].delta]
  OBVIOUS
<1>4. f \in [S -> Int] /\ \A x \in S : f[x] = DeltaOf(t)[x] /\ f[x] = t[x].delta
  BY <1>2, <1>3, DeltaOfType DEF DeltaOf
<1>5. PICK h : Sums(f, S, h)
  BY <1>2, <1>4, SumsExist
<1>6. Deltas(t, i) = h[S]
  BY <1>1, <1>2, <1>4, <1>5, DeltasAreSums DEF AdjustmentsOf
<1>7. h[S] = g[S]
  BY <1>2, <1>4, <1>5, SumsUnique
<1>8. g[S] \in Int
  BY <1>2 DEF Sums
<1> QED BY <1>1, <1>6, <1>7, <1>8

(* The deltas of all adjustments have sums. *)
LEMMA DeltasExist ==
    ASSUME NEW t \in [AdjustmentId -> AdjustmentRow]
    PROVE  \E g : Sums(DeltaOf(t), AdjustmentId, g)
  BY SessionAssumption, DeltaOfType, SumsExist

(* An item without adjustments. *)
LEMMA NoDeltas ==
    ASSUME NEW t \in [AdjustmentId -> AdjustmentRow], NEW i,
           \A a \in AdjustmentId : t[a].item # i
    PROVE  Deltas(t, i) = 0
<1>1. PICK g : Sums(DeltaOf(t), AdjustmentId, g)
  BY DeltasExist
<1>2. AdjustmentsOf(t, i) = {}
  BY DEF AdjustmentsOf
<1> QED BY <1>1, <1>2, DeltasValue DEF Sums

(* One more adjustment of item i. *)
LEMMA OneMoreDelta ==
    ASSUME NEW t \in [AdjustmentId -> AdjustmentRow], NEW u \in [AdjustmentId -> AdjustmentRow],
           NEW a \in AdjustmentId, \A x \in AdjustmentId : x # a => u[x] = t[x],
           NEW i, t[a].item # i
    PROVE  Deltas(u, i) = IF u[a].item = i THEN Deltas(t, i) + u[a].delta ELSE Deltas(t, i)
<1>1. PICK row : row = u[a] /\ row \in AdjustmentRow
  OBVIOUS
<1>2. PICK g : Sums(DeltaOf(t), AdjustmentId, g)
  BY DeltasExist
<1>3. PICK h : Sums(DeltaOf(u), AdjustmentId, h)
  BY <1>1, DeltasExist
<1>4. PICK S : S = AdjustmentsOf(t, i)
  OBVIOUS
<1>5. S \in SUBSET AdjustmentId /\ IsFiniteSet(S) /\ a \notin S
  BY <1>4, SessionAssumption, FS_Subset DEF AdjustmentsOf
<1>6. \A x \in S : DeltaOf(t)[x] = DeltaOf(u)[x]
  BY <1>1, <1>5 DEF DeltaOf
<1>7. g[S] = h[S]
  <2>1. PICK f1, f2 : f1 = DeltaOf(t) /\ f2 = DeltaOf(u)
    OBVIOUS
  <2>2. Sums(f1, AdjustmentId, g) /\ Sums(f2, AdjustmentId, h) /\ \A x \in S : f1[x] = f2[x]
    BY <1>2, <1>3, <1>6, <2>1
  <2> QED BY <1>5, <2>2, SumsUnique
<1>8. Deltas(t, i) = g[S] /\ Deltas(t, i) \in Int
  BY <1>2, <1>4, DeltasValue
<1>9. Deltas(u, i) = h[AdjustmentsOf(u, i)]
  BY <1>1, <1>3, DeltasValue
<1>10. CASE row.item = i
  <2>1. AdjustmentsOf(u, i) = S \cup {a}
    BY <1>1, <1>4, <1>5, <1>10 DEF AdjustmentsOf
  <2>2. S \cup {a} \in SUBSET AdjustmentId /\ (S \cup {a}) \ {a} = S
    BY <1>5
  <2>3. h[S \cup {a}] = DeltaOf(u)[a] + h[(S \cup {a}) \ {a}]
    BY <1>3, <2>2 DEF Sums
  <2>4. DeltaOf(u)[a] = row.delta
    BY <1>1 DEF DeltaOf
  <2>5. row.delta \in Int
    <3>1. row.delta \in Quantity
      BY <1>1 DEF AdjustmentRow
    <3> QED BY <3>1, QuantityAssumption DEF Quantity
  <2>6. Deltas(u, i) = row.delta + Deltas(t, i)
    BY <1>7, <1>8, <1>9, <2>1, <2>2, <2>3, <2>4
  <2> QED BY <1>1, <1>8, <1>10, <2>5, <2>6
<1>11. CASE row.item # i
  <2>1. AdjustmentsOf(u, i) = S
    BY <1>1, <1>4, <1>5, <1>11 DEF AdjustmentsOf
  <2> QED BY <1>1, <1>7, <1>8, <1>9, <1>11, <2>1
<1> QED BY <1>10, <1>11

(* An adjustment has an item, so an item that does not exist has none. *)
ItemsExist == \A a \in AdjustmentId, i \in ItemId : adjustments[a].item = i => Exists(i)

SumInv == ItemsExist /\ QuantityIsSum

NoQuantityWritten ==
    \A k \in 1..Len(queue) : queue[k].type = "item" => "quantity" \notin DOMAIN queue[k].m.fields

Congruent(i) == (Deltas(adjustments, i) - rows[i].val["quantity"]) % (2 * QuantityLimit) = 0

(* QuantityIsSum, item by item. *)
LEMMA QuantityFacts ==
    QuantityIsSum <=> (NoQuantityWritten => \A i \in ItemId : Exists(i) => Congruent(i))
  BY DEF QuantityIsSum, NoQuantityWritten, Congruent

(* A step that adjusts nothing leaves the quantities of the items alone, or  *)
(* creates an item without stock.                                            *)
LEMMA UnadjustedKeeps ==
    ASSUME TypeOK, SumInv, UNCHANGED <<adjustments, queue>>,
           \A i \in ItemId : Exists(i) => Exists(i)',
           NoQuantityWritten => \A i \in ItemId : Exists(i)' =>
               IF Exists(i) THEN rows'[i].val["quantity"] = rows[i].val["quantity"]
                            ELSE rows'[i].val["quantity"] = 0
    PROVE  SumInv'
<1>1. adjustments \in [AdjustmentId -> AdjustmentRow]
  BY DEF TypeOK
<1>2. ItemsExist'
  BY DEF SumInv, ItemsExist
<1>3. ASSUME NoQuantityWritten, NEW i \in ItemId, Exists(i)' PROVE Congruent(i)'
  <2>1. CASE Exists(i)
    <3>1. Congruent(i)
      BY <1>3, <2>1, QuantityFacts DEF SumInv
    <3> QED BY <1>3, <2>1, <3>1 DEF Congruent
  <2>2. CASE ~Exists(i)
    <3>1. \A a \in AdjustmentId : adjustments[a].item # i
      BY <2>2 DEF SumInv, ItemsExist
    <3>2. Deltas(adjustments, i) = 0
      BY <1>1, <3>1, NoDeltas
    <3>3. rows'[i].val["quantity"] = 0
      BY <1>3, <2>2
    <3>4. (0 - 0) % (2 * QuantityLimit) = 0
      <4>1. PICK m \in Nat \ {0} : m = 2 * QuantityLimit
        BY QuantityAssumption
      <4>2. (m * 0) % m = 0
        BY Multiple
      <4>3. m * 0 = 0 - 0
        OBVIOUS
      <4> QED BY <4>1, <4>2, <4>3
    <3> QED BY <3>2, <3>3, <3>4 DEF Congruent
  <2> QED BY <2>1, <2>2
<1>4. NoQuantityWritten' <=> NoQuantityWritten
  BY DEF NoQuantityWritten
<1>5. QuantityIsSum'
  BY <1>3, <1>4 DEF QuantityIsSum, NoQuantityWritten, Congruent
<1> QED BY <1>2, <1>5 DEF SumInv

(* An adjustment adds its delta to the quantity and to the sum. *)
LEMMA AdjustKeeps ==
    ASSUME TypeOK, SumInv, UNCHANGED queue, NEW a \in AdjustmentId, NEW j \in ItemId, NEW d \in Quantity,
           adjustments[a] = NoAdjustment, Live(j), AdjustQuantity(a, j, d)
    PROVE  SumInv'
<1>1. adjustments \in [AdjustmentId -> AdjustmentRow] /\ rows \in [EntityId -> Row] /\ changeSeq \in Nat
  BY DEF TypeOK, StoreTypeOK
<1>2. PICK q : q = AddQuantity(rows[j].val["quantity"], d)
  OBVIOUS
<1>3. rows[j].val["quantity"] \in Quantity /\ rows[j].val \in [FieldName -> Value] /\ j \in EntityId
  <2>1. rows[j].val \in RowValue(ItemField)
    BY DEF TypeOK, Live, Exists
  <2> QED BY <2>1, FieldAssumption, EntityAssumption DEF RowValue, ItemField, ColumnValue
<1>4. q \in Quantity
  BY <1>2, <1>3, AddQuantityType
<1>5. PICK row : row = [item |-> j, delta |-> d, resulting |-> q, seq |-> changeSeq + 1]
  OBVIOUS
<1>6. row \in AdjustmentRow /\ row.item = j /\ row.delta = d
  BY <1>1, <1>4, <1>5 DEF AdjustmentRow
<1>7. adjustments' = [adjustments EXCEPT ![a] = row]
  BY <1>2, <1>5 DEF AdjustQuantity
<1>8. PICK val : val = [rows[j].val EXCEPT !["quantity"] = q]
  OBVIOUS
<1>9. rows' = [rows EXCEPT ![j] = Revised(rows[j], val, changeSeq + 1)]
  BY <1>2, <1>8 DEF AdjustQuantity, UpdateRow, StoreRows
<1>10. val["quantity"] = q
  BY <1>3, <1>8, FieldAssumption
<1>11. rows'[j].val["quantity"] = q /\ rows'[j].state = rows[j].state
  BY <1>1, <1>3, <1>9, <1>10 DEF Revised
<1>12. \A e \in EntityId : e # j => rows'[e] = rows[e]
  BY <1>1, <1>9
<1>13. \A e \in EntityId : Exists(e)' <=> Exists(e)
  BY <1>11, <1>12 DEF Exists
<1>14. ItemId \subseteq EntityId
  BY EntityAssumption
<1>15. ItemsExist'
  <2>1. ASSUME NEW b \in AdjustmentId, NEW i \in ItemId, adjustments'[b].item = i
        PROVE  Exists(i)
    <3>1. CASE b = a
      BY <1>1, <1>6, <1>7, <2>1, <3>1 DEF Live, Exists
    <3>2. CASE b # a
      BY <1>1, <1>7, <2>1, <3>2 DEF SumInv, ItemsExist
    <3> QED BY <3>1, <3>2
  <2> QED BY <1>13, <1>14, <2>1 DEF ItemsExist
<1>16. ASSUME NoQuantityWritten, NEW i \in ItemId, Exists(i)' PROVE Congruent(i)'
  <2>1. Congruent(i)
    BY <1>13, <1>14, <1>16, QuantityFacts DEF SumInv
  <2>2. adjustments[a].item # i
    BY SessionAssumption DEF NoAdjustment
  <2>3. PICK s : s = Deltas(adjustments, i)
    OBVIOUS
  <2>4. s \in Int
    BY <1>1, <2>3, DeltasExist, DeltasValue
  <2>5. Deltas(adjustments', i) = IF j = i THEN s + d ELSE s
    <3>1. PICK t \in [AdjustmentId -> AdjustmentRow] : t = adjustments
      BY <1>1
    <3>2. PICK u \in [AdjustmentId -> AdjustmentRow] : u = [t EXCEPT ![a] = row]
      BY <1>6
    <3>3. t[a].item # i /\ u[a] = row /\ \A x \in AdjustmentId : x # a => u[x] = t[x]
      BY <2>2, <3>1, <3>2
    <3>4. Deltas(u, i) = IF u[a].item = i THEN Deltas(t, i) + u[a].delta ELSE Deltas(t, i)
      BY <3>3, OneMoreDelta
    <3>5. u = adjustments' /\ s = Deltas(t, i)
      BY <1>7, <2>3, <3>1, <3>2
    <3> QED BY <1>6, <3>3, <3>4, <3>5
  <2>6. CASE i # j
    BY <1>12, <1>14, <2>1, <2>3, <2>5, <2>6 DEF Congruent
  <2>7. CASE i = j
    <3>1. PICK z \in Int : z = rows[j].val["quantity"]
      BY <1>3, QuantityAssumption DEF Quantity
    <3>2. d \in Int
      BY QuantityAssumption DEF Quantity
    <3>3. (s - z) % (2 * QuantityLimit) = 0
      BY <2>1, <2>3, <2>7, <3>1 DEF Congruent
    <3>4. ((s + d) - AddQuantity(z, d)) % (2 * QuantityLimit) = 0
      BY <2>4, <3>1, <3>2, <3>3, AddKeepsCongruence
    <3>5. rows'[i].val["quantity"] = AddQuantity(z, d) /\ Deltas(adjustments', i) = s + d
      BY <1>2, <1>11, <2>5, <2>7, <3>1
    <3> QED BY <3>4, <3>5 DEF Congruent
  <2> QED BY <2>6, <2>7
<1>17. NoQuantityWritten' <=> NoQuantityWritten
  BY DEF NoQuantityWritten
<1>18. QuantityIsSum'
  BY <1>16, <1>17 DEF QuantityIsSum, NoQuantityWritten, Congruent
<1> QED BY <1>15, <1>18 DEF SumInv

(* A row is updated: its new value has the quantity of the old one. *)
LEMMA UpdateKeepsQuantity ==
    ASSUME TypeOK, SumInv, UNCHANGED <<adjustments, queue>>, NEW e \in EntityId, NEW v,
           e \in ItemId /\ NoQuantityWritten => v["quantity"] = rows[e].val["quantity"],
           Live(e), UpdateRow(e, v)
    PROVE  SumInv'
<1>1. rows \in [EntityId -> Row] /\ ItemId \subseteq EntityId
  BY EntityAssumption DEF TypeOK, StoreTypeOK
<1>2. rows' = [rows EXCEPT ![e] = Revised(rows[e], v, changeSeq + 1)]
  BY DEF UpdateRow, StoreRows
<1>3. rows'[e].state = rows[e].state /\ rows'[e].val = v
  BY <1>1, <1>2 DEF Revised
<1>4. \A i \in ItemId : i # e => rows'[i] = rows[i]
  BY <1>1, <1>2
<1>5. \A i \in ItemId : Exists(i)' <=> Exists(i)
  BY <1>3, <1>4 DEF Exists
<1>6. NoQuantityWritten => \A i \in ItemId : rows'[i].val["quantity"] = rows[i].val["quantity"]
  BY <1>3, <1>4
<1> QED BY <1>5, <1>6, UnadjustedKeeps

(* A row is created: an item starts without stock. *)
LEMMA CreateKeepsQuantity ==
    ASSUME TypeOK, SumInv, UNCHANGED <<adjustments, queue>>, NEW e \in EntityId, NEW v, NEW n,
           e \in ItemId /\ NoQuantityWritten => v["quantity"] = 0,
           ~Exists(e), rows' = [rows EXCEPT ![e] = Created(v, n)]
    PROVE  SumInv'
<1>1. rows \in [EntityId -> Row] /\ ItemId \subseteq EntityId
  BY EntityAssumption DEF TypeOK, StoreTypeOK
<1>2. rows'[e].state = "live" /\ rows'[e].val = v
  BY <1>1 DEF Created
<1>3. \A i \in ItemId : i # e => rows'[i] = rows[i]
  BY <1>1
<1>4. \A i \in ItemId : Exists(i) => Exists(i)'
  BY <1>2, <1>3 DEF Exists
<1>5. NoQuantityWritten => \A i \in ItemId : Exists(i)' =>
         IF Exists(i) THEN rows'[i].val["quantity"] = rows[i].val["quantity"]
                      ELSE rows'[i].val["quantity"] = 0
  BY <1>2, <1>3 DEF Exists
<1> QED BY <1>4, <1>5, UnadjustedKeeps

(* Edits of other members write no quantity. *)
LEMMA RestKeepsQuantity ==
    ASSUME TypeOK, SumInv, Rest
    PROVE  SumInv'
<1>1. UNCHANGED <<adjustments, queue>>
  BY DEF Rest, CreateLocation, DeleteLocation, DeleteItem, sessionVars
<1>2. rows \in [EntityId -> Row] /\ ItemId \subseteq EntityId
  BY EntityAssumption DEF TypeOK, StoreTypeOK
<1>3. ASSUME NEW l \in RestLocation, NEW v \in LocationRow, CreateLocation(l, v) PROVE SumInv'
  <2>1. l \in EntityId /\ l \notin ItemId
    BY SessionAssumption, EntityAssumption
  <2>2. ~Exists(l) /\ rows' = [rows EXCEPT ![l] = Created(v, changeSeq + 1)]
    BY <1>3 DEF CreateLocation, StoreRows
  <2> QED BY <1>1, <2>1, <2>2, CreateKeepsQuantity
<1>4. ASSUME NEW l \in RestLocation, DeleteLocation(l, FALSE, NoLocation) PROVE SumInv'
  <2>1. rows' = DeletedLocationRows(l, NoLocation) /\ LiveItems(l) = {} /\ LiveChildren(l) = {}
    BY <1>4 DEF DeleteLocation, StoreRows
  <2>2. \A i \in ItemId : rows'[i] = rows[i]
    BY <1>2, <2>1, SessionAssumption, EntityAssumption DEF DeletedLocationRows
  <2>3. \A i \in ItemId : Exists(i)' <=> Exists(i)
    BY <2>2 DEF Exists
  <2> QED BY <1>1, <2>2, <2>3, UnadjustedKeeps
<1>5. ASSUME NEW j \in ItemId, DeleteItem(j) PROVE SumInv'
  <2>1. rows' = [rows EXCEPT ![j] = Tombstoned(rows[j], changeSeq + 1)] /\ Live(j)
    BY <1>5 DEF DeleteItem, StoreRows
  <2>2. rows'[j].state = "tombstoned" /\ rows'[j].val = rows[j].val
    BY <1>2, <2>1 DEF Tombstoned
  <2>3. \A i \in ItemId : i # j => rows'[i] = rows[i]
    BY <1>2, <2>1
  <2>4. \A i \in ItemId : Exists(i)' <=> Exists(i)
    BY <2>1, <2>2, <2>3 DEF Exists, Live
  <2>5. \A i \in ItemId : rows'[i].val["quantity"] = rows[i].val["quantity"]
    BY <2>2, <2>3
  <2> QED BY <1>1, <2>4, <2>5, UnadjustedKeeps
<1> QED BY <1>3, <1>4, <1>5 DEF Rest

(* A pushed item writes the quantity only if its patch has one. *)
LEMMA PushedItemKeepsQuantity ==
    ASSUME TypeOK, SumInv, UNCHANGED queue, NEW m \in ItemMutation,
           NoQuantityWritten => "quantity" \notin DOMAIN m.fields,
           PushCreateItem(m) \/ PushUpdateItem(m)
    PROVE  SumInv'
<1>1. UNCHANGED <<adjustments, queue>>
  BY DEF PushCreateItem, PushUpdateItem
<1>2. m.entity \in ItemId /\ m.entity \in EntityId /\ m.fields \in Patch(ItemField)
  BY EntityAssumption DEF ItemMutation
<1>3. CASE UNCHANGED rows
  <2>1. \A i \in ItemId : Exists(i)' <=> Exists(i)
    BY <1>3 DEF Exists
  <2> QED BY <1>1, <1>3, <2>1, UnadjustedKeeps
<1>4. CASE PushCreateItem(m) /\ rows' # rows
  <2>1. PICK v : v = FromPatch(ItemField, m.fields)
    OBVIOUS
  <2>2. ~Exists(m.entity) /\ \E taken \in 0 .. ShortCodeAttempts - 1 :
            rows' = [rows EXCEPT ![m.entity] = Created(v, changeSeq + taken + 1)]
    BY <1>4, <2>1 DEF PushCreateItem, SettleConflict, StoreRows
  <2>3. PICK n : rows' = [rows EXCEPT ![m.entity] = Created(v, n)]
    BY <2>2
  <2>4. NoQuantityWritten => v["quantity"] = 0
    BY <2>1, FieldAssumption DEF FromPatch, ItemField, ZeroValue
  <2> QED BY <1>1, <1>2, <2>2, <2>3, <2>4, CreateKeepsQuantity
<1>5. CASE PushUpdateItem(m) /\ rows' # rows
  <2>1. PICK A : A = DOMAIN m.fields \ PushConflicts(m.entity, m.base, DOMAIN m.fields)
    OBVIOUS
  <2>2. PICK v : v = PushMerge(rows[m.entity].val, m.fields, A)
    OBVIOUS
  <2>3. Live(m.entity) /\ UpdateRow(m.entity, v)
    BY <1>5, <2>1, <2>2 DEF PushUpdateItem, SettleConflict
  <2>4. NoQuantityWritten => v["quantity"] = rows[m.entity].val["quantity"]
    BY <2>1, <2>2, FieldAssumption DEF PushMerge
  <2> QED BY <1>1, <1>2, <2>3, <2>4, UpdateKeepsQuantity
<1> QED BY <1>3, <1>4, <1>5

(* A pushed location writes no item. *)
LEMMA PushedLocationKeepsQuantity ==
    ASSUME TypeOK, SumInv, UNCHANGED queue, NEW m \in LocationMutation,
           PushCreateLocation(m) \/ PushUpdateLocation(m)
    PROVE  SumInv'
<1>1. UNCHANGED <<adjustments, queue>>
  BY DEF PushCreateLocation, PushUpdateLocation
<1>2. m.entity \notin ItemId /\ m.entity \in EntityId
  BY EntityAssumption DEF LocationMutation
<1>3. CASE UNCHANGED rows
  <2>1. \A i \in ItemId : Exists(i)' <=> Exists(i)
    BY <1>3 DEF Exists
  <2> QED BY <1>1, <1>3, <2>1, UnadjustedKeeps
<1>4. CASE PushCreateLocation(m) /\ rows' # rows
  <2>1. PICK v : v = FromPatch(LocationField, m.fields)
    OBVIOUS
  <2>2. ~Exists(m.entity) /\ rows' = [rows EXCEPT ![m.entity] = Created(v, changeSeq + 1)]
    BY <1>4, <2>1 DEF PushCreateLocation, SettleConflict, StoreRows
  <2> QED BY <1>1, <1>2, <2>2, CreateKeepsQuantity
<1>5. CASE PushUpdateLocation(m) /\ rows' # rows
  <2>1. PICK v : Live(m.entity) /\ UpdateRow(m.entity, v)
    BY <1>5 DEF PushUpdateLocation, SettleConflict
  <2> QED BY <1>1, <1>2, <2>1, UpdateKeepsQuantity
<1> QED BY <1>3, <1>4, <1>5

(* A pushed adjustment is settled without a write, or moves quantity and sum. *)
LEMMA PushedAdjustmentKeepsSum ==
    ASSUME TypeOK, SumInv, UNCHANGED queue, NEW m \in AdjustmentMutation, PushStockAdjustment(m)
    PROVE  SumInv'
<1>1. CASE UNCHANGED <<rows, adjustments>>
  <2>1. \A i \in ItemId : Exists(i)' <=> Exists(i)
    BY <1>1 DEF Exists
  <2> QED BY <1>1, <2>1, UnadjustedKeeps
<1>2. CASE adjustments[m.entity] = NoAdjustment /\ Live(m.item)
           /\ AdjustQuantity(m.entity, m.item, m.delta)
  <2>1. m.entity \in AdjustmentId /\ m.item \in ItemId /\ m.delta \in Quantity
    BY DEF AdjustmentMutation
  <2> QED BY <1>2, <2>1, AdjustKeeps
<1> QED BY <1>1, <1>2 DEF PushStockAdjustment, SettleConflict

(* SumInv is kept by every step and holds at the start. *)
LEMMA SumInductive ==
    ASSUME TypeOK, SessionInv, SumInv, [SessionNext]_allVars
    PROVE  SumInv'
<1>1. CASE Rest
  BY <1>1, RestKeepsQuantity
<1>2. ASSUME NEW r \in Request, ApplyMutation(r) PROVE SumInv'
  <2>1. PICK k : k = pos[r]
    OBVIOUS
  <2>2. k \in 1..Len(queue) /\ queue \in Queues
    BY <1>2, <2>1, ApplyKeepsInv DEF SessionInv
  <2>3. PICK b : b = queue[k]
    OBVIOUS
  <2>4. /\ b.type = "item" => b.m \in ItemMutation
        /\ b.type = "location" => b.m \in LocationMutation
        /\ b.type = "stock_adjustment" => b.m \in AdjustmentMutation
    BY <2>2, <2>3, QueueAssumption
  <2>5. PushEntity(b) /\ UNCHANGED queue
    BY <1>2, <2>1, <2>3 DEF ApplyMutation, Advance
  <2>6. b.type = "item" /\ NoQuantityWritten => "quantity" \notin DOMAIN b.m.fields
    BY <2>2, <2>3 DEF NoQuantityWritten
  <2>7. CASE b.type = "item" /\ (PushCreateItem(b.m) \/ PushUpdateItem(b.m))
    BY <2>4, <2>5, <2>6, <2>7, PushedItemKeepsQuantity
  <2>8. CASE b.type = "location" /\ (PushCreateLocation(b.m) \/ PushUpdateLocation(b.m))
    BY <2>4, <2>5, <2>8, PushedLocationKeepsQuantity
  <2>9. CASE b.type = "stock_adjustment" /\ PushStockAdjustment(b.m)
    BY <2>4, <2>5, <2>9, PushedAdjustmentKeepsSum
  <2> QED BY <2>5, <2>7, <2>8, <2>9 DEF PushEntity
<1>3. CASE UNCHANGED <<rows, adjustments, queue>>
  <2>1. \A i \in ItemId : Exists(i)' <=> Exists(i)
    BY <1>3 DEF Exists
  <2> QED BY <1>3, <2>1, UnadjustedKeeps
<1>4. ASSUME NEW r \in Request, SkipMutation(r) \/ FailBatch(r) \/ FinishBatch(r)
      PROVE  UNCHANGED <<rows, adjustments, queue>>
  BY <1>4 DEF SkipMutation, FailBatch, FinishBatch, Advance, vars, storeVars
<1>5. ASSUME NEW r \in Request, Send(r) \/ ReceiveReply(r) \/ GiveUp(r)
      PROVE  UNCHANGED <<rows, adjustments, queue>>
  BY <1>5 DEF Send, ReceiveReply, GiveUp, vars, storeVars
<1>6. Crash \/ UNCHANGED allVars => UNCHANGED <<rows, adjustments, queue>>
  BY DEF Crash, allVars, sessionVars, vars, storeVars
<1> QED
  BY <1>1, <1>2, <1>3, <1>4, <1>5, <1>6 DEF SessionNext, Handle

LEMMA SumInit == SessionInit => SumInv
<1> SUFFICES ASSUME SessionInit PROVE SumInv
  OBVIOUS
<1>1. \A i \in ItemId : ~Exists(i)
  BY EntityAssumption DEF SessionInit, Init, StoreInit, Exists, AbsentRow
<1>2. ItemsExist
  BY SessionAssumption DEF ItemsExist, SessionInit, Init, NoAdjustment
<1> QED BY <1>1, <1>2 DEF SumInv, QuantityIsSum

(* The quantity of an item is the int64 sum of its stock adjustments, unless *)
(* the queue sets a quantity itself: whatever is retried, repeated at the     *)
(* same time or cut off by a restart, createStockAdjustmentTx adds a delta    *)
(* exactly when it inserts the adjustment's row.                              *)
THEOREM QuantityIsSumCorrect == SessionSpec => []QuantityIsSum
<1>1. SessionInit => SessionInv /\ SumInv
  BY SessionInvInit, SumInit
<1>2. TypeOK /\ SessionInv /\ SumInv /\ [SessionNext]_allVars => SessionInv' /\ SumInv'
  BY OutboxStep, SumInductive
<1>3. SumInv => QuantityIsSum
  BY DEF SumInv
<1> QED
  BY <1>1, <1>2, <1>3, SessionIsInventory, TypeCorrect, PTL DEF SessionSpec
============================================================================
