---------------------------- MODULE PushSession ----------------------------
(***************************************************************************)
(* POST /sync/push: a device sends its queue of offline mutations as one   *)
(* batch; sync.Push applies them one transaction after another.  Replies    *)
(* get lost, the device repeats the batch while an earlier request may      *)
(* still be running, the server may stop between two transactions, and      *)
(* other members edit the group through REST meanwhile.                     *)
(***************************************************************************)
EXTENDS Inventory, Sequences, FiniteSetsExt

CONSTANTS
    Queues,        \* the queues a device may hold: <<[type, m], ...>>, m a mutation of Inventory
    Request,       \* requests that may be in flight at the same time
    RestLocation,  \* locations other members work on
    MaxCrashes     \* bound on the restarts of the server

BatchType == {"item", "location", "stock_adjustment", "unknown"}

ASSUME QueueAssumption ==
    \A q \in Queues :
        /\ q \in Seq(Range(q))
        /\ \A k \in 1..Len(q) :
              /\ q[k].type \in BatchType /\ q[k].m.id \in MutationId
              /\ q[k].type = "item" => q[k].m \in ItemMutation
              /\ q[k].type = "location" => q[k].m \in LocationMutation
              /\ q[k].type = "stock_adjustment" => q[k].m \in AdjustmentMutation
        /\ \A j, k \in 1..Len(q) : q[j].m.id = q[k].m.id => j = k
ASSUME SessionAssumption ==
    /\ RestLocation \subseteq LocationId /\ MaxCrashes \in Nat
    /\ IsFiniteSet(AdjustmentId) /\ Null \notin ItemId

VARIABLES
    queue,     \* the device's queue, sent as one batch
    state,     \* request -> "free", "running", "done" or "failed"
    pos,       \* request -> the mutation it applies next
    acked,     \* the device has seen a successful reply and dropped the batch
    crashes,   \* restarts so far
    applied    \* history: mutation id -> transactions that wrote rows for it

sessionVars == <<queue, state, pos, acked, crashes, applied>>
allVars == <<vars, sessionVars>>

SessionInit ==
    /\ Init
    /\ queue \in Queues
    /\ state = [r \in Request |-> "free"]
    /\ pos = [r \in Request |-> 1]
    /\ acked = FALSE
    /\ crashes = 0
    /\ applied = [id \in MutationId |-> 0]

----------------------------------------------------------------------------
(* The server. *)

(* The handler of the mutation's entity type runs to a commit. *)
PushEntity(b) ==
    \/ b.type = "item" /\ (PushCreateItem(b.m) \/ PushUpdateItem(b.m))
    \/ b.type = "location" /\ (PushCreateLocation(b.m) \/ PushUpdateLocation(b.m))
    \/ b.type = "stock_adjustment" /\ PushStockAdjustment(b.m)

(* What pushItem would store as the item's location. *)
PushedLocation(m) ==
    IF m.base = 0 THEN FromPatch(ItemField, m.fields)["location_id"]
    ELSE PushMerge(rows[m.entity].val, m.fields,
                   DOMAIN m.fields \ PushConflicts(m.entity, m.base, DOMAIN m.fields))["location_id"]

(* The transaction is rolled back: the foreign key of location_id is an     *)
(* error pushClassifyEntityError does not know, an entity type without a     *)
(* handler is a structural one.                                              *)
EntityWriteFails(b) ==
    /\ ledger[b.m.id] = "none"
    /\ \/ b.type = "unknown"
       \/ /\ b.type = "item"
          /\ IF b.m.base = 0 THEN ~Exists(b.m.entity) ELSE Live(b.m.entity)
          /\ ~LocationRowExists(PushedLocation(b.m))

Advance(r) ==
    /\ pos' = [pos EXCEPT ![r] = @ + 1]
    /\ UNCHANGED <<queue, state, acked, crashes>>

Running(r) == state[r] = "running" /\ pos[r] <= Len(queue)

ApplyMutation(r) ==
    /\ Running(r)
    /\ LET b == queue[pos[r]]
       IN  /\ PushEntity(b)
           /\ applied' = [applied EXCEPT ![b.m.id] = @ + (IF rows' # rows THEN 1 ELSE 0)]
    /\ Advance(r)

(* Mutant: a skipped mutation is an error. *)
SkipMutation_Rejects(r) ==
    /\ Running(r)
    /\ ledger[queue[pos[r]].m.id] # "none"
    /\ state' = [state EXCEPT ![r] = "failed"]
    /\ UNCHANGED <<vars, queue, pos, acked, crashes, applied>>

SkipMutation(r) ==
    /\ Running(r)
    /\ ledger[queue[pos[r]].m.id] # "none"
    /\ Advance(r)
    /\ UNCHANGED <<vars, applied>>

(* Mutant: the batch goes on behind a mutation that failed. *)
FailBatch_Continues(r) ==
    /\ Running(r)
    /\ EntityWriteFails(queue[pos[r]])
    /\ Advance(r)
    /\ UNCHANGED <<vars, applied>>

(* Push returns the error at once; the transactions before it stay. *)
FailBatch(r) ==
    /\ Running(r)
    /\ EntityWriteFails(queue[pos[r]])
    /\ state' = [state EXCEPT ![r] = "failed"]
    /\ UNCHANGED <<vars, queue, pos, acked, crashes, applied>>

FinishBatch(r) ==
    /\ state[r] = "running"
    /\ pos[r] > Len(queue)
    /\ state' = [state EXCEPT ![r] = "done"]
    /\ UNCHANGED <<vars, queue, pos, acked, crashes, applied>>

(* Every request dies with the process; committed transactions do not. *)
Crash ==
    /\ crashes < MaxCrashes
    /\ \E r \in Request : state[r] = "running"
    /\ crashes' = crashes + 1
    /\ state' = [r \in Request |-> "free"]
    /\ UNCHANGED <<vars, queue, pos, acked, applied>>

----------------------------------------------------------------------------
(* The device. *)

(* A device refers only to rows it has pulled before. *)
Send(r) ==
    /\ ~acked
    /\ \A l \in RestLocation : Exists(l)
    /\ state[r] = "free"
    /\ state' = [state EXCEPT ![r] = "running"]
    /\ pos' = [pos EXCEPT ![r] = 1]
    /\ UNCHANGED <<vars, queue, acked, crashes, applied>>

ReceiveReply(r) ==
    /\ state[r] = "done"
    /\ acked' = TRUE
    /\ state' = [state EXCEPT ![r] = "free"]
    /\ UNCHANGED <<vars, queue, pos, crashes, applied>>

(* A lost reply, or an error the device answers with a later retry. *)
GiveUp(r) ==
    /\ state[r] \in {"done", "failed"}
    /\ state' = [state EXCEPT ![r] = "free"]
    /\ UNCHANGED <<vars, queue, pos, acked, crashes, applied>>

----------------------------------------------------------------------------
(* Other members. *)

Rest ==
    /\ \/ \E l \in RestLocation, v \in LocationRow : CreateLocation(l, v)
       \/ \E l \in RestLocation : DeleteLocation(l, FALSE, NoLocation)
       \/ \E i \in ItemId : DeleteItem(i)
    /\ UNCHANGED sessionVars

Handle(r) == ApplyMutation(r) \/ SkipMutation(r) \/ FailBatch(r) \/ FinishBatch(r)

SessionNext ==
    \/ Rest
    \/ Crash
    \/ \E r \in Request : Handle(r) \/ Send(r) \/ ReceiveReply(r) \/ GiveUp(r)

(* A handler that is not killed ends, a device keeps retrying until it has   *)
(* its reply, and not every reply is lost.                                   *)
SessionFairness ==
    \A r \in Request :
        /\ WF_allVars(Handle(r))
        /\ WF_allVars(Send(r))
        /\ WF_allVars(ReceiveReply(r) \/ GiveUp(r))
        /\ SF_allVars(ReceiveReply(r))

SessionSpec == SessionInit /\ [][SessionNext]_allVars /\ SessionFairness

----------------------------------------------------------------------------
(* Properties. *)

Settled(k) == ledger[queue[k].m.id] # "none"

(* To the device the retried, concurrent and interrupted transactions of its *)
(* batches are one pass over its queue: the ledger row is written in the      *)
(* mutation's own transaction, Push stops at the first error, and 200 is      *)
(* sent after the last mutation.                                              *)
Promise == INSTANCE Outbox WITH
    settled <- {k \in 1..Len(queue) : Settled(k)},
    effects <- [k \in 1..Len(queue) |-> applied[queue[k].m.id]]
OutboxKept == Promise!Spec

(* What the adjustments of an item that have a row add up to. *)
Deltas(table, i) ==
    MapThenSumSet(LAMBDA a : table[a].delta, {a \in AdjustmentId : table[a].item = i})

(* Of a queue that writes no quantity by itself, items start without stock   *)
(* and the quantity is the sum, as an int64 holds it, of the adjustments      *)
(* that have a row: none is applied twice, and none is lost.                  *)
QuantityIsSum ==
    (\A k \in 1..Len(queue) : queue[k].type = "item" => "quantity" \notin DOMAIN queue[k].m.fields)
        => \A i \in ItemId : Exists(i) =>
              (Deltas(adjustments, i) - rows[i].val["quantity"]) % (2 * QuantityLimit) = 0

(* A device that keeps retrying a queue of entity types the server knows    *)
(* gets it through: a mutation that loses a conflict must not abort the      *)
(* batch.                                                                    *)
BatchSettles ==
    (\E r \in Request : state[r] = "running" /\ \A k \in 1..Len(queue) : queue[k].type # "unknown")
        ~> (\A k \in 1..Len(queue) : Settled(k))

============================================================================
