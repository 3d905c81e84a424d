------------------------------- MODULE Outbox -------------------------------
(***************************************************************************)
(* What POST /sync/push promises a device about its queue of offline       *)
(* mutations: they are decided one after another, front to back, each one   *)
(* once, with at most one write of rows, and the device drops the queue only *)
(* when all of it is decided.                                               *)
(***************************************************************************)
EXTENDS Naturals, Sequences

CONSTANT Queues   \* the queues a device may hold

VARIABLES
    queue,     \* the device's queue
    settled,   \* the positions that are decided
    effects,   \* position -> how often its rows were written
    acked      \* the device has dropped the queue

vars == <<queue, settled, effects, acked>>

Init ==
    /\ queue \in Queues
    /\ settled = {}
    /\ effects = [k \in 1..Len(queue) |-> 0]
    /\ acked = FALSE

(* The next mutation is decided: applied or, in a conflict, not. *)
Settle(k) ==
    /\ k \notin settled
    /\ \A j \in 1 .. k - 1 : j \in settled
    /\ settled' = settled \cup {k}
    /\ effects' \in {effects, [effects EXCEPT ![k] = 1]}
    /\ UNCHANGED <<queue, acked>>

Acknowledge ==
    /\ \A k \in 1..Len(queue) : k \in settled
    /\ acked' = TRUE
    /\ UNCHANGED <<queue, settled, effects>>

Next == (\E k \in 1..Len(queue) : Settle(k)) \/ Acknowledge

Spec == Init /\ [][Next]_vars

=============================================================================
