----------------------------- MODULE ChangeFeed -----------------------------
(***************************************************************************)
(* What POST /sync/pull promises a device: its replica moves from one      *)
(* watermark to a later one, and every transaction up to the new watermark  *)
(* arrives whole.  One group, one device.  A row is identified by the       *)
(* change_seq of its last write; a tombstone is a row like any other.       *)
(***************************************************************************)
EXTENDS Integers

CONSTANT Entity   \* rows of the group's synchronised tables

VARIABLES
    counter,     \* groups.change_seq_counter
    rows,        \* entity -> change_seq of its row, 0 when there is none
    watermark,   \* the device's `since`
    replica      \* the device's copy of rows

vars == <<counter, rows, watermark, replica>>

Init ==
    /\ counter = 0
    /\ rows = [e \in Entity |-> 0]
    /\ watermark = 0
    /\ replica = [e \in Entity |-> 0]

(* One transaction: all the rows it writes carry the change_seq it allocated. *)
Write(S) ==
    /\ counter' = counter + 1
    /\ rows' = [e \in Entity |-> IF e \in S THEN counter + 1 ELSE rows[e]]
    /\ UNCHANGED <<watermark, replica>>

(* The device receives every change after its watermark up to w. *)
Deliver(w) ==
    /\ watermark' = w
    /\ replica' = [e \in Entity |->
         IF rows[e] \in watermark + 1 .. w THEN rows[e] ELSE replica[e]]
    /\ UNCHANGED <<counter, rows>>

Next ==
    \/ \E S \in SUBSET Entity : Write(S)
    \/ \E w \in watermark + 1 .. counter : Deliver(w)

Spec == Init /\ [][Next]_vars

(* A device at watermark w holds every row whose last change is at or       *)
(* before w: nothing is skipped for good.                                    *)
NoSkip == \A e \in Entity : rows[e] <= watermark => replica[e] = rows[e]

=============================================================================
