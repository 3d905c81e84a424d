---------------------------- MODULE MCPullReader ----------------------------
(* Limit + 2 rows of one table, so that the per-table LIMIT truncates a        *)
(* transaction, and one row of another.                                       *)
EXTENDS PullReader

CONSTANTS a1, a2, a3, a4, b1,
          MaxRacedSeq   \* bound on the transactions once one has committed during a pull

MCEntity == {a1, a2, a3, a4, b1}
MCTableOf == [e \in MCEntity |-> IF e = b1 THEN 2 ELSE 1]

MCNext == PullNext /\ (raced' => counter' <= MaxRacedSeq)
MCSpec == PullInit /\ [][MCNext]_allVars /\ Fairness

=============================================================================
