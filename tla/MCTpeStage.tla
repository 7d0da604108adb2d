----------------------------- MODULE MCTpeStage -----------------------------
(* Small instances of TpeStage for TLC. *)
EXTENDS TpeStage

CONSTANTS v1, v2, v3

(* v1 and v2 are within the coarse tolerance of each other. *)
MCVectors == {v1, v2, v3}
MCCell == [v \in MCVectors |-> IF v = v3 THEN 2 ELSE 1]
MCVectors2 == {v1, v3}
MCCell2 == [v \in MCVectors2 |-> IF v = v3 THEN 2 ELSE 1]
MCCandidateFiles == {<<>>, <<v1, v3>>}
=============================================================================
