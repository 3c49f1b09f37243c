--------------------------- MODULE MCBatchManager ---------------------------
(* A batch of two targets that may be executed twice. *)
EXTENDS BatchManager

CONSTANTS b1, r1, r2

Two == [x \in Batch |-> 2]
=============================================================================
