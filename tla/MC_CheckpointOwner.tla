------------------------- MODULE MC_CheckpointOwner -------------------------
(* Drivers on a source that is read one row at a time.                     *)
EXTENDS CheckpointOwner

OneRowPerRead == [p \in 0..N |-> IF p < N THEN {p + 1} ELSE {}]
=============================================================================
