------------------------- MODULE MC_StreamingQuery -------------------------
(* Instances of the streaming query for TLC: its sources and its windows.  *)
EXTENDS StreamingQueryRefinement, PowerLoss

(* A replayable source whose reads always end at the same places: one row  *)
(* per read, or files of one row after a first file of two.                *)
OneRowPerRead == [p \in 0..N |-> IF p < N THEN {p + 1} ELSE {}]
UnevenFiles   == [p \in 0..N |-> {IF p = 0 THEN 2 ELSE p + 1} \cap Rows]

(* A broker poll: one or two of the next rows, as many as are there.       *)
AnyPoll == [p \in 0..N |-> {e \in Rows : e > p /\ e <= p + 2}]

(* Output as a row arrives, or as part of a window that stays open for two *)
(* more rows.                                                              *)
AtOnce     == [r \in Rows |-> r]
OpenForTwo == [r \in Rows |-> r + 2]
=============================================================================
