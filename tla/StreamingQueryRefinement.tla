---------------------- MODULE StreamingQueryRefinement ----------------------
(* The streaming query, read through its sink, implements exactly-once     *)
(* output: the rows of every batch id the sink holds, added up.            *)
EXTENDS StreamingQuery

(* The times the sink holds row r, told apart by batch id.                 *)
Occurrences(r) == UNION {{i} \X (1..sink[i][r]) : i \in DOMAIN sink}

Visible == [r \in Rows |-> Cardinality(Occurrences(r))]

Output == INSTANCE ExactlyOnceOutput WITH out <- Visible

(* An append query implements ExactlyOnceOutput through crashes, faults,   *)
(* stops and restarts: no step of the engine retracts a row, repeats one,  *)
(* or delivers one ahead of its predecessor.                               *)
ExactlyOnce == Output!Spec
=============================================================================
