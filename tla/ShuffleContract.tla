--------------------------- MODULE ShuffleContract ---------------------------
(***************************************************************************)
(* What a shuffle promises its caller (run_bucket_reduce and               *)
(* check_complete, dist/executors/ray_runtime/reduce.py): a bucket's       *)
(* result is accepted once, is made of every source, and is never replaced;*)
(* the stage returns only with a result for every bucket, and may instead  *)
(* raise.                                                                  *)
(***************************************************************************)
CONSTANTS BucketSet, Missing

VARIABLES whole,   \* the rows a complete bucket is made of
          result,  \* bucket -> the rows accepted for it, Missing before
          status   \* "running", "returned" or "raised"

cvars == <<whole, result, status>>

CInit == result = [b \in BucketSet |-> Missing] /\ status = "running"

Accept(bs) ==
    /\ status = "running" /\ bs # {} /\ \A b \in bs : result[b] = Missing
    /\ result' = [b \in BucketSet |-> IF b \in bs THEN whole ELSE result[b]]
    /\ UNCHANGED <<whole, status>>

Return ==
    /\ status = "running" /\ \A b \in BucketSet : result[b] # Missing
    /\ status' = "returned"
    /\ UNCHANGED <<whole, result>>

GiveUp == status = "running" /\ status' = "raised" /\ UNCHANGED <<whole, result>>

CNext == Return \/ GiveUp \/ \E bs \in SUBSET BucketSet : Accept(bs)

CSpec == CInit /\ [][CNext]_cvars

=============================================================================
