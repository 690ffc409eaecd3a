------------------------- MODULE ExactlyOnceOutput -------------------------
(***************************************************************************)
(* What a checkpointed append query promises whoever reads its sink, with  *)
(* no batch ids, logs or state in sight: the output starts empty and only  *)
(* ever grows by the next rows of the stream, each of them once.           *)
(***************************************************************************)
EXTENDS Naturals

CONSTANT N                 \* rows of the stream

VARIABLE out               \* row -> how many times the sink holds it

Prefix(k) == [r \in 1..N |-> IF r <= k THEN 1 ELSE 0]

Init == out = Prefix(0)

(* The next j - i rows appear, all at once.                                *)
Deliver ==
    \E i, j \in 0..N :
        /\ i < j
        /\ out = Prefix(i)
        /\ out' = Prefix(j)

Spec == Init /\ [][Deliver]_out
=============================================================================
