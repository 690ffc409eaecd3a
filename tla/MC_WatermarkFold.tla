-------------------------- MODULE MC_WatermarkFold --------------------------
(* Two partitions, at most one row of each in a read, the first partition  *)
(* ahead of the second when both speak.                                    *)
EXTENDS WatermarkFold

Row(p, t) == [p |-> p, t |-> t]

Hours == {4, 5, 6, 8}

Reads ==
    {{Row(p, t)} : <<p, t>> \in Partitions \X Hours}
        \cup {{Row("a", t), Row("b", u)} : <<t, u>> \in {x \in Hours \X Hours : x[1] >= x[2]}}
=============================================================================
