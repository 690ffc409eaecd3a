--------------------------- MODULE MC_FileIngest ---------------------------
(* Files that arrive in the order of their names, and files that do not:   *)
(* the second, the fourth, the first, the third.                           *)
EXTENDS FileIngest

SortedAndNot == {<<1, 2, 3, 4>>, <<3, 1, 4, 2>>}
=============================================================================
