---------------------------- MODULE MCNaiveKernel ----------------------------
(***************************************************************************)
(* Small launches of NaiveKernel: blocks of 2 x 2 threads, outputs they    *)
(* cover exactly, exceed by a row, exceed by a column; the tallest grid    *)
(* that is started, by its last row, and the lowest that is refused.       *)
(***************************************************************************)
EXTENDS NaiveKernel

S(m, n, kk, g) == [M |-> m, N |-> n, K |-> kk, group_size |-> g]

MCShapes == {S(1, 3, 4, 2), S(3, 1, 2, 1), S(2, 2, 2, 2), S(1, 1, 12, 4), S(5, 1, 2, 1)}
=============================================================================
