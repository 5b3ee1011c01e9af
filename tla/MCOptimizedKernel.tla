-------------------------- MODULE MCOptimizedKernel --------------------------
(***************************************************************************)
(* Small launches of OptimizedKernel.  The shapes are scaled down with the *)
(* warps: what matters is how K compares with a word of eight columns, a   *)
(* chunk per lane and the shared memory, N with the warps of a block, and  *)
(* a group with a word.                                                    *)
(***************************************************************************)
EXTENDS OptimizedKernel

S(m, n, k, g) == [M |-> m, N |-> n, K |-> k, group_size |-> g]

\* Columns fill whole words, as Phi-3's do; once one too many for the shared
\* memory, once a row too many for the grid.
MCWholeWords ==
    {S(1, 1, 40, 8), S(2, 1, 8, 4), S(1, 2, 8, 8), S(1, 1, 16, 2),
     S(1, 1, 48, 8), S(3, 1, 8, 8)}

\* Every kind check_inputs accepts: no whole word at all, columns left over
\* after the last word, rows that start at no word boundary, too many columns,
\* too many rows.
MCAccepted ==
    {S(1, 1, 6, 6), S(1, 1, 12, 4), S(1, 2, 10, 2), S(2, 1, 8, 4), S(1, 3, 8, 2),
     S(1, 2, 16, 8), S(1, 1, 24, 8), S(3, 1, 8, 8)}
=============================================================================
