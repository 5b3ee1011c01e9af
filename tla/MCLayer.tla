------------------------------- MODULE MCLayer -------------------------------
(***************************************************************************)
(* What happens to the weights of one layer: a row of them is quantized    *)
(* and packed on the host (Int4), the matrix is dequantized as a whole     *)
(* (DequantOnly) or multiplied (OptimizedKernel).  Data is named by where  *)
(* it lies, so nothing of one machine's state reaches another: a behaviour *)
(* is one of the three, and the other two rest in an initial state.        *)
(***************************************************************************)
EXTENDS OptimizedKernel, DequantOnly, Int4

CONSTANT MaxWeight

VARIABLE machine

Shape(m, n, k, g) == [M |-> m, N |-> n, K |-> k, group_size |-> g]
Matrix(n, k, g) == [N |-> n, K |-> k, group_size |-> g]

MCvars == <<machine, vars, dequant_vars, quant_vars>>

MCInit ==
    /\ machine \in {"quantize", "dequantize", "multiply"}
    /\ Init /\ (machine # "multiply" => shape = Shape(1, 1, 6, 6))
    /\ DequantInit /\ (machine # "dequantize" => matrix = Matrix(2, 4, 2))
    /\ QuantInit /\ (machine # "quantize" => w = [k \in Columns |-> 0])

MCNext ==
    \/ machine = "multiply" /\ Next /\ UNCHANGED <<machine, dequant_vars, quant_vars>>
    \/ machine = "dequantize" /\ DequantNext /\ UNCHANGED <<machine, vars, quant_vars>>
    \/ machine = "quantize" /\ QuantNext /\ UNCHANGED <<machine, vars, dequant_vars>>

MCSpec == MCInit /\ [][MCNext]_MCvars

(* Types of the three machines; with them that no thread of either kernel  *)
(* leaves its tensors, and that codes stay in -7 .. 7.                     *)
LayerTypesOK == TypeOK /\ DequantTypeOK /\ QuantTypeOK

-----------------------------------------------------------------------------
(* Shapes, scaled down with the warps: what matters is how K compares with *)
(* a word of eight columns, a chunk per lane and the shared memory, N with *)
(* the warps of a block, and a group with a word.  Every kind check_inputs *)
(* accepts: no whole word at all, columns left over after the last word,   *)
(* rows that start at no word boundary, too many columns, too many rows.   *)
MCAccepted ==
    {Shape(1, 1, 6, 6), Shape(1, 1, 12, 4), Shape(1, 2, 10, 2), Shape(2, 1, 8, 4), Shape(1, 3, 8, 2),
     Shape(1, 2, 16, 8), Shape(1, 1, 24, 8), Shape(3, 1, 8, 8)}

(* With ints of five bits and blocks of four: matrices that fill their     *)
(* blocks, leave threads over, are the largest that fit (12), overflow     *)
(* when they are rounded up to blocks (14), overflow as a product to a     *)
(* negative (24) and to a small positive number (36, 40).                  *)
MCMatrices ==
    {Matrix(2, 4, 2), Matrix(3, 2, 1), Matrix(3, 4, 4), Matrix(1, 10, 2),
     Matrix(7, 2, 2), Matrix(6, 4, 2), Matrix(6, 6, 3), Matrix(10, 4, 2)}

(* Rows of a word, in two groups of four: every pair of weights up to      *)
(* MaxWeight in a group, beside another group; and every row of a few      *)
(* weights.                                                                *)
MCWeights == -MaxWeight .. MaxWeight
MCUnits == {1, 2, 4, 8, 16}

PairRow(a, b) ==
    [k \in Columns |-> CASE k = 0 -> a [] k = 1 -> b [] k = 5 -> -4 [] k = 7 -> 2
                         [] OTHER -> 0]

MCRows ==
    {PairRow(a, b) : a, b \in MCWeights} \cup [Columns -> {-4, 0, 3}]
=============================================================================
