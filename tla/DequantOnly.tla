----------------------------- MODULE DequantOnly -----------------------------
(***************************************************************************)
(* One launch of dequant_only_kernel: a thread per element of W, which it  *)
(* finds by a flat index.  The launcher and the guard multiply N * K as    *)
(* int; the products the build computes wrap around, so widths matter:     *)
(* an int has Width bits here.  A stored element is named by the operands  *)
(* that were multiplied for it.                                            *)
(***************************************************************************)
EXTENDS Layout

CONSTANTS
    Width,     \* bits of an int
    Block,     \* threads per block
    Matrices   \* the matrices a launch is made with

ASSUME WidthAssumption == Width \in Positive /\ Block \in Positive

ASSUME MatricesAssumption ==
    \A s \in Matrices :
      /\ s \in [N : Positive, K : Positive, group_size : Positive]
      /\ Accepted(s)

\* Uninitialised memory is told apart from every stored element.
ASSUME ElementAssumption == NoValue \notin [byte : Nat, nibble : {0, 1}, scale : Nat]

VARIABLES
    matrix,    \* N, K, group_size of this launch
    launch,    \* "ready", "running", "failed" (not started)
    todo,      \* idx of the threads that have not run yet
    w_out      \* the matrix, element by element

dequant_vars == <<matrix, launch, todo, w_out>>

IntLimit == 2 ^ (Width - 1)

\* An int after a computation that may have overflowed.
Wrap(x) == ((x + IntLimit) % (2 * IntLimit)) - IntLimit

\* C's division rounds towards zero.
Quotient(x, d) == IF x < 0 THEN - ((-x) \div d) ELSE x \div d

total == Wrap(matrix.N * matrix.K)

\* Mistake: the last, partial block is not launch.
BugWholeBlocks == Quotient(total, Block)

grid == Quotient(Wrap(total + Block - 1), Block)

DequantInit ==
    /\ matrix \in Matrices
    /\ launch = "ready"
    /\ todo = {}
    /\ w_out = [i \in 0 .. matrix.N * matrix.K - 1 |-> NoValue]

\* A grid of no or of a negative number of blocks fails; nobody looks.
DequantLaunch ==
    /\ launch = "ready"
    /\ launch' = IF grid > 0 THEN "running" ELSE "failed"
    /\ todo' = 0 .. grid * Block - 1
    /\ UNCHANGED <<matrix, w_out>>

HasElement(idx) == idx < total

\* What a thread multiplies: a nibble of a byte and a scale.
Operands(n, k) ==
    [byte |-> n * HalfK(matrix) + k \div 2, nibble |-> k % 2,
     scale |-> n * Groups(matrix) + k \div matrix.group_size]

OperandsAt(idx) == Operands(idx \div matrix.K, idx % matrix.K)

DequantThread(idx) ==
    /\ launch = "running"
    /\ idx \in todo
    /\ todo' = todo \ {idx}
    /\ w_out' = IF HasElement(idx)
                THEN [i \in DOMAIN w_out \cup {idx} |->
                        IF i = idx THEN OperandsAt(idx) ELSE w_out[i]]
                ELSE w_out
    /\ UNCHANGED <<matrix, launch>>

Ended == launch = "failed" \/ (launch = "running" /\ todo = {})

DequantFinished == Ended /\ UNCHANGED dequant_vars

DequantNext == DequantLaunch \/ (\E idx \in todo : DequantThread(idx)) \/ DequantFinished

DequantSpec == DequantInit /\ [][DequantNext]_dequant_vars

-----------------------------------------------------------------------------
(* No thread stores outside the matrix, whatever the guard's product has   *)
(* become: when it wraps it is below the matrix's size or negative.        *)
DequantTypeOK ==
    /\ matrix \in Matrices
    /\ launch \in {"ready", "running", "failed"}
    /\ todo \subseteq Nat
    /\ DOMAIN w_out = 0 .. matrix.N * matrix.K - 1

(* Row n, column k of W is stored, from the nibble, the byte and the scale *)
(* that quant.py put there.                                                *)
IsReference(n, k) ==
    LET ref == ReferenceProduct(matrix, 0, n, k)
        got == w_out[n * matrix.K + k]
    IN  /\ got # NoValue
        /\ got.byte = ref.byte /\ got.nibble = ref.nibble
        /\ got.scale = ref.scale

(* The whole matrix is the reference's at the end exactly when its size,   *)
(* rounded up to blocks, is an int.  Any larger one is left unwritten or is written   *)
(* in part, and the launcher says nothing (256 elements below 2^31 in the  *)
(* code).                                                                  *)
WholeIfItFits ==
    Ended =>
      ((\A n \in 0 .. matrix.N - 1, k \in 0 .. matrix.K - 1 : IsReference(n, k)) <=>
         matrix.N * matrix.K + Block - 1 < IntLimit)
=============================================================================
