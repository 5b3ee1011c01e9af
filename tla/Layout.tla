------------------------------- MODULE Layout -------------------------------
(***************************************************************************)
(* Shapes and storage of one quantized linear layer, out = x * W^T with W  *)
(* of N rows and K columns in groups of group_size columns, as             *)
(* python/reference/quant.py lays it out and every kernel reads it.        *)
(*                                                                         *)
(* Floating point is below this level: a product is identified by the      *)
(* operands it multiplies, each by its offset in its row-major tensor, and *)
(* a sum of products is the bag of them.  Two sums of the same bag differ  *)
(* in the order of additions only.                                         *)
(***************************************************************************)
EXTENDS Integers, Bags

CONSTANTS
    Shapes,   \* the shapes a launch is made with
    NoValue   \* what uninitialised memory holds

Positive == Nat \ {0}

\* What check_inputs asks of a shape.
Accepted(s) == s.K % 2 = 0 /\ s.K % s.group_size = 0

ASSUME ShapesAssumption ==
    \A s \in Shapes :
      /\ s \in [M : Positive, N : Positive, K : Positive, group_size : Positive]
      /\ Accepted(s)

HalfK(s) == s.K \div 2
Groups(s) == s.K \div s.group_size

\* The output of torch::empty({M, N}): one cell per row of x and row of W.
Cells(s) == (0 .. s.M - 1) \X (0 .. s.N - 1)

\* x element times INT4 weight (low nibble 0, high nibble 1) times scale.
Product(x, byte, nibble, scale) ==
    [x |-> x, byte |-> byte, nibble |-> nibble, scale |-> scale]

\* W[n, k] is nibble k % 2 of byte k / 2 of row n; its group is k / group_size.
ReferenceProduct(s, m, n, k) ==
    Product(m * s.K + k, n * HalfK(s) + k \div 2, k % 2,
            n * Groups(s) + k \div s.group_size)

\* The first k products of quantized_linear_reference's cell <<m, n>>.
PartialReference(s, m, n, k) ==
    SetToBag({ReferenceProduct(s, m, n, i) : i \in 0 .. k - 1})

(* Uninitialised memory is told apart from every sum.                       *)
ASSUME NoValueAssumption ==
    \A s \in Shapes : \A m \in 0 .. s.M - 1, n \in 0 .. s.N - 1, k \in 0 .. s.K :
      PartialReference(s, m, n, k) # NoValue

Reference(s, m, n) == PartialReference(s, m, n, s.K)

\* Products of operands that lie in the tensors of this shape.
ProductType(s) ==
    [x : 0 .. s.M * s.K - 1, byte : 0 .. s.N * HalfK(s) - 1, nibble : {0, 1},
     scale : 0 .. s.N * Groups(s) - 1]
=============================================================================
