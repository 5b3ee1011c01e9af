--------------------------- MODULE OptimizedKernel ---------------------------
(***************************************************************************)
(* One launch of dequant_gemm_optimized_kernel: a grid of blocks, a warp   *)
(* per row of W, threads interleaved in any order.  A block is <<m, bx>>   *)
(* (blockIdx.y, blockIdx.x), t is threadIdx.x.  One action per iteration   *)
(* of a loop of a thread, per shuffle of a warp, per barrier crossing.     *)
(*                                                                         *)
(* A definition named Bug... is what the definition after it would be with *)
(* a plausible mistake; PROJECT.json says which property notices it.       *)
(***************************************************************************)
EXTENDS Layout

CONSTANTS
    WarpSize,       \* kWarpSize
    WarpsPerBlock,  \* kWarpsPerBlock
    SharedLimit,    \* floats of dynamic shared memory a launch may ask for
    GridLimitY      \* blocks a grid may have in y

ASSUME GridAssumption ==
    /\ WarpSize \in Positive /\ WarpsPerBlock \in Positive
    /\ SharedLimit \in Nat /\ GridLimitY \in Nat

\* A warp is halved down to one lane: its size (32) is a power of two.
Halvings(sizes) ==
    /\ WarpSize \in sizes
    /\ \A p \in sizes : p = 1 \/ (p % 2 = 0 /\ p \div 2 \in sizes)

ASSUME WarpAssumption == \E sizes \in SUBSET (1 .. WarpSize) : Halvings(sizes)

VARIABLES
    shape,     \* M, N, K, group_size of this launch
    status,    \* "ready", "running", "failed" (not started), "trapped"
    x_shared,  \* per block: offset in x of the element staged at each k
    pc,        \* per thread: "stage", "multiply", "returned"
    at,        \* per thread: its loop counter, k or chunk
    partial,   \* per thread: the products it has summed
    offset,    \* per warp: offset of the next shuffle
    out        \* the output tensor

vars == <<shape, status, x_shared, pc, at, partial, offset, out>>

(* A launch asks for K floats of shared memory and M blocks in y, where a  *)
(* grid is narrow (65535).                                                 *)
Launchable == {s \in Shapes : s.K <= SharedLimit /\ s.M <= GridLimitY}

-----------------------------------------------------------------------------
BlockDim == WarpsPerBlock * WarpSize
Tids == 0 .. BlockDim - 1
Warps == 0 .. WarpsPerBlock - 1

\* grid((N + kWarpsPerBlock - 1) / kWarpsPerBlock, M)
Blocks ==
    (0 .. shape.M - 1) \X
    (0 .. (shape.N + WarpsPerBlock - 1) \div WarpsPerBlock - 1)

warp_id(t) == t \div WarpSize
lane(t) == t % WarpSize
Lanes(w) == {t \in Tids : warp_id(t) = w}

\* The row n of W that warp w of block b works on.
Row(b, w) == b[2] * WarpsPerBlock + w

half_k_vec4 == HalfK(shape) \div 4

\* Mistake: the reduction begins at half the offset it should.
BugQuarterWarp == WarpSize \div 4

FirstOffset == WarpSize \div 2

-----------------------------------------------------------------------------
Init ==
    /\ shape \in Shapes
    /\ status = "ready"
    /\ x_shared = [b \in Blocks |-> [k \in 0 .. shape.K - 1 |-> NoValue]]
    /\ pc = [b \in Blocks |-> [t \in Tids |-> "stage"]]
    /\ at = [b \in Blocks |-> [t \in Tids |-> t]]
    /\ partial = [b \in Blocks |-> [t \in Tids |-> EmptyBag]]
    /\ offset = [b \in Blocks |-> [w \in Warps |-> FirstOffset]]
    /\ out = [c \in Cells(shape) |-> NoValue]

\* A launch that asks for too much does not start; nobody looks at the error.
Launch ==
    /\ status = "ready"
    /\ status' = IF shape \in Launchable THEN "running" ELSE "failed"
    /\ UNCHANGED <<shape, x_shared, pc, at, partial, offset, out>>

\* Every block stages a row of its own: its threads step by blockDim.x.
Stride == BlockDim

\* One element of x[m, :] into shared memory, whatever row the warp has.
Stage(b, t) ==
    /\ pc[b][t] = "stage"
    /\ at[b][t] < shape.K
    /\ x_shared' = [x_shared EXCEPT
                      ![b][at[b][t]] = b[1] * shape.K + at[b][t]]
    /\ at' = [at EXCEPT ![b][t] = @ + Stride]
    /\ UNCHANGED <<shape, status, pc, partial, offset, out>>

\* Mistake: a thread waits only for itself.
BugNoBarrier(b, t) == at[b][t] >= shape.K

\* __syncthreads(): all threads of the block have left the staging loop.
AllStaged(b, t) ==
    \A u \in Tids : pc[b][u] = "stage" => at[b][u] >= shape.K

\* Mistake: a warp without a row of its own goes on.
BugNoEarlyReturn(b, w) == TRUE

\* Mistake: a block that reaches beyond the last row does nothing.
BugFullBlocksOnly(b, w) == Row(b, WarpsPerBlock - 1) < shape.N

HasRow(b, w) == Row(b, w) < shape.N

PassBarrier(b, t) ==
    /\ pc[b][t] = "stage"
    /\ AllStaged(b, t)
    /\ pc' = [pc EXCEPT ![b][t] =
                IF HasRow(b, warp_id(t)) THEN "multiply" ELSE "returned"]
    /\ at' = [at EXCEPT ![b][t] = lane(t)]
    /\ UNCHANGED <<shape, status, x_shared, partial, offset, out>>

\* Offset in packed of the word that is chunk number chunk of row n.
WordOffset(n, chunk) == n * HalfK(shape) + 4 * chunk

\* Mistake: the scales are indexed as if every row had its own first group.
BugScaleOfRowZero(n, k) == k \div shape.group_size

ScaleOffset(n, k) == n * Groups(shape) + k \div shape.group_size

\* The eight products of a word: byte i (0..3), low and high nibble.
WordProducts(b, n, chunk) ==
    {LET k == chunk * 8 + 2 * i + nibble
     IN  Product(x_shared[b][k], WordOffset(n, chunk) + i, nibble,
                 ScaleOffset(n, k)) :
       i \in 0 .. 3, nibble \in 0 .. 1}

(* One chunk of a lane's share of its row.  A word whose offset is no      *)
(* multiple of four cannot be loaded: the whole launch traps.              *)
Multiply(b, t) ==
    LET n == Row(b, warp_id(t))
        aligned == WordOffset(n, at[b][t]) % 4 = 0
    IN  /\ pc[b][t] = "multiply"
        /\ at[b][t] < half_k_vec4
        /\ partial' = IF aligned
                      THEN [partial EXCEPT ![b][t] =
                              @ (+) SetToBag(WordProducts(b, n, at[b][t]))]
                      ELSE partial
        /\ status' = IF aligned THEN status ELSE "trapped"
        /\ at' = [at EXCEPT ![b][t] = @ + WarpSize]
        /\ UNCHANGED <<shape, x_shared, pc, offset, out>>

\* All lanes of the warp have left the multiply loop.
Converged(b, w) ==
    \A t \in Lanes(w) : pc[b][t] = "multiply" /\ at[b][t] >= half_k_vec4

\* The lane __shfl_down_sync reads from: its own when there is none so far up.
ShuffleSource(t, delta) ==
    IF lane(t) + delta < WarpSize THEN t + delta ELSE t

ShuffleDown(b, w) ==
    /\ Converged(b, w)
    /\ offset[b][w] > 0
    /\ partial' = [partial EXCEPT ![b] = [t \in Tids |->
         IF t \in Lanes(w)
         THEN @[t] (+) @[ShuffleSource(t, offset[b][w])]
         ELSE @[t]]]
    /\ offset' = [offset EXCEPT ![b][w] = @ \div 2]
    /\ UNCHANGED <<shape, status, x_shared, pc, at, out>>

\* Lane 0 stores the sum; the warp is done.
StoreRow(b, w) ==
    /\ Converged(b, w)
    /\ offset[b][w] = 0
    /\ out' = [out EXCEPT ![<<b[1], Row(b, w)>>] = partial[b][w * WarpSize]]
    /\ pc' = [pc EXCEPT ![b] = [t \in Tids |->
                IF t \in Lanes(w) THEN "returned" ELSE @[t]]]
    /\ UNCHANGED <<shape, status, x_shared, at, partial, offset>>

Thread(b, t) == Stage(b, t) \/ PassBarrier(b, t) \/ Multiply(b, t)
Warp(b, w) == ShuffleDown(b, w) \/ StoreRow(b, w)

AllReturned == \A b \in Blocks, t \in Tids : pc[b][t] = "returned"

Finished ==
    /\ AllReturned \/ status \in {"failed", "trapped"}
    /\ UNCHANGED vars

Run ==
    /\ status = "running"
    /\ \/ \E b \in Blocks, t \in Tids : Thread(b, t)
       \/ \E b \in Blocks, w \in Warps : Warp(b, w)

Next == Launch \/ Run \/ Finished

(* Blocks and warps are independent of each other but for the barrier, and *)
(* the device does not stop while a thread can take a step.                *)
Spec == Init /\ [][Next]_vars /\ WF_vars(Next)

-----------------------------------------------------------------------------
(* Types.  What could fail: every operand a thread multiplies lies in its  *)
(* tensor, for every accepted shape, also in the last block of a row count *)
(* that the warps do not divide (the early return).                        *)
TypeOK ==
    /\ shape \in Shapes
    /\ status \in {"ready", "running", "failed", "trapped"}
    /\ x_shared \in [Blocks -> [0 .. shape.K - 1 ->
                                  (0 .. shape.M * shape.K - 1) \cup {NoValue}]]
    /\ pc \in [Blocks -> [Tids -> {"stage", "multiply", "returned"}]]
    /\ at \in [Blocks -> [Tids -> Nat]]
    /\ \A b \in Blocks, t \in Tids :
         /\ IsABag(partial[b][t])
         /\ BagToSet(partial[b][t]) \subseteq ProductType(shape)
    /\ offset \in [Blocks -> [Warps -> Nat]]
    /\ DOMAIN out = Cells(shape)

(* The barrier does what the comment above it needs: once a thread has     *)
(* passed it, the whole row of x is in shared memory, also the elements    *)
(* that threads of warps without a row had to load.                        *)
StagedBeforeRead ==
    \A b \in Blocks, t \in Tids :
      pc[b][t] # "stage" =>
        x_shared[b] = [k \in 0 .. shape.K - 1 |-> b[1] * shape.K + k]

(* Why: an element not yet in shared memory is still ahead of a thread in  *)
(* the staging loop, at a whole number of strides.                         *)
NothingSkipped ==
    \A b \in Blocks, k \in 0 .. shape.K - 1 :
      \/ x_shared[b][k] = b[1] * shape.K + k
      \/ \E t \in Tids, j \in 0 .. shape.K :
           pc[b][t] = "stage" /\ k = at[b][t] + j * BlockDim

(* What a cell holds, for every accepted shape, once it is stored: the     *)
(* reference's products of the columns that fill whole words of eight, no  *)
(* product twice, none of another row.                                     *)
StoredIsVectorPart ==
    \A m \in 0 .. shape.M - 1, n \in 0 .. shape.N - 1 :
      out[<<m, n>>] # NoValue =>
        out[<<m, n>>] = PartialReference(shape, m, n, 8 * (shape.K \div 8))

(* Which launches leave cells uninitialised: those that ask for too much   *)
(* shared memory or too tall a grid and those with a row that begins off a *)
(* word boundary; all others fill the output to the last row, also in a    *)
(* block that reaches beyond it.                                           *)
CompleteUnlessRefused ==
    AllReturned \/ status \in {"failed", "trapped"} =>
      ((\A c \in Cells(shape) : out[c] # NoValue) <=>
         /\ shape.K <= SharedLimit /\ shape.M <= GridLimitY
         /\ \A n \in 0 .. shape.N - 1, chunk \in 0 .. half_k_vec4 - 1 :
              WordOffset(n, chunk) % 4 = 0)

(* The kernel implements Gemm: an accepted launch stores every cell, once, *)
(* with exactly the reference's products; a refused one stores nothing.    *)
Ref == INSTANCE Gemm
ImplementsGemm == Ref!Spec

(* "Same interface contract as the naive kernel" (comment of               *)
(* launch_dequant_gemm_optimized): on a shape check_inputs accepts, a      *)
(* launch that ran to its end has computed the reference.                  *)
SameContractAsNaive ==
    AllReturned =>
      \A m \in 0 .. shape.M - 1, n \in 0 .. shape.N - 1 :
        out[<<m, n>>] = Reference(shape, m, n)
=============================================================================
