---------------------------- MODULE Layer_proofs ----------------------------
(***************************************************************************)
(* Proofs about what happens to one layer's weights (MCLayer): multiplied  *)
(* by the optimized kernel, for every warp size, block size, shape and     *)
(* order of threads; dequantized as a whole, for every width of an int,    *)
(* block size and matrix; quantized and packed, for every row, group size  *)
(* and format of the scale.                                                *)
(***************************************************************************)
EXTENDS MCLayer, FiniteSetTheorems, TLAPS

-----------------------------------------------------------------------------
(* The optimized kernel: a row of x is staged whole before it is read.     *)

StageTypes ==
    /\ shape \in Shapes
    /\ pc \in [Blocks -> [Tids -> {"stage", "multiply", "returned"}]]
    /\ at \in [Blocks -> [Tids -> Nat]]
    /\ x_shared \in [Blocks -> [0 .. shape.K - 1 -> Int \cup {NoValue}]]

(* The inductive invariant.  StagedBeforeRead alone is not inductive: that *)
(* the barrier opens on a full row is because no element was skipped.      *)
StageInv == StageTypes /\ NothingSkipped /\ StagedBeforeRead

-----------------------------------------------------------------------------
LEMMA BlockDimPositive == BlockDim \in Nat \ {0}
  BY GridAssumption DEF BlockDim, Positive

LEMMA ShapeFacts ==
    ASSUME NEW s \in Shapes
    PROVE  s.K \in Nat \ {0} /\ s.M \in Nat \ {0} /\ s.N \in Nat \ {0}
  BY ShapesAssumption DEF Positive

\* Division with remainder: element k is ahead of thread k % d.
LEMMA StridesFromStart ==
    ASSUME NEW k \in Nat, NEW d \in Nat \ {0}
    PROVE  \E t \in 0 .. d - 1, j \in 0 .. k : k = t + j * d
<1>1. k % d \in 0 .. d - 1 /\ k \div d \in Nat /\ k = (k \div d) * d + (k % d)
  OBVIOUS
<1>2. k % d \in 0 .. d - 1 /\ k \div d \in 0 .. k /\ k = (k % d) + (k \div d) * d
  BY <1>1
<1> QED BY <1>2, Zenon

LEMMA StageInit == Init => StageInv
<1> SUFFICES ASSUME Init PROVE StageInv
  OBVIOUS
<1> USE DEF Init
<1>1. shape.K \in Nat \ {0} /\ shape.M \in Nat \ {0}
  BY ShapeFacts
<1>2. StageTypes
  BY <1>1 DEF StageTypes, Tids
<1>3. NothingSkipped
  <2> SUFFICES ASSUME NEW b \in Blocks, NEW k \in 0 .. shape.K - 1
               PROVE  \E t \in Tids, j \in 0 .. shape.K :
                        pc[b][t] = "stage" /\ k = at[b][t] + j * BlockDim
    BY DEF NothingSkipped
  <2> k \in Nat
    BY <1>1
  <2>1. PICK t \in 0 .. BlockDim - 1, j \in 0 .. k : k = t + j * BlockDim
    BY BlockDimPositive, StridesFromStart
  <2>2. t \in Tids /\ j \in 0 .. shape.K /\ pc[b][t] = "stage" /\ at[b][t] = t
    BY <1>1, <2>1 DEF Tids
  <2> QED BY <2>1, <2>2
<1>4. StagedBeforeRead
  BY DEF StagedBeforeRead
<1> QED BY <1>2, <1>3, <1>4 DEF StageInv

LEMMA StageStep ==
    ASSUME StageInv, NEW b \in Blocks, NEW t \in Tids, Stage(b, t)
    PROVE  StageInv'
<1> DEFINE e == at[b][t]
           v == b[1] * shape.K + e
<1>1. /\ shape.K \in Nat \ {0} /\ e \in 0 .. shape.K - 1
      /\ BlockDim \in Nat \ {0} /\ b[1] \in Nat /\ v \in Int
  BY ShapeFacts, BlockDimPositive DEF StageInv, StageTypes, Stage, Blocks
<1>2. /\ x_shared' = [x_shared EXCEPT ![b][e] = v]
      /\ at' = [at EXCEPT ![b][t] = e + BlockDim]
      /\ pc' = pc /\ shape' = shape /\ pc[b][t] = "stage"
  BY DEF Stage, Stride
<1>3. Blocks' = Blocks
  BY <1>2 DEF Blocks
<1>4. StageTypes
  BY DEF StageInv
<1>5. \A c \in Blocks, k \in 0 .. shape.K - 1 :
        x_shared'[c][k] = IF c = b /\ k = e THEN v ELSE x_shared[c][k]
  BY <1>1, <1>2, <1>4 DEF StageTypes
<1>6. \A c \in Blocks, u \in Tids :
        at'[c][u] = IF c = b /\ u = t THEN e + BlockDim ELSE at[c][u]
  BY <1>2, <1>4 DEF StageTypes
<1>7. StageTypes'
  <2>1. x_shared' \in [Blocks -> [0 .. shape.K - 1 -> Int \cup {NoValue}]]
    BY <1>1, <1>2, <1>4 DEF StageTypes
  <2>2. at' \in [Blocks -> [Tids -> Nat]]
    BY <1>1, <1>2, <1>4 DEF StageTypes
  <2> QED BY <1>2, <1>3, <1>4, <2>1, <2>2 DEF StageTypes
<1>8. NothingSkipped'
  <2> SUFFICES ASSUME NEW c \in Blocks, NEW k \in 0 .. shape.K - 1,
                      x_shared'[c][k] # c[1] * shape.K + k
               PROVE  \E u \in Tids, j \in 0 .. shape.K :
                        pc[c][u] = "stage" /\ k = at'[c][u] + j * BlockDim
    BY <1>2, <1>3 DEF NothingSkipped
  <2>1. ~ (c = b /\ k = e)
    BY <1>5
  <2>2. x_shared[c][k] # c[1] * shape.K + k
    BY <1>5, <2>1
  <2>3. PICK u \in Tids, j \in 0 .. shape.K :
          pc[c][u] = "stage" /\ k = at[c][u] + j * BlockDim
    BY <2>2 DEF StageInv, NothingSkipped
  <2>4. CASE c = b /\ u = t
    <3>1. k = e + j * BlockDim /\ at'[c][u] = e + BlockDim
      BY <1>6, <2>3, <2>4
    <3>2. j # 0
      BY <1>1, <2>1, <2>4, <3>1
    <3>3. j - 1 \in 0 .. shape.K /\ k = (e + BlockDim) + (j - 1) * BlockDim
      BY <1>1, <3>1, <3>2
    <3> QED BY <2>3, <3>1, <3>3
  <2>5. CASE ~ (c = b /\ u = t)
    BY <1>6, <2>3, <2>5
  <2> QED BY <2>4, <2>5
<1>9. StagedBeforeRead'
  <2> SUFFICES ASSUME NEW c \in Blocks, NEW u \in Tids, pc[c][u] # "stage"
               PROVE  x_shared'[c] = [k \in 0 .. shape.K - 1 |-> c[1] * shape.K + k]
    BY <1>2, <1>3 DEF StagedBeforeRead
  <2>1. x_shared[c] = [k \in 0 .. shape.K - 1 |-> c[1] * shape.K + k]
    BY DEF StageInv, StagedBeforeRead
  <2>2. x_shared'[c] \in [0 .. shape.K - 1 -> Int \cup {NoValue}]
    BY <1>2, <1>3, <1>7 DEF StageTypes
  <2>3. \A k \in 0 .. shape.K - 1 : x_shared[c][k] = c[1] * shape.K + k
    BY <2>1
  <2>4. \A k \in 0 .. shape.K - 1 : x_shared'[c][k] = c[1] * shape.K + k
    BY <1>5, <2>3 DEF v
  <2> QED BY <2>2, <2>4
<1> QED BY <1>7, <1>8, <1>9 DEF StageInv

LEMMA PassBarrierStep ==
    ASSUME StageInv, NEW b \in Blocks, NEW t \in Tids, PassBarrier(b, t)
    PROVE  StageInv'
<1>1. /\ x_shared' = x_shared /\ shape' = shape /\ Blocks' = Blocks
      /\ pc[b][t] = "stage" /\ AllStaged(b, t)
  BY DEF PassBarrier, Blocks
<1>2. PICK to \in {"multiply", "returned"} : pc' = [pc EXCEPT ![b][t] = to]
  BY DEF PassBarrier
<1>3. lane(t) \in Nat /\ at' = [at EXCEPT ![b][t] = lane(t)]
  BY GridAssumption DEF PassBarrier, lane, Tids, Positive
<1>4. StageTypes /\ shape.K \in Nat \ {0} /\ BlockDim \in Nat \ {0}
  BY ShapeFacts, BlockDimPositive DEF StageInv, StageTypes
<1>5. StageTypes'
  BY <1>1, <1>2, <1>3, <1>4 DEF StageTypes
(* No thread is behind an element of the row any more: it is all there. *)
<1>6. \A k \in 0 .. shape.K - 1 : x_shared[b][k] = b[1] * shape.K + k
  <2> SUFFICES ASSUME NEW k \in 0 .. shape.K - 1,
                      NEW u \in Tids, NEW j \in 0 .. shape.K,
                      pc[b][u] = "stage", k = at[b][u] + j * BlockDim
               PROVE  FALSE
    BY DEF StageInv, NothingSkipped
  <2>1. at[b][u] \in Nat /\ at[b][u] >= shape.K
    BY <1>1, <1>4 DEF AllStaged, StageTypes
  <2>2. j * BlockDim >= 0
    BY <1>4
  <2> QED BY <1>4, <2>1, <2>2
<1>7. x_shared[b] = [k \in 0 .. shape.K - 1 |-> b[1] * shape.K + k]
  BY <1>4, <1>6 DEF StageTypes
<1>8. \A c \in Blocks, u \in Tids : ~ (c = b) => pc'[c][u] = pc[c][u] /\ at'[c][u] = at[c][u]
  BY <1>2, <1>3, <1>4 DEF StageTypes
<1>9. NothingSkipped'
  <2> SUFFICES ASSUME NEW c \in Blocks, NEW k \in 0 .. shape.K - 1,
                      x_shared[c][k] # c[1] * shape.K + k
               PROVE  \E u \in Tids, j \in 0 .. shape.K :
                        pc'[c][u] = "stage" /\ k = at'[c][u] + j * BlockDim
    BY <1>1 DEF NothingSkipped
  <2>1. c # b
    BY <1>6
  <2>2. PICK u \in Tids, j \in 0 .. shape.K :
          pc[c][u] = "stage" /\ k = at[c][u] + j * BlockDim
    BY DEF StageInv, NothingSkipped
  <2> QED BY <1>8, <2>1, <2>2
<1>10. StagedBeforeRead'
  <2> SUFFICES ASSUME NEW c \in Blocks, NEW u \in Tids, pc'[c][u] # "stage"
               PROVE  x_shared[c] = [k \in 0 .. shape.K - 1 |-> c[1] * shape.K + k]
    BY <1>1 DEF StagedBeforeRead
  <2>1. CASE c = b
    BY <1>7, <2>1
  <2>2. CASE c # b
    BY <1>8, <2>2 DEF StageInv, StagedBeforeRead
  <2> QED BY <2>1, <2>2
<1> QED BY <1>5, <1>9, <1>10 DEF StageInv

\* After the barrier nothing is staged any more.
LEMMA RestStep ==
    ASSUME StageInv, x_shared' = x_shared, shape' = shape,
           pc' \in [Blocks -> [Tids -> {"stage", "multiply", "returned"}]],
           at' \in [Blocks -> [Tids -> Nat]],
           \A b \in Blocks, t \in Tids :
             \/ pc'[b][t] = pc[b][t] /\ at'[b][t] = at[b][t]
             \/ pc[b][t] # "stage" /\ pc'[b][t] # "stage"
    PROVE  StageInv'
<1>1. Blocks' = Blocks
  BY DEF Blocks
<1>2. StageTypes'
  BY <1>1 DEF StageInv, StageTypes
<1>3. NothingSkipped'
  BY <1>1 DEF StageInv, NothingSkipped
<1>4. StagedBeforeRead'
  <2> SUFFICES ASSUME NEW c \in Blocks, NEW u \in Tids, pc'[c][u] # "stage"
               PROVE  x_shared[c] = [k \in 0 .. shape.K - 1 |-> c[1] * shape.K + k]
    BY <1>1 DEF StagedBeforeRead
  <2>1. pc[c][u] # "stage"
    OBVIOUS
  <2> QED BY <2>1 DEF StageInv, StagedBeforeRead
<1> QED BY <1>2, <1>3, <1>4 DEF StageInv

LEMMA StagingStep == StageInv /\ [Next]_vars => StageInv'
<1> SUFFICES ASSUME StageInv, [Next]_vars PROVE StageInv'
  OBVIOUS
<1>1. /\ pc \in [Blocks -> [Tids -> {"stage", "multiply", "returned"}]]
      /\ at \in [Blocks -> [Tids -> Nat]]
  BY DEF StageInv, StageTypes
<1>2. CASE UNCHANGED vars
  BY <1>1, <1>2, RestStep DEF vars
<1>3. CASE Launch
  BY <1>1, <1>3, RestStep DEF Launch
<1>4. CASE Finished
  BY <1>1, <1>4, RestStep DEF Finished, vars
<1>5. ASSUME NEW b \in Blocks, NEW t \in Tids, Thread(b, t) PROVE StageInv'
  <2>1. CASE Stage(b, t)
    BY <2>1, StageStep
  <2>2. CASE PassBarrier(b, t)
    BY <2>2, PassBarrierStep
  <2>3. CASE Multiply(b, t)
    <3>1. /\ x_shared' = x_shared /\ shape' = shape /\ pc' = pc
          /\ pc[b][t] = "multiply" /\ at' = [at EXCEPT ![b][t] = @ + WarpSize]
      BY <2>3 DEF Multiply
    <3>2. at' \in [Blocks -> [Tids -> Nat]]
      BY <1>1, <3>1, GridAssumption DEF Positive
    <3>3. \A c \in Blocks, u \in Tids :
            at'[c][u] = at[c][u] \/ pc[c][u] = "multiply"
      BY <1>1, <3>1
    <3> QED BY <1>1, <3>1, <3>2, <3>3, RestStep
  <2> QED BY <1>5, <2>1, <2>2, <2>3 DEF Thread
<1>6. ASSUME NEW b \in Blocks, NEW v \in Warps, Warp(b, v) PROVE StageInv'
  <2>1. CASE ShuffleDown(b, v)
    BY <1>1, <2>1, RestStep DEF ShuffleDown
  <2>2. CASE StoreRow(b, v)
    <3>1. /\ x_shared' = x_shared /\ shape' = shape /\ at' = at /\ Converged(b, v)
          /\ pc' = [pc EXCEPT ![b] = [u \in Tids |->
                IF u \in Lanes(v) THEN "returned" ELSE @[u]]]
      BY <2>2 DEF StoreRow
    <3>2. pc' \in [Blocks -> [Tids -> {"stage", "multiply", "returned"}]]
      BY <1>1, <3>1
    <3>3. \A c \in Blocks, u \in Tids :
            \/ pc'[c][u] = pc[c][u]
            \/ pc[c][u] = "multiply" /\ pc'[c][u] = "returned"
      BY <1>1, <3>1 DEF Converged
    <3> QED BY <1>1, <3>1, <3>2, <3>3, RestStep
  <2> QED BY <1>6, <2>1, <2>2 DEF Warp
<1> QED BY <1>2, <1>3, <1>4, <1>5, <1>6 DEF Next, Run

(* Staging is inductive: no element is skipped, and the barrier opens on a *)
(* full row.                                                               *)
THEOREM StagingHolds == Spec => []StageInv
<1>1. Init => StageInv
  BY StageInit
<1>2. StageInv /\ [Next]_vars => StageInv'
  BY StagingStep
<1> QED BY <1>1, <1>2, PTL DEF Spec

(* However many warps a block has and whatever rows they have, their       *)
(* threads between them stage every element of the row.                    *)
THEOREM NoElementSkipped == Spec => []NothingSkipped
<1>1. StageInv => NothingSkipped
  BY DEF StageInv
<1> QED BY <1>1, StagingHolds, PTL

(* Once a thread has passed __syncthreads(), the whole row of x is in the  *)
(* block's shared memory.                                                  *)
THEOREM BarrierOpensOnFullRow == Spec => []StagedBeforeRead
<1>1. StageInv => StagedBeforeRead
  BY DEF StageInv
<1> QED BY <1>1, StagingHolds, PTL

-----------------------------------------------------------------------------
(* What the optimized kernel computes.  First the arithmetic of its lanes. *)

\* Division with remainder.
LEMMA Division ==
    ASSUME NEW x \in Nat, NEW d \in Nat \ {0}
    PROVE  /\ x \div d \in Nat /\ (x % d) \in 0 .. d - 1
           /\ x = d * (x \div d) + (x % d)
  OBVIOUS

\* Quotient and remainder are the only ones.
LEMMA DivisionIs ==
    ASSUME NEW d \in Nat \ {0}, NEW a \in Nat, NEW r \in 0 .. d - 1
    PROVE  (d * a + r) \div d = a /\ ((d * a + r) % d) = r
<1> DEFINE x == d * a + r
           b == x \div d
           e == x % d
<1>1. x \in Nat
  OBVIOUS
<1>2. b \in Nat /\ e \in 0 .. d - 1 /\ x = d * b + e
  BY <1>1, Division
<1>3. d * a + r = d * b + e
  BY <1>2
<1> HIDE DEF x, b, e
<1>4. CASE a >= b + 1
  <2>1. d * a >= d * (b + 1)
    BY <1>2, <1>4
  <2>2. d * (b + 1) = d * b + d /\ d * a \in Nat /\ d * b \in Nat
    BY <1>2
  <2> QED BY <1>2, <1>3, <2>1, <2>2
<1>5. CASE b >= a + 1
  <2>1. d * b >= d * (a + 1)
    BY <1>2, <1>5
  <2>2. d * (a + 1) = d * a + d /\ d * a \in Nat /\ d * b \in Nat
    BY <1>2
  <2> QED BY <1>2, <1>3, <2>1, <2>2
<1>6. CASE a = b
  <2>1. d * a = d * b /\ d * a \in Nat
    BY <1>2, <1>6
  <2>2. r = e
    BY <1>2, <1>3, <2>1
  <2> QED BY <1>6, <2>2 DEF x, b, e
<1> QED BY <1>2, <1>4, <1>5, <1>6

\* A lane's next chunk, and no other before it, is its own too.
LEMMA NextTurn ==
    ASSUME NEW d \in Nat \ {0}, NEW x \in Nat
    PROVE  /\ ((x + d) % d) = (x % d)
           /\ \A y \in x .. x + d - 1 : (y % d) = (x % d) => y = x
<1>1. PICK a \in Nat, r \in 0 .. d - 1 : x = d * a + r /\ (x % d) = r
  BY Division
<1>2. ((x + d) % d) = r
  <2>1. PICK b \in Nat : b = a + 1
    BY <1>1
  <2>2. x + d = d * b + r
    BY <1>1, <2>1
  <2>3. ((d * b + r) % d) = r
    BY <1>1, <2>1, DivisionIs
  <2> QED BY <2>2, <2>3
<1>3. ASSUME NEW y \in x .. x + d - 1, (y % d) = r PROVE y = x
  <2>1. PICK b \in Nat : y = d * b + r
    <3>1. y \in Nat
      OBVIOUS
    <3>2. y \div d \in Nat /\ y = d * (y \div d) + (y % d)
      BY <3>1, Division
    <3> QED BY <1>3, <3>2
  <2>2. d * a \in Nat /\ d * b \in Nat /\ d * b >= d * a /\ d * b < d * a + d
    BY <1>1, <2>1
  <2>3. CASE b >= a + 1
    <3>1. d * b >= d * (a + 1) /\ d * (a + 1) = d * a + d
      BY <2>3
    <3> QED BY <2>2, <3>1
  <2>4. CASE a >= b + 1
    <3>1. d * a >= d * (b + 1) /\ d * (b + 1) = d * b + d
      BY <2>4
    <3> QED BY <2>2, <3>1
  <2>5. CASE a = b
    BY <1>1, <2>1, <2>5
  <2> QED BY <2>3, <2>4, <2>5
<1> QED BY <1>1, <1>2, <1>3

\* What is at l by turns of d is at l or at l + d by turns of 2 d.
LEMMA HalfTurn ==
    ASSUME NEW d \in Nat \ {0}, NEW l \in 0 .. d - 1, NEW x \in Nat
    PROVE  (x % d) = l <=> (x % (2 * d)) = l \/ (x % (2 * d)) = l + d
<1>1. 2 * d \in Nat \ {0}
  OBVIOUS
<1>2. PICK a \in Nat, r \in 0 .. (2 * d) - 1 : x = (2 * d) * a + r /\ (x % (2 * d)) = r
  BY <1>1, Division
<1>3. CASE r < d
  <2>1. x = d * (2 * a) + r /\ 2 * a \in Nat /\ r \in 0 .. d - 1
    BY <1>2, <1>3
  <2>2. (x % d) = r
    BY <2>1, DivisionIs
  <2> QED BY <1>2, <1>3, <2>2
<1>4. CASE r >= d
  <2>1. x = d * (2 * a + 1) + (r - d) /\ 2 * a + 1 \in Nat /\ r - d \in 0 .. d - 1
    BY <1>2, <1>4
  <2>2. (x % d) = r - d
    BY <2>1, DivisionIs
  <2> QED BY <1>2, <1>4, <2>2
<1> QED BY <1>2, <1>3, <1>4

-----------------------------------------------------------------------------
(* Threads and blocks cover the rows of W, each once.                      *)
LEMMA ThreadPlace ==
    ASSUME NEW t \in Tids
    PROVE  /\ t \in Nat /\ warp_id(t) \in Warps /\ lane(t) \in 0 .. WarpSize - 1
           /\ t = warp_id(t) * WarpSize + lane(t)
<1>1. WarpSize \in Nat \ {0} /\ WarpsPerBlock \in Nat \ {0} /\ t \in Nat
  BY GridAssumption DEF Positive, Tids
<1>2. PICK a \in Nat, r \in 0 .. WarpSize - 1 :
        a = t \div WarpSize /\ r = t % WarpSize /\ t = WarpSize * a + r
  BY <1>1, Division
<1>3. a < WarpsPerBlock
  <2> SUFFICES ASSUME a >= WarpsPerBlock PROVE FALSE
    BY <1>1, <1>2
  <2>1. WarpSize * a >= WarpSize * WarpsPerBlock /\ WarpSize * WarpsPerBlock \in Nat
        /\ WarpSize * a \in Nat /\ WarpSize * WarpsPerBlock = WarpsPerBlock * WarpSize
    BY <1>1
  <2>2. t < WarpsPerBlock * WarpSize
    BY <1>1, <2>1 DEF Tids, BlockDim
  <2> QED BY <1>1, <1>2, <2>1, <2>2
<1>4. WarpSize * a = a * WarpSize
  BY <1>1
<1> QED BY <1>1, <1>2, <1>3, <1>4 DEF warp_id, lane, Warps

LEMMA PlaceOfLane ==
    ASSUME NEW v \in Warps, NEW l \in 0 .. WarpSize - 1
    PROVE  /\ v * WarpSize + l \in Tids
           /\ warp_id(v * WarpSize + l) = v /\ lane(v * WarpSize + l) = l
<1>1. WarpSize \in Nat \ {0} /\ WarpsPerBlock \in Nat \ {0} /\ v \in Nat
  BY GridAssumption DEF Positive, Warps
<1>2. v * WarpSize = WarpSize * v
  BY <1>1
<1>3. v * WarpSize + l \in 0 .. WarpsPerBlock * WarpSize - 1
  <2>1. (WarpsPerBlock - 1 - v) * WarpSize >= 0
    BY <1>1 DEF Warps
  <2>2. (WarpsPerBlock - 1 - v) * WarpSize
          = WarpsPerBlock * WarpSize - WarpSize - v * WarpSize
    BY <1>1
  <2>3. WarpsPerBlock * WarpSize \in Nat /\ v * WarpSize \in Nat
    BY <1>1
  <2> QED BY <1>1, <2>1, <2>2, <2>3
<1> QED BY <1>1, <1>2, <1>3, DivisionIs DEF Tids, BlockDim, warp_id, lane

LEMMA BlockFacts ==
    ASSUME shape \in Shapes, NEW b \in Blocks, NEW v \in Warps
    PROVE  /\ b = <<b[1], b[2]>> /\ b[1] \in 0 .. shape.M - 1 /\ b[2] \in Nat
           /\ v \in Nat /\ v < WarpsPerBlock /\ WarpsPerBlock \in Nat \ {0}
           /\ Row(b, v) \in Nat
           /\ HasRow(b, v) => Row(b, v) \in 0 .. shape.N - 1
                              /\ <<b[1], Row(b, v)>> \in Cells(shape)
<1>1. /\ WarpsPerBlock \in Nat \ {0} /\ shape.N \in Nat \ {0} /\ shape.M \in Nat \ {0}
      /\ v \in Nat /\ v < WarpsPerBlock
  BY GridAssumption, ShapeFacts DEF Positive, Warps
<1>2. b = <<b[1], b[2]>> /\ b[1] \in 0 .. shape.M - 1
  BY DEF Blocks
<1>3. b[2] \in 0 .. (shape.N + WarpsPerBlock - 1) \div WarpsPerBlock - 1
  BY DEF Blocks
<1>4. b[2] \in Nat
  <2>1. PICK x \in Nat : x = shape.N + WarpsPerBlock - 1
    BY <1>1
  <2>2. x \div WarpsPerBlock \in Nat
    BY <1>1, Division
  <2> QED BY <1>3, <2>1, <2>2
<1>5. b[2] * WarpsPerBlock + v \in Nat
  BY <1>1, <1>4
<1> QED BY <1>1, <1>2, <1>4, <1>5 DEF Row, HasRow, Cells

\* No two warps have a row in common.
LEMMA RowsDiffer ==
    ASSUME shape \in Shapes, NEW b \in Blocks, NEW v \in Warps,
           NEW c \in Blocks, NEW u \in Warps,
           b[1] = c[1], Row(b, v) = Row(c, u)
    PROVE  b = c /\ v = u
<1>1. /\ WarpsPerBlock \in Nat \ {0} /\ b[2] \in Nat /\ c[2] \in Nat
      /\ v \in 0 .. WarpsPerBlock - 1 /\ u \in 0 .. WarpsPerBlock - 1
      /\ b = <<b[1], b[2]>> /\ c = <<c[1], c[2]>>
  <2>1. WarpsPerBlock \in Nat \ {0} /\ b[2] \in Nat /\ b = <<b[1], b[2]>>
    BY BlockFacts
  <2>2. c[2] \in Nat /\ c = <<c[1], c[2]>>
    BY BlockFacts
  <2> QED BY <2>1, <2>2 DEF Warps
<1>2. PICK x \in Nat, y \in Nat, d \in Nat \ {0} :
        x = b[2] /\ y = c[2] /\ d = WarpsPerBlock
  BY <1>1
<1>3. d * x + v = d * y + u
  <2>1. x * d + v = y * d + u
    BY <1>2 DEF Row
  <2>2. x * d = d * x /\ y * d = d * y
    OBVIOUS
  <2> QED BY <2>1, <2>2
<1>4. /\ (d * x + v) \div d = x /\ ((d * x + v) % d) = v
      /\ (d * y + u) \div d = y /\ ((d * y + u) % d) = u
  BY <1>1, <1>2, DivisionIs
<1> QED BY <1>1, <1>2, <1>3, <1>4

\* Every cell has its warp.
LEMMA CellPlace ==
    ASSUME shape \in Shapes, NEW m \in 0 .. shape.M - 1, NEW n \in 0 .. shape.N - 1
    PROVE  \E b \in Blocks, v \in Warps : HasRow(b, v) /\ b[1] = m /\ Row(b, v) = n
<1>1. WarpsPerBlock \in Nat \ {0} /\ shape.N \in Nat \ {0} /\ n \in Nat /\ n < shape.N
  BY GridAssumption, ShapeFacts DEF Positive
<1>2. PICK d \in Nat \ {0}, size \in Nat \ {0} : d = WarpsPerBlock /\ size = shape.N
  BY <1>1
<1>3. PICK a \in Nat, v \in 0 .. d - 1 : n = d * a + v
  <2>1. n \div d \in Nat /\ (n % d) \in 0 .. d - 1 /\ n = d * (n \div d) + (n % d)
    BY <1>1, Division
  <2> QED BY <2>1
<1>4. a \in 0 .. (size + d - 1) \div d - 1
  <2>1. PICK x \in Nat : x = size + d - 1
    OBVIOUS
  <2>2. PICK g \in Nat, r \in 0 .. d - 1 : g = x \div d /\ x = d * g + r
    BY Division
  <2>3. a < g
    <3> SUFFICES ASSUME a >= g PROVE FALSE
      BY <1>3, <2>2
    <3>1. d * a >= d * g /\ d * a \in Nat /\ d * g \in Nat
      BY <1>3, <2>2
    <3> QED BY <1>1, <1>2, <1>3, <2>1, <2>2, <3>1
  <2> QED BY <2>1, <2>2, <2>3
<1>5. <<m, a>> \in Blocks /\ v \in Warps
  BY <1>2, <1>4 DEF Blocks, Warps
<1>6. Row(<<m, a>>, v) = n
  <2>1. a * d = d * a
    OBVIOUS
  <2> QED BY <1>2, <1>3, <2>1 DEF Row
<1> QED BY <1>1, <1>5, <1>6 DEF HasRow

-----------------------------------------------------------------------------
(* Sums of products of the reference, and the words they come in.          *)

VectorColumns == 0 .. 8 * half_k_vec4 - 1

SumOf(m, n, cols) == SetToBag({ReferenceProduct(shape, m, n, i) : i \in cols})

BagType == UNION {[D -> Nat \ {0}] : D \in SUBSET ProductType(shape)}

LEMMA BagTypeIs ==
    ASSUME NEW x \in BagType
    PROVE  IsABag(x) /\ BagToSet(x) \subseteq ProductType(shape)
<1>1. PICK D \in SUBSET ProductType(shape) : x \in [D -> Nat \ {0}]
  BY DEF BagType
<1>2. DOMAIN x = D /\ x \in [D -> {n \in Nat : n > 0}]
  BY <1>1
<1> QED BY <1>1, <1>2 DEF IsABag, BagToSet

LEMMA BagsAdd ==
    ASSUME NEW x \in BagType, NEW y \in BagType
    PROVE  x (+) y \in BagType
<1>1. PICK D \in SUBSET ProductType(shape) : x \in [D -> Nat \ {0}]
  BY DEF BagType
<1>2. PICK E \in SUBSET ProductType(shape) : y \in [E -> Nat \ {0}]
  BY DEF BagType
<1>3. DOMAIN x = D /\ DOMAIN y = E
  BY <1>1, <1>2
<1>4. x (+) y = [e \in D \cup E |-> (IF e \in D THEN x[e] ELSE 0)
                                    + (IF e \in E THEN y[e] ELSE 0)]
  BY <1>3 DEF (+)
<1>5. ASSUME NEW e \in D \cup E
      PROVE  (IF e \in D THEN x[e] ELSE 0) + (IF e \in E THEN y[e] ELSE 0) \in Nat \ {0}
  BY <1>1, <1>2
<1>6. x (+) y \in [D \cup E -> Nat \ {0}]
  BY <1>4, <1>5
<1>7. D \cup E \in SUBSET ProductType(shape)
  OBVIOUS
<1> HIDE DEF (+)
<1> QED BY <1>6, <1>7 DEF BagType

LEMMA SetsAdd ==
    ASSUME NEW A, NEW B, A \cap B = {}
    PROVE  SetToBag(A) (+) SetToBag(B) = SetToBag(A \cup B)
<1>1. \A e \in A \cup B : (e \in A /\ e \notin B) \/ (e \in B /\ e \notin A)
  OBVIOUS
<1> QED BY <1>1 DEF SetToBag, (+)

LEMMA ShapeIs ==
    ASSUME NEW s \in Shapes
    PROVE  /\ s.M \in Nat \ {0} /\ s.N \in Nat \ {0} /\ s.K \in Nat \ {0}
           /\ s.group_size \in Nat \ {0} /\ (s.K % 2) = 0 /\ (s.K % s.group_size) = 0
  BY ShapesAssumption DEF Positive, Accepted

\* Row a of a tensor with d columns: column b lies in it.
LEMMA RowMajor ==
    ASSUME NEW height \in Nat, NEW d \in Nat, NEW a \in 0 .. height - 1, NEW b \in 0 .. d - 1
    PROVE  a * d + b \in 0 .. height * d - 1
<1>1. (height - 1 - a) * d >= 0
  OBVIOUS
<1>2. (height - 1 - a) * d = height * d - d - a * d
  OBVIOUS
<1>3. a * d \in Nat /\ height * d \in Nat
  OBVIOUS
<1> QED BY <1>1, <1>2, <1>3

\* d divides size, hence column i of a row of size lies in one of its parts.
LEMMA PartOf ==
    ASSUME NEW size \in Nat \ {0}, NEW d \in Nat \ {0}, (size % d) = 0, NEW i \in 0 .. size - 1
    PROVE  size \div d \in Nat /\ i \div d \in 0 .. (size \div d) - 1
<1>1. PICK n \in Nat : n = size \div d /\ size = d * n
  <2>1. size \div d \in Nat /\ size = d * (size \div d) + (size % d)
    BY Division
  <2>2. d * (size \div d) \in Nat
    BY <2>1
  <2> QED BY <2>1, <2>2
<1>2. PICK g \in Nat, r \in 0 .. d - 1 : g = i \div d /\ i = d * g + r
  <2>1. i \in Nat
    OBVIOUS
  <2> QED BY <2>1, Division
<1>3. g < n
  <2> SUFFICES ASSUME g >= n PROVE FALSE
    OBVIOUS
  <2>1. d * g >= d * n /\ d * g \in Nat /\ d * n \in Nat
    OBVIOUS
  <2> QED BY <1>1, <1>2, <2>1
<1> QED BY <1>1, <1>2, <1>3

\* The reference multiplies elements of the tensors.
LEMMA ReferenceInTensors ==
    ASSUME NEW s \in Shapes, NEW m \in 0 .. s.M - 1, NEW n \in 0 .. s.N - 1,
           NEW i \in 0 .. s.K - 1
    PROVE  ReferenceProduct(s, m, n, i) \in ProductType(s)
<1>1. /\ s.M \in Nat \ {0} /\ s.N \in Nat \ {0} /\ s.K \in Nat \ {0}
      /\ s.group_size \in Nat \ {0} /\ (s.K % 2) = 0 /\ (s.K % s.group_size) = 0
  BY ShapeIs
<1>2. m * s.K + i \in 0 .. s.M * s.K - 1
  BY <1>1, RowMajor
<1>3. HalfK(s) \in Nat /\ i \div 2 \in 0 .. HalfK(s) - 1
  <2>1. PICK size \in Nat \ {0} : size = s.K
    BY <1>1
  <2>2. size \div 2 \in Nat /\ i \div 2 \in 0 .. (size \div 2) - 1
    BY <1>1, <2>1
  <2> QED BY <2>1, <2>2 DEF HalfK
<1>4. n * HalfK(s) + i \div 2 \in 0 .. s.N * HalfK(s) - 1
  BY <1>1, <1>3, RowMajor
<1>5. Groups(s) \in Nat /\ i \div s.group_size \in 0 .. Groups(s) - 1
  BY <1>1, PartOf DEF Groups
<1>6. n * Groups(s) + i \div s.group_size \in 0 .. s.N * Groups(s) - 1
  BY <1>1, <1>5, RowMajor
<1>7. (i % 2) \in {0, 1}
  BY <1>1
<1> QED BY <1>2, <1>4, <1>6, <1>7 DEF ReferenceProduct, Product, ProductType

\* Products of different columns differ, as they read different elements of x.
LEMMA ProductsDiffer ==
    ASSUME NEW s \in Shapes, NEW m \in Nat, NEW n \in Nat, NEW i \in Nat, NEW j \in Nat,
           ReferenceProduct(s, m, n, i) = ReferenceProduct(s, m, n, j)
    PROVE  i = j
<1>1. m * s.K + i = m * s.K + j
  BY DEF ReferenceProduct, Product
<1>2. m * s.K \in Int
  BY ShapeIs
<1> QED BY <1>1, <1>2

LEMMA SumsAdd ==
    ASSUME shape \in Shapes, NEW m \in Nat, NEW n \in Nat,
           NEW A \in SUBSET Nat, NEW B \in SUBSET Nat, A \cap B = {}
    PROVE  SumOf(m, n, A) (+) SumOf(m, n, B) = SumOf(m, n, A \cup B)
<1> DEFINE P(i) == ReferenceProduct(shape, m, n, i)
           PA == {P(i) : i \in A}
           PB == {P(i) : i \in B}
<1>1. PA \cap PB = {}
  <2> SUFFICES ASSUME NEW i \in A, NEW j \in B, P(i) = P(j) PROVE FALSE
    OBVIOUS
  <2>1. i = j
    BY ProductsDiffer
  <2> QED BY <2>1
<1>2. {P(i) : i \in A \cup B} = PA \cup PB
  OBVIOUS
<1>3. SetToBag(PA) (+) SetToBag(PB) = SetToBag(PA \cup PB)
  <2> HIDE DEF PA, PB
  <2> QED BY <1>1, SetsAdd
<1> HIDE DEF P
<1> QED BY <1>2, <1>3 DEF SumOf, P

LEMMA SumTyped ==
    ASSUME shape \in Shapes, NEW m \in 0 .. shape.M - 1, NEW n \in 0 .. shape.N - 1,
           NEW A \in SUBSET (0 .. shape.K - 1)
    PROVE  SumOf(m, n, A) \in BagType
<1> DEFINE S == {ReferenceProduct(shape, m, n, i) : i \in A}
<1>1. S \in SUBSET ProductType(shape)
  BY ReferenceInTensors
<1> HIDE DEF S
<1>2. SetToBag(S) \in [S -> Nat \ {0}]
  BY DEF SetToBag
<1> QED BY <1>1, <1>2 DEF SumOf, BagType, S

LEMMA VectorFacts ==
    ASSUME shape \in Shapes
    PROVE  /\ half_k_vec4 \in Nat /\ half_k_vec4 = shape.K \div 8
           /\ VectorColumns \subseteq 0 .. shape.K - 1
           /\ VectorColumns \subseteq Nat
           /\ \A i \in VectorColumns : i \div 8 \in 0 .. half_k_vec4 - 1
           /\ \A chunk \in 0 .. half_k_vec4 - 1, j \in 0 .. 7 :
                chunk * 8 + j \in VectorColumns /\ (chunk * 8 + j) \div 8 = chunk
<1>1. PICK z \in Nat : z = shape.K /\ half_k_vec4 = (z \div 2) \div 4
  BY ShapeIs DEF half_k_vec4, HalfK
<1>2. (z \div 2) \div 4 = z \div 8 /\ z \div 8 \in Nat /\ 8 * (z \div 8) <= z
  OBVIOUS
<1> QED BY <1>1, <1>2 DEF VectorColumns

\* The eight products of a word are those of its columns.
LEMMA WordSum ==
    ASSUME shape \in Shapes, NEW b \in Blocks, NEW n \in Nat,
           NEW chunk \in 0 .. half_k_vec4 - 1,
           \A i \in 0 .. shape.K - 1 : x_shared[b][i] = b[1] * shape.K + i
    PROVE  SetToBag(WordProducts(b, n, chunk))
             = SumOf(b[1], n, {i \in VectorColumns : i \div 8 = chunk})
<1> DEFINE cols == {i \in VectorColumns : i \div 8 = chunk}
           P(i) == ReferenceProduct(shape, b[1], n, i)
           Q(i, nibble) == LET k == chunk * 8 + 2 * i + nibble
                           IN  Product(x_shared[b][k], WordOffset(n, chunk) + i, nibble,
                                       ScaleOffset(n, k))
<1>1. /\ half_k_vec4 \in Nat /\ chunk \in Nat /\ HalfK(shape) \in Nat
      /\ \A i \in cols : i \in 0 .. shape.K - 1 /\ i \in Nat
      /\ \A j \in 0 .. 7 : chunk * 8 + j \in cols
  <2>1. half_k_vec4 \in Nat /\ VectorColumns \subseteq 0 .. shape.K - 1
        /\ VectorColumns \subseteq Nat
    BY VectorFacts
  <2>2. \A j \in 0 .. 7 : chunk * 8 + j \in VectorColumns /\ (chunk * 8 + j) \div 8 = chunk
    BY VectorFacts
  <2>3. HalfK(shape) \in Nat
    <3>1. PICK z \in Nat : z = shape.K
      BY ShapeIs
    <3> QED BY <3>1 DEF HalfK
  <2> QED BY <2>1, <2>2, <2>3
<1>2. ASSUME NEW i \in 0 .. 3, NEW nibble \in 0 .. 1
      PROVE  /\ chunk * 8 + 2 * i + nibble \in cols
             /\ Q(i, nibble) = P(chunk * 8 + 2 * i + nibble)
  <2>1. PICK j \in 0 .. 7 : j = 2 * i + nibble
    OBVIOUS
  <2>2. PICK k \in Nat : k = chunk * 8 + 2 * i + nibble /\ k = chunk * 8 + j
    BY <1>1, <2>1
  <2>3. k \in cols /\ k \in 0 .. shape.K - 1
    BY <1>1, <2>2
  <2>4. (k \div 2) = 4 * chunk + i /\ (k % 2) = nibble
    BY <1>1, <2>2
  <2>5. PICK z \in Nat : z = n * HalfK(shape)
    BY <1>1
  <2>6. WordOffset(n, chunk) + i = n * HalfK(shape) + (k \div 2)
    BY <1>1, <2>4, <2>5 DEF WordOffset
  <2>7. x_shared[b][k] = b[1] * shape.K + k
    BY <2>3
  <2>8. Q(i, nibble) = Product(x_shared[b][k], WordOffset(n, chunk) + i, nibble,
                               ScaleOffset(n, k))
    BY <2>2
  <2>9. P(k) = Product(b[1] * shape.K + k, n * HalfK(shape) + (k \div 2), k % 2,
                       ScaleOffset(n, k))
    BY DEF ReferenceProduct, ScaleOffset
  <2> HIDE DEF P, Q, cols
  <2> QED BY <2>2, <2>3, <2>4, <2>6, <2>7, <2>8, <2>9
<1>3. ASSUME NEW k \in cols
      PROVE  \E i \in 0 .. 3, nibble \in 0 .. 1 : k = chunk * 8 + 2 * i + nibble
  <2>1. k \in Nat /\ k \div 8 = chunk
    BY <1>1
  <2>2. PICK j \in 0 .. 7 : k = chunk * 8 + j
    BY <1>1, <2>1
  <2>3. j \div 2 \in 0 .. 3 /\ (j % 2) \in 0 .. 1 /\ j = 2 * (j \div 2) + (j % 2)
    OBVIOUS
  <2>4. k = chunk * 8 + 2 * (j \div 2) + (j % 2)
    BY <1>1, <2>2, <2>3
  <2> QED BY <2>3, <2>4
<1> DEFINE QS == {Q(i, nibble) : i \in 0 .. 3, nibble \in 0 .. 1}
           PS == {P(i) : i \in cols}
<1>4. QS = PS
  <2> HIDE DEF P, Q, cols
  <2>1. \A e \in QS : e \in PS
    BY <1>2
  <2>2. \A e \in PS : e \in QS
    BY <1>2, <1>3
  <2> QED BY <2>1, <2>2
<1>5. WordProducts(b, n, chunk) = QS
  BY DEF WordProducts
<1>6. SumOf(b[1], n, cols) = SetToBag(PS)
  BY DEF SumOf
<1>7. SetToBag(WordProducts(b, n, chunk)) = SumOf(b[1], n, cols)
  <2> HIDE DEF PS, QS, cols
  <2> QED BY <1>4, <1>5, <1>6
<1> QED BY <1>7

-----------------------------------------------------------------------------
(* The inductive invariant.  A lane holds, between two steps, the products *)
(* of the words it has read; in the reduction, a lane below the width that *)
(* is left holds those of all lanes that fold into it.  The other lanes    *)
(* hold what nobody reads again.                                           *)

\* The widths of the reduction, from the warp down to one lane.
Widths == CHOOSE sizes \in SUBSET (1 .. WarpSize) : Halvings(sizes)

WidthAt(o) == IF o = 0 THEN 1 ELSE 2 * o

\* Words a thread has read, as a bound on their number in the row.
Done(p, a) == IF p = "stage" THEN 0 ELSE a

Share(l, width, done) ==
    {i \in VectorColumns : ((i \div 8) % width) = l /\ i \div 8 < done}

AlignedBelow(b, t, done) ==
    \A chunk \in 0 .. half_k_vec4 - 1 :
      (chunk % WarpSize) = lane(t) /\ chunk < done =>
        (WordOffset(Row(b, warp_id(t)), chunk) % 4) = 0

\* Thread t of block b at label p and counter a of a launch in status s, with
\* sum x, shuffle offset o and the value c in the cell of its warp.
ThreadOK(b, t, s, p, a, x, o, c) ==
    /\ p = "multiply" => HasRow(b, warp_id(t)) /\ (a % WarpSize) = lane(t)
    /\ p = "returned" /\ HasRow(b, warp_id(t)) => a >= half_k_vec4
    /\ o # FirstOffset => p # "stage" /\ a >= half_k_vec4
    /\ WidthAt(o) \in Widths
    /\ s # "trapped" /\ HasRow(b, warp_id(t)) =>
         /\ lane(t) < WidthAt(o) =>
              x = SumOf(b[1], Row(b, warp_id(t)), Share(lane(t), WidthAt(o), Done(p, a)))
         /\ AlignedBelow(b, t, Done(p, a))
    /\ HasRow(b, warp_id(t)) => (c # NoValue <=> p = "returned")

CellOf(b, t) == <<b[1], Row(b, warp_id(t))>>

WarpInv ==
    \A b \in Blocks, t \in Tids :
      ThreadOK(b, t, status, pc[b][t], at[b][t], partial[b][t],
               offset[b][warp_id(t)], out[CellOf(b, t)])

KernelTypes ==
    /\ status \in {"ready", "running", "failed", "trapped"}
    /\ \A b \in Blocks, i \in 0 .. shape.K - 1 :
         x_shared[b][i] \in {NoValue, b[1] * shape.K + i}
    /\ partial \in [Blocks -> [Tids -> BagType]]
    /\ offset \in [Blocks -> [Warps -> Nat]]
    /\ out = [c \in Cells(shape) |-> out[c]]

Misaligned(b, t) ==
    \E chunk \in 0 .. half_k_vec4 - 1 : (WordOffset(Row(b, warp_id(t)), chunk) % 4) # 0

Fits == shape.K <= SharedLimit /\ shape.M <= GridLimitY

StatusInv ==
    /\ status \in {"ready", "failed"} => \A b \in Blocks, t \in Tids : pc[b][t] = "stage"
    /\ status = "failed" => ~ Fits
    /\ status \in {"running", "trapped"} => Fits
    /\ status = "trapped" =>
         \E b \in Blocks, t \in Tids : pc[b][t] = "multiply" /\ Misaligned(b, t)

KernelInv == StageInv /\ KernelTypes /\ WarpInv /\ StatusInv /\ StoredIsVectorPart

-----------------------------------------------------------------------------
LEMMA WidthFacts ==
    /\ WarpSize \in Widths /\ WarpSize \in Nat \ {0}
    /\ \A p \in Widths : /\ p \in Nat \ {0} /\ p <= WarpSize
                         /\ p = 1 \/ ((p % 2) = 0 /\ p \div 2 \in Widths)
<1>1. Widths \in SUBSET (1 .. WarpSize) /\ Halvings(Widths)
  BY WarpAssumption DEF Widths
<1>2. WarpSize \in Nat \ {0}
  BY GridAssumption DEF Positive
<1> QED BY <1>1, <1>2 DEF Halvings

\* Before its first shuffle a warp is as wide as it is.
LEMMA FirstWidth == FirstOffset \in Nat /\ WidthAt(FirstOffset) = WarpSize
<1>1. WarpSize \in Nat \ {0} /\ (WarpSize = 1 \/ (WarpSize % 2) = 0)
  BY WidthFacts
<1>2. PICK z \in Nat \ {0} : z = WarpSize
  BY <1>1
<1> QED BY <1>1, <1>2 DEF FirstOffset, WidthAt

\* A shuffle halves the width.
LEMMA NextWidth ==
    ASSUME NEW o \in Nat \ {0}, WidthAt(o) \in Widths
    PROVE  /\ WidthAt(o \div 2) = o /\ o \in Widths /\ WidthAt(o) = 2 * o
           /\ 2 * o <= WarpSize /\ o \div 2 \in Nat
<1>1. WidthAt(o) = 2 * o
  BY DEF WidthAt
<1>2. PICK p \in Nat : p = 2 * o /\ p \in Widths
  BY <1>1
<1>3. p \div 2 = o /\ p # 1
  BY <1>2
<1>4. o \in Widths /\ p <= WarpSize
  BY <1>2, <1>3, WidthFacts
<1>5. o = 1 \/ (o % 2) = 0
  BY <1>4, WidthFacts
<1>6. WidthAt(o \div 2) = o
  BY <1>5 DEF WidthAt
<1> QED BY <1>1, <1>2, <1>4, <1>6

\* The invariant of a thread is about the shape, its values and no more.
LEMMA ThreadKept ==
    ASSUME UNCHANGED shape
    PROVE  \A b, t, s, p, a, x, o, c :
             ThreadOK(b, t, s, p, a, x, o, c)' <=> ThreadOK(b, t, s, p, a, x, o, c)
BY DEF ThreadOK, HasRow, Row, half_k_vec4, SumOf, Share, VectorColumns, AlignedBelow,
       WordOffset

LEMMA StatusMoves ==
    ASSUME NEW b, NEW t, NEW s, NEW p, NEW a, NEW x, NEW o, NEW c, NEW z,
           ThreadOK(b, t, s, p, a, x, o, c), s = "trapped" => z = "trapped"
    PROVE  ThreadOK(b, t, z, p, a, x, o, c)
BY DEF ThreadOK

\* A step of one thread leaves the others as they are.
LEMMA OneThread ==
    ASSUME KernelInv, UNCHANGED <<shape, offset, out>>,
           NEW b \in Blocks, NEW t \in Tids, NEW p, NEW a, NEW x,
           pc' = [pc EXCEPT ![b][t] = p], at' = [at EXCEPT ![b][t] = a],
           partial' = [partial EXCEPT ![b][t] = x],
           status = "trapped" => status' = "trapped",
           ThreadOK(b, t, status', p, a, x, offset[b][warp_id(t)], out[CellOf(b, t)])
    PROVE  WarpInv'
<1>1. /\ pc \in [Blocks -> [Tids -> {"stage", "multiply", "returned"}]]
      /\ at \in [Blocks -> [Tids -> Nat]] /\ partial \in [Blocks -> [Tids -> BagType]]
  BY DEF KernelInv, KernelTypes, StageInv, StageTypes
<1>2. ASSUME NEW c \in Blocks, NEW u \in Tids
      PROVE  ThreadOK(c, u, status', pc'[c][u], at'[c][u], partial'[c][u],
                      offset[c][warp_id(u)], out[CellOf(c, u)])
  <2>1. CASE c = b /\ u = t
    <3>1. pc'[b][t] = p /\ at'[b][t] = a /\ partial'[b][t] = x
      BY <1>1
    <3> QED BY <2>1, <3>1
  <2>2. CASE ~ (c = b /\ u = t)
    <3>1. pc'[c][u] = pc[c][u] /\ at'[c][u] = at[c][u] /\ partial'[c][u] = partial[c][u]
      BY <1>1, <2>2
    <3>2. ThreadOK(c, u, status, pc[c][u], at[c][u], partial[c][u],
                   offset[c][warp_id(u)], out[CellOf(c, u)])
      BY DEF KernelInv, WarpInv
    <3> QED BY <3>1, <3>2, StatusMoves
  <2> QED BY <2>1, <2>2
<1>3. Blocks' = Blocks
  BY DEF Blocks
<1>4. \A c, u : CellOf(c, u)' = CellOf(c, u)
  BY DEF CellOf, Row
<1>5. \A c \in Blocks, u \in Tids :
        ThreadOK(c, u, status, pc[c][u], at[c][u], partial[c][u],
                 offset[c][warp_id(u)], out[CellOf(c, u)])'
  BY <1>2, <1>4, ThreadKept DEF CellOf, Row
<1> QED BY <1>3, <1>5 DEF WarpInv

-----------------------------------------------------------------------------
\* The steps of a thread.

LEMMA StageThread ==
    ASSUME KernelInv, NEW b \in Blocks, NEW t \in Tids, Stage(b, t)
    PROVE  WarpInv'
<1>1. /\ pc \in [Blocks -> [Tids -> {"stage", "multiply", "returned"}]]
      /\ at \in [Blocks -> [Tids -> Nat]] /\ partial \in [Blocks -> [Tids -> BagType]]
  BY DEF KernelInv, KernelTypes, StageInv, StageTypes
<1> DEFINE a == at[b][t] + Stride
           x == partial[b][t]
<1>2. /\ UNCHANGED <<shape, status, offset, out>> /\ pc' = pc /\ partial' = partial
      /\ at' = [at EXCEPT ![b][t] = a] /\ pc[b][t] = "stage"
  BY DEF Stage
<1>3. pc' = [pc EXCEPT ![b][t] = "stage"] /\ partial' = [partial EXCEPT ![b][t] = x]
  BY <1>1, <1>2
<1>4. ThreadOK(b, t, status, "stage", at[b][t], x, offset[b][warp_id(t)], out[CellOf(b, t)])
  BY <1>2 DEF KernelInv, WarpInv
<1>5. ThreadOK(b, t, status', "stage", a, x, offset[b][warp_id(t)], out[CellOf(b, t)])
  BY <1>2, <1>4 DEF ThreadOK, Done
<1>6. /\ status = "trapped" => status' = "trapped"
      /\ UNCHANGED <<shape, offset, out>> /\ at' = [at EXCEPT ![b][t] = a]
  BY <1>2
<1> HIDE DEF a, x
<1> QED BY <1>3, <1>5, <1>6, OneThread

\* A lane starts at its own number: none of its words is below it.
LEMMA NothingReadYet ==
    ASSUME shape \in Shapes, NEW t \in Tids
    PROVE  /\ Share(lane(t), WarpSize, lane(t)) = Share(lane(t), WarpSize, 0)
           /\ \A b : AlignedBelow(b, t, lane(t))
           /\ (lane(t) % WarpSize) = lane(t)
<1>1. lane(t) \in 0 .. WarpSize - 1 /\ WarpSize \in Nat \ {0}
  BY ThreadPlace, WidthFacts
<1>2. PICK d \in Nat \ {0}, l \in Nat : d = WarpSize /\ l = lane(t) /\ l < d
  BY <1>1
<1>3. \A y \in 0 .. d - 1 : (y % d) = y
  <2> SUFFICES ASSUME NEW y \in 0 .. d - 1 PROVE (y % d) = y
    OBVIOUS
  <2>1. d * 0 + y = y
    OBVIOUS
  <2>2. ((d * 0 + y) % d) = y
    BY DivisionIs
  <2> QED BY <2>1, <2>2
<1>4. \A y \in Nat : y < l => (y % d) # l
  BY <1>2, <1>3
<1>5. /\ \A i \in VectorColumns : i \div 8 \in Nat
      /\ \A chunk \in 0 .. half_k_vec4 - 1 : chunk \in Nat
  BY VectorFacts
<1>6. Share(l, d, l) = Share(l, d, 0)
  BY <1>4, <1>5 DEF Share
<1> QED BY <1>2, <1>3, <1>4, <1>5, <1>6 DEF AlignedBelow

LEMMA PassBarrierThread ==
    ASSUME KernelInv, NEW b \in Blocks, NEW t \in Tids, PassBarrier(b, t)
    PROVE  WarpInv'
<1>1. /\ pc \in [Blocks -> [Tids -> {"stage", "multiply", "returned"}]]
      /\ at \in [Blocks -> [Tids -> Nat]] /\ partial \in [Blocks -> [Tids -> BagType]]
      /\ shape \in Shapes
  BY DEF KernelInv, KernelTypes, StageInv, StageTypes
<1> DEFINE p == IF HasRow(b, warp_id(t)) THEN "multiply" ELSE "returned"
           a == lane(t)
           x == partial[b][t]
           o == offset[b][warp_id(t)]
           c == out[CellOf(b, t)]
<1>2. /\ UNCHANGED <<shape, status, offset, out>> /\ partial' = partial
      /\ pc' = [pc EXCEPT ![b][t] = p]
      /\ at' = [at EXCEPT ![b][t] = a] /\ pc[b][t] = "stage"
  BY DEF PassBarrier
<1>3. partial' = [partial EXCEPT ![b][t] = x]
  BY <1>1, <1>2
<1>4. ThreadOK(b, t, status, "stage", at[b][t], x, o, c)
  BY <1>2 DEF KernelInv, WarpInv
<1>5. o = FirstOffset /\ WidthAt(o) = WarpSize /\ WidthAt(o) \in Widths
  BY <1>4, FirstWidth DEF ThreadOK
<1>6. ThreadOK(b, t, status', p, a, x, o, c)
  <2>1. p # "stage" /\ p \in {"multiply", "returned"} /\ (HasRow(b, warp_id(t)) => p = "multiply")
    OBVIOUS
  <2>2. p = "multiply" => HasRow(b, warp_id(t)) /\ (a % WarpSize) = lane(t)
    BY <1>1, NothingReadYet
  <2>3. Done(p, a) = lane(t) /\ Done("stage", at[b][t]) = 0
    BY <2>1 DEF Done
  <2>4. ASSUME status # "trapped", HasRow(b, warp_id(t))
        PROVE  /\ x = SumOf(b[1], Row(b, warp_id(t)), Share(lane(t), WidthAt(o), lane(t)))
               /\ AlignedBelow(b, t, lane(t))
    <3>1. lane(t) < WidthAt(o)
      BY <1>5, ThreadPlace, WidthFacts
    <3>2. x = SumOf(b[1], Row(b, warp_id(t)), Share(lane(t), WidthAt(o), 0))
      BY <1>4, <2>3, <2>4, <3>1 DEF ThreadOK
    <3> QED BY <1>1, <1>5, <3>2, NothingReadYet
  <2>5. HasRow(b, warp_id(t)) => (c # NoValue <=> p = "returned")
    BY <1>4, <2>1 DEF ThreadOK
  <2>6. status' = status
    BY <1>2
  <2> HIDE DEF p, a, x, o, c
  <2> QED BY <1>5, <2>1, <2>2, <2>3, <2>4, <2>5, <2>6 DEF ThreadOK
<1> HIDE DEF p, a, x
<1> QED BY <1>2, <1>3, <1>6, OneThread DEF o, c

\* One more word.
LEMMA ShareGrows ==
    ASSUME shape \in Shapes, NEW d \in Nat \ {0}, NEW a \in Nat, NEW l, (a % d) = l
    PROVE  /\ Share(l, d, a + d) = Share(l, d, a) \cup {i \in VectorColumns : i \div 8 = a}
           /\ Share(l, d, a) \cap {i \in VectorColumns : i \div 8 = a} = {}
           /\ Share(l, d, a) \subseteq VectorColumns
<1>1. \A y \in Nat : y < a + d /\ (y % d) = l => y < a \/ y = a
  <2>1. \A y \in a .. a + d - 1 : (y % d) = (a % d) => y = a
    BY NextTurn
  <2>2. \A y \in Nat : y < a + d => y < a \/ y \in a .. a + d - 1
    OBVIOUS
  <2> QED BY <2>1, <2>2
<1>2. \A i \in VectorColumns : i \div 8 \in Nat
  BY VectorFacts
<1> QED BY <1>1, <1>2 DEF Share

LEMMA MultiplyThread ==
    ASSUME KernelInv, status # "trapped", NEW b \in Blocks, NEW t \in Tids, Multiply(b, t)
    PROVE  /\ WarpInv' /\ partial' \in [Blocks -> [Tids -> BagType]]
           /\ status' \in {status, "trapped"}
           /\ status' = "trapped" => Misaligned(b, t)
<1>1. /\ pc \in [Blocks -> [Tids -> {"stage", "multiply", "returned"}]]
      /\ at \in [Blocks -> [Tids -> Nat]] /\ partial \in [Blocks -> [Tids -> BagType]]
      /\ shape \in Shapes
  BY DEF KernelInv, KernelTypes, StageInv, StageTypes
<1> DEFINE v == warp_id(t)
           n == Row(b, v)
           e == at[b][t]
           x == partial[b][t]
           o == offset[b][v]
           c == out[CellOf(b, t)]
           ok == (WordOffset(n, e) % 4) = 0
           word == SetToBag(WordProducts(b, n, e))
           y == IF ok THEN x (+) word ELSE x
<1>2. /\ UNCHANGED <<shape, offset, out>> /\ pc' = pc /\ pc[b][t] = "multiply"
      /\ e < half_k_vec4
      /\ at' = [at EXCEPT ![b][t] = e + WarpSize]
      /\ status' = IF ok THEN status ELSE "trapped"
  BY DEF Multiply
<1>3. partial' = [partial EXCEPT ![b][t] = y]
  <2>1. partial' = IF ok THEN [partial EXCEPT ![b][t] = x (+) word] ELSE partial
    BY DEF Multiply
  <2> HIDE DEF ok, word
  <2> QED BY <1>1, <2>1
<1>4. pc' = [pc EXCEPT ![b][t] = "multiply"]
  BY <1>1, <1>2
<1>5. ThreadOK(b, t, status, "multiply", e, x, o, c)
  BY <1>2 DEF KernelInv, WarpInv
<1>6. /\ HasRow(b, v) /\ (e % WarpSize) = lane(t) /\ e \in Nat
      /\ half_k_vec4 \in Nat /\ e \in 0 .. half_k_vec4 - 1
  <2>1. e \in Nat
    BY <1>1
  <2> QED BY <1>1, <1>2, <1>5, <2>1, VectorFacts DEF ThreadOK
<1>7. o = FirstOffset /\ WidthAt(o) = WarpSize /\ WidthAt(o) \in Widths /\ WarpSize \in Nat \ {0}
  <2>1. ~ (e >= half_k_vec4)
    BY <1>6
  <2> QED BY <1>5, <2>1, FirstWidth, WidthFacts DEF ThreadOK
<1>8. /\ b[1] \in 0 .. shape.M - 1 /\ n \in 0 .. shape.N - 1 /\ b[1] \in Nat /\ n \in Nat
      /\ v \in Warps /\ lane(t) \in 0 .. WarpSize - 1
  <2>1. v \in Warps /\ lane(t) \in 0 .. WarpSize - 1
    BY ThreadPlace
  <2> HIDE DEF v
  <2>2. b[1] \in 0 .. shape.M - 1 /\ Row(b, v) \in 0 .. shape.N - 1
    BY <1>1, <1>6, <2>1, BlockFacts
  <2>3. shape.M \in Nat /\ shape.N \in Nat
    BY <1>1, ShapeIs
  <2> QED BY <2>1, <2>2, <2>3
<1>9. word = SumOf(b[1], n, {i \in VectorColumns : i \div 8 = e})
  <2>1. \A i \in 0 .. shape.K - 1 : x_shared[b][i] = b[1] * shape.K + i
    BY <1>2 DEF KernelInv, StageInv, StagedBeforeRead
  <2> HIDE DEF n, e
  <2> QED BY <1>1, <1>6, <1>8, <2>1, WordSum
<1>10. x = SumOf(b[1], n, Share(lane(t), WarpSize, e)) /\ AlignedBelow(b, t, e)
  <2>1. lane(t) < WidthAt(o) /\ Done("multiply", e) = e
    BY <1>7, <1>8 DEF Done
  <2> QED BY <1>5, <1>6, <1>7, <2>1 DEF ThreadOK
<1> HIDE DEF v, n, e, x, o, c, ok, word
<1>11. ((e + WarpSize) % WarpSize) = lane(t)
  BY <1>6, <1>7, NextTurn
<1>12. x (+) word = SumOf(b[1], n, Share(lane(t), WarpSize, e + WarpSize))
  <2>1. PICK A, B : A = Share(lane(t), WarpSize, e) /\ B = {i \in VectorColumns : i \div 8 = e}
    OBVIOUS
  <2>2. /\ Share(lane(t), WarpSize, e + WarpSize) = A \cup B
        /\ A \cap B = {} /\ A \subseteq VectorColumns /\ B \subseteq VectorColumns
    <3>1. \A l : (e % WarpSize) = l =>
            /\ Share(l, WarpSize, e + WarpSize)
                 = Share(l, WarpSize, e) \cup {i \in VectorColumns : i \div 8 = e}
            /\ Share(l, WarpSize, e) \cap {i \in VectorColumns : i \div 8 = e} = {}
            /\ Share(l, WarpSize, e) \subseteq VectorColumns
      BY <1>1, <1>6, <1>7, ShareGrows
    <3> QED BY <1>6, <2>1, <3>1
  <2>3. VectorColumns \subseteq Nat
    BY <1>1, VectorFacts
  <2>4. A \in SUBSET Nat /\ B \in SUBSET Nat
    BY <2>2, <2>3
  <2>5. SumOf(b[1], n, A) (+) SumOf(b[1], n, B) = SumOf(b[1], n, A \cup B)
    <3>1. PICK m \in Nat, k \in Nat : m = b[1] /\ k = n
      BY <1>8
    <3>2. shape \in Shapes /\ A \cap B = {}
      BY <1>1, <2>2
    <3>3. SumOf(m, k, A) (+) SumOf(m, k, B) = SumOf(m, k, A \cup B)
      BY <2>4, <3>2, SumsAdd
    <3> QED BY <3>1, <3>3
  <2> QED BY <1>9, <1>10, <2>1, <2>2, <2>5
<1>13. ok => AlignedBelow(b, t, e + WarpSize)
  <2> SUFFICES ASSUME ok, NEW chunk \in 0 .. half_k_vec4 - 1,
                      (chunk % WarpSize) = lane(t), chunk < e + WarpSize
               PROVE  (WordOffset(Row(b, warp_id(t)), chunk) % 4) = 0
    BY DEF AlignedBelow
  <2>1. chunk \in Nat
    OBVIOUS
  <2>2. chunk < e \/ chunk = e
    <3>1. \A z \in e .. e + WarpSize - 1 : (z % WarpSize) = (e % WarpSize) => z = e
      BY <1>6, <1>7, NextTurn
    <3>2. PICK d \in Nat : d = WarpSize
      BY <1>7
    <3>3. chunk < e \/ chunk \in e .. e + d - 1
      BY <1>6, <2>1, <3>2
    <3> QED BY <1>6, <3>1, <3>2, <3>3
  <2> QED BY <1>10, <2>2 DEF AlignedBelow, ok, n, v
<1>14. ThreadOK(b, t, status', "multiply", e + WarpSize, y, o, c)
  <2>1. Done("multiply", e + WarpSize) = e + WarpSize
    BY DEF Done
  <2>2. HasRow(b, warp_id(t)) => (c # NoValue <=> "multiply" = "returned")
    BY <1>5 DEF ThreadOK
  <2>3. status' # "trapped" =>
          /\ y = SumOf(b[1], Row(b, warp_id(t)), Share(lane(t), WidthAt(o), e + WarpSize))
          /\ AlignedBelow(b, t, e + WarpSize)
    BY <1>2, <1>7, <1>12, <1>13 DEF n, v
  <2> HIDE DEF y
  <2> QED BY <1>6, <1>7, <1>11, <2>1, <2>2, <2>3 DEF ThreadOK, v
<1>15. WarpInv'
  <2> HIDE DEF y
  <2>1. status = "trapped" => status' = "trapped"
    OBVIOUS
  <2> QED BY <1>2, <1>3, <1>4, <1>14, <2>1, OneThread DEF o, c, v
<1>16. y \in BagType
  <2>1. x \in BagType
    BY <1>1 DEF x
  <2>2. word \in BagType
    <3>1. {i \in VectorColumns : i \div 8 = e} \in SUBSET (0 .. shape.K - 1)
      BY <1>1, VectorFacts
    <3> QED BY <1>1, <1>8, <1>9, <3>1, SumTyped
  <2>3. x (+) word \in BagType
    BY <2>1, <2>2, BagsAdd
  <2> QED BY <2>1, <2>3
<1>17. partial' \in [Blocks -> [Tids -> BagType]]
  <2> HIDE DEF y
  <2> QED BY <1>1, <1>3, <1>16
<1>18. ~ ok => Misaligned(b, t)
  BY <1>6 DEF Misaligned, ok, n, v
<1> QED BY <1>2, <1>15, <1>17, <1>18

-----------------------------------------------------------------------------
\* The steps of a warp.

LEMMA LanesAre ==
    ASSUME NEW v \in Warps
    PROVE  /\ \A t \in Lanes(v) : t \in Tids /\ warp_id(t) = v
           /\ \A t \in Tids : warp_id(t) = v => t \in Lanes(v)
           /\ v * WarpSize \in Lanes(v) /\ lane(v * WarpSize) = 0
           /\ \A t \in Lanes(v), d \in Nat :
                lane(t) + d < WarpSize =>
                  t + d \in Lanes(v) /\ lane(t + d) = lane(t) + d
<1>1. /\ \A t \in Lanes(v) : t \in Tids /\ warp_id(t) = v
      /\ \A t \in Tids : warp_id(t) = v => t \in Lanes(v)
  BY DEF Lanes
<1>2. WarpSize \in Nat \ {0} /\ v \in Nat
  BY GridAssumption DEF Positive, Warps
<1>3. v * WarpSize \in Lanes(v) /\ lane(v * WarpSize) = 0
  <2>1. 0 \in 0 .. WarpSize - 1 /\ v * WarpSize + 0 = v * WarpSize
    BY <1>2
  <2>2. /\ v * WarpSize + 0 \in Tids /\ warp_id(v * WarpSize + 0) = v
        /\ lane(v * WarpSize + 0) = 0
    BY <2>1, PlaceOfLane
  <2> QED BY <1>1, <2>1, <2>2
<1>4. ASSUME NEW t \in Lanes(v), NEW d \in Nat, lane(t) + d < WarpSize
      PROVE  t + d \in Lanes(v) /\ lane(t + d) = lane(t) + d
  <2>1. t = v * WarpSize + lane(t) /\ lane(t) \in 0 .. WarpSize - 1
    BY <1>1, ThreadPlace
  <2>2. PICK k \in Nat : k = lane(t) + d
    BY <1>2, <2>1
  <2>3. t + d = v * WarpSize + k /\ k \in 0 .. WarpSize - 1
    <3>1. PICK z \in Nat, l \in Nat : z = v * WarpSize /\ l = lane(t)
      BY <1>2, <2>1
    <3> QED BY <1>2, <1>4, <2>1, <2>2, <3>1
  <2>4. /\ v * WarpSize + k \in Tids /\ warp_id(v * WarpSize + k) = v
        /\ lane(v * WarpSize + k) = k
    BY <2>3, PlaceOfLane
  <2> QED BY <1>1, <2>2, <2>3, <2>4
<1> QED BY <1>1, <1>3, <1>4

LEMMA OneWarp ==
    ASSUME KernelInv, UNCHANGED <<shape, status, at>>, NEW b \in Blocks, NEW v \in Warps,
           \A c \in Blocks, u \in Tids :
             ~ (c = b /\ warp_id(u) = v) =>
               /\ pc'[c][u] = pc[c][u] /\ partial'[c][u] = partial[c][u]
               /\ offset'[c][warp_id(u)] = offset[c][warp_id(u)]
               /\ HasRow(c, warp_id(u)) => out'[CellOf(c, u)] = out[CellOf(c, u)],
           \A t \in Lanes(v) :
             ThreadOK(b, t, status, pc'[b][t], at[b][t], partial'[b][t], offset'[b][v],
                      out'[CellOf(b, t)])
    PROVE  WarpInv'
<1>1. ASSUME NEW c \in Blocks, NEW u \in Tids
      PROVE  ThreadOK(c, u, status, pc'[c][u], at[c][u], partial'[c][u],
                      offset'[c][warp_id(u)], out'[CellOf(c, u)])
  <2>1. CASE c = b /\ warp_id(u) = v
    BY <2>1, LanesAre
  <2>2. CASE ~ (c = b /\ warp_id(u) = v)
    <3>1. ThreadOK(c, u, status, pc[c][u], at[c][u], partial[c][u],
                   offset[c][warp_id(u)], out[CellOf(c, u)])
      BY DEF KernelInv, WarpInv
    <3>2. /\ pc'[c][u] = pc[c][u] /\ partial'[c][u] = partial[c][u]
          /\ offset'[c][warp_id(u)] = offset[c][warp_id(u)]
          /\ HasRow(c, warp_id(u)) => out'[CellOf(c, u)] = out[CellOf(c, u)]
      BY <2>2
    <3>3. \A x : ThreadOK(c, u, status, pc[c][u], at[c][u], partial[c][u],
                          offset[c][warp_id(u)], x)
                 \/ (HasRow(c, warp_id(u)) /\ x # out[CellOf(c, u)])
      BY <3>1 DEF ThreadOK
    <3> QED BY <3>2, <3>3
  <2> QED BY <2>1, <2>2
<1>2. Blocks' = Blocks
  BY DEF Blocks
<1>3. \A c \in Blocks, u \in Tids :
        ThreadOK(c, u, status, pc[c][u], at[c][u], partial[c][u],
                 offset[c][warp_id(u)], out[CellOf(c, u)])'
  BY <1>1, ThreadKept DEF CellOf, Row
<1> QED BY <1>2, <1>3 DEF WarpInv

LEMMA SharesFold ==
    ASSUME shape \in Shapes, NEW d \in Nat \ {0}, NEW l \in 0 .. d - 1,
           NEW a, a >= half_k_vec4, a \in Nat, NEW e, e >= half_k_vec4, e \in Nat
    PROVE  /\ Share(l, d, a) = Share(l, 2 * d, a) \cup Share(l + d, 2 * d, e)
           /\ Share(l, 2 * d, a) \cap Share(l + d, 2 * d, e) = {}
           /\ Share(l, 2 * d, a) \in SUBSET Nat /\ Share(l + d, 2 * d, e) \in SUBSET Nat
<1>1. half_k_vec4 \in Nat /\ VectorColumns \subseteq Nat
      /\ \A i \in VectorColumns : i \div 8 \in 0 .. half_k_vec4 - 1
  BY VectorFacts
<1>2. \A i \in VectorColumns : i \div 8 < a /\ i \div 8 < e /\ i \div 8 \in Nat
  BY <1>1
<1>3. \A x \in Nat : (x % d) = l <=> (x % (2 * d)) = l \/ (x % (2 * d)) = l + d
  BY HalfTurn
<1>4. l # l + d
  OBVIOUS
<1>5. \A i \in VectorColumns : ((i \div 8) % d) = l <=>
        ((i \div 8) % (2 * d)) = l \/ ((i \div 8) % (2 * d)) = l + d
  BY <1>2, <1>3
<1>6. /\ Share(l, d, a) = {i \in VectorColumns : ((i \div 8) % d) = l}
      /\ Share(l, 2 * d, a) = {i \in VectorColumns : ((i \div 8) % (2 * d)) = l}
      /\ Share(l + d, 2 * d, e) = {i \in VectorColumns : ((i \div 8) % (2 * d)) = l + d}
  BY <1>2 DEF Share
<1>7. Share(l, 2 * d, a) \cap Share(l + d, 2 * d, e) = {}
  BY <1>4, <1>6
<1>8. Share(l, d, a) = Share(l, 2 * d, a) \cup Share(l + d, 2 * d, e)
  BY <1>5, <1>6
<1> QED BY <1>1, <1>6, <1>7, <1>8

LEMMA ShuffleWarp ==
    ASSUME KernelInv, status # "trapped", NEW b \in Blocks, NEW v \in Warps, ShuffleDown(b, v)
    PROVE  /\ WarpInv' /\ partial' \in [Blocks -> [Tids -> BagType]]
           /\ offset' \in [Blocks -> [Warps -> Nat]]
<1>1. /\ pc \in [Blocks -> [Tids -> {"stage", "multiply", "returned"}]]
      /\ at \in [Blocks -> [Tids -> Nat]] /\ partial \in [Blocks -> [Tids -> BagType]]
      /\ offset \in [Blocks -> [Warps -> Nat]] /\ shape \in Shapes
  BY DEF KernelInv, KernelTypes, StageInv, StageTypes
<1>2. PICK o \in Nat \ {0} : o = offset[b][v]
  BY <1>1 DEF ShuffleDown
<1>3. /\ UNCHANGED <<shape, status, pc, at, out>>
      /\ offset' = [offset EXCEPT ![b][v] = o \div 2]
      /\ partial' = [partial EXCEPT ![b] = [t \in Tids |->
           IF t \in Lanes(v)
           THEN partial[b][t] (+) partial[b][ShuffleSource(t, o)]
           ELSE partial[b][t]]]
      /\ \A t \in Lanes(v) : pc[b][t] = "multiply" /\ at[b][t] >= half_k_vec4
  BY <1>2 DEF ShuffleDown, Converged
<1>4. ASSUME NEW t \in Lanes(v)
      PROVE  /\ ThreadOK(b, t, status, "multiply", at[b][t], partial[b][t], o,
                         out[CellOf(b, t)])
             /\ t \in Tids /\ warp_id(t) = v /\ lane(t) \in 0 .. WarpSize - 1
             /\ ShuffleSource(t, o) \in Lanes(v) /\ partial[b][t] \in BagType
             /\ at[b][t] \in Nat
  <2>1. t \in Tids /\ warp_id(t) = v
    BY LanesAre
  <2>2. lane(t) \in 0 .. WarpSize - 1
    BY <2>1, ThreadPlace
  <2>3. ShuffleSource(t, o) \in Lanes(v)
    BY <1>2, LanesAre DEF ShuffleSource
  <2>4. ThreadOK(b, t, status, pc[b][t], at[b][t], partial[b][t], offset[b][warp_id(t)],
                 out[CellOf(b, t)])
    BY <2>1 DEF KernelInv, WarpInv
  <2> QED BY <1>1, <1>2, <1>3, <2>1, <2>2, <2>3, <2>4
<1>5. /\ WidthAt(o \div 2) = o /\ o \in Widths /\ WidthAt(o) = 2 * o
      /\ 2 * o <= WarpSize /\ o \div 2 \in Nat
  <2>1. v * WarpSize \in Lanes(v)
    BY LanesAre
  <2>2. WidthAt(o) \in Widths
    BY <1>4, <2>1 DEF ThreadOK
  <2> QED BY <2>2, NextWidth
<1>6. offset' \in [Blocks -> [Warps -> Nat]]
  BY <1>1, <1>3, <1>5
<1>7. ASSUME NEW t \in Lanes(v)
      PROVE  partial'[b][t] = partial[b][t] (+) partial[b][ShuffleSource(t, o)]
             /\ partial'[b][t] \in BagType
  <2>1. PICK u \in Lanes(v) : u = ShuffleSource(t, o)
    BY <1>4
  <2>2. partial[b][t] (+) partial[b][u] \in BagType
    BY <1>4, <2>1, BagsAdd
  <2>3. partial'[b][t] = partial[b][t] (+) partial[b][ShuffleSource(t, o)]
    BY <1>1, <1>3, <1>4
  <2> QED BY <2>1, <2>2, <2>3
<1>8. partial' \in [Blocks -> [Tids -> BagType]]
  <2>1. ASSUME NEW c \in Blocks PROVE partial'[c] \in [Tids -> BagType]
    <3>1. CASE c # b
      BY <1>1, <1>3, <3>1
    <3>2. CASE c = b
      <4>1. \A t \in Tids : t \notin Lanes(v) => partial'[b][t] = partial[b][t]
        BY <1>1, <1>3
      <4>2. \A t \in Tids : partial'[b][t] \in BagType
        BY <1>1, <1>7, <4>1
      <4>3. partial'[b] = [t \in Tids |-> partial'[b][t]]
        BY <1>1, <1>3
      <4> QED BY <3>2, <4>2, <4>3
    <3> QED BY <3>1, <3>2
  <2> QED BY <1>1, <1>3, <2>1
<1>9. ASSUME NEW t \in Lanes(v)
      PROVE  ThreadOK(b, t, status, pc'[b][t], at[b][t], partial'[b][t], offset'[b][v],
                      out'[CellOf(b, t)])
  <2>1. pc'[b][t] = "multiply" /\ offset'[b][v] = o \div 2 /\ out' = out
    BY <1>1, <1>3
  <2>2. ASSUME HasRow(b, v), lane(t) < o
        PROVE  partial'[b][t]
                 = SumOf(b[1], Row(b, v), Share(lane(t), o, at[b][t]))
    <3>1. PICK l \in 0 .. o - 1 : l = lane(t) /\ l \in Nat
      BY <1>4, <2>2
    <3>10. PICK u : u = t + o
      OBVIOUS
    <3>2. u \in Lanes(v) /\ lane(u) = l + o /\ ShuffleSource(t, o) = u
      <4>1. lane(t) + o < WarpSize
        <5>1. PICK z \in Nat : z = WarpSize
          BY WidthFacts
        <5> QED BY <1>5, <3>1, <5>1
      <4> QED BY <3>1, <3>10, <4>1, LanesAre DEF ShuffleSource
    <3>3. Done("multiply", at[b][t]) = at[b][t] /\ Done("multiply", at[b][u]) = at[b][u]
      BY DEF Done
    <3>4. l < 2 * o /\ l + o < 2 * o
      BY <3>1
    <3>5. partial[b][t] = SumOf(b[1], Row(b, v), Share(l, 2 * o, at[b][t]))
      BY <1>4, <1>5, <2>2, <3>1, <3>3, <3>4 DEF ThreadOK
    <3>6. partial[b][u] = SumOf(b[1], Row(b, v), Share(l + o, 2 * o, at[b][u]))
      <4>1. ThreadOK(b, u, status, "multiply", at[b][u], partial[b][u], o, out[CellOf(b, u)])
            /\ warp_id(u) = v
        BY <1>4, <3>2
      <4> QED BY <1>5, <2>2, <3>2, <3>3, <3>4, <4>1 DEF ThreadOK
    <3>7. PICK A, B : A = Share(l, 2 * o, at[b][t]) /\ B = Share(l + o, 2 * o, at[b][u])
      OBVIOUS
    <3>8. /\ Share(l, o, at[b][t]) = A \cup B /\ A \cap B = {}
          /\ A \in SUBSET Nat /\ B \in SUBSET Nat
      <4>1. PICK a \in Nat, e \in Nat : a = at[b][t] /\ e = at[b][u]
        BY <1>4, <3>2
      <4>2. a >= half_k_vec4 /\ e >= half_k_vec4
        BY <1>3, <3>2, <4>1
      <4>3. shape \in Shapes
        BY <1>1
      <4>4. /\ Share(l, o, a) = Share(l, 2 * o, a) \cup Share(l + o, 2 * o, e)
            /\ Share(l, 2 * o, a) \cap Share(l + o, 2 * o, e) = {}
            /\ Share(l, 2 * o, a) \in SUBSET Nat /\ Share(l + o, 2 * o, e) \in SUBSET Nat
        BY <4>2, <4>3, SharesFold
      <4> QED BY <3>7, <4>1, <4>4
    <3>9. SumOf(b[1], Row(b, v), A) (+) SumOf(b[1], Row(b, v), B)
            = SumOf(b[1], Row(b, v), A \cup B)
      <4>1. b[1] \in Nat /\ Row(b, v) \in Nat
        <5>1. b[1] \in 0 .. shape.M - 1 /\ Row(b, v) \in Nat
          BY <1>1, BlockFacts
        <5> QED BY <5>1
      <4>2. PICK m \in Nat, k \in Nat : m = b[1] /\ k = Row(b, v)
        BY <4>1
      <4>3. /\ shape \in Shapes /\ A \cap B = {}
            /\ A \in SUBSET Nat /\ B \in SUBSET Nat
        BY <1>1, <3>8
      <4>4. SumOf(m, k, A) (+) SumOf(m, k, B) = SumOf(m, k, A \cup B)
        BY <4>3, SumsAdd
      <4> QED BY <4>2, <4>4
    <3> QED BY <1>7, <3>1, <3>2, <3>5, <3>6, <3>7, <3>8, <3>9
  <2>3. Done("multiply", at[b][t]) = at[b][t]
    BY DEF Done
  <2>4. /\ HasRow(b, v) /\ (at[b][t] % WarpSize) = lane(t)
        /\ HasRow(b, v) => AlignedBelow(b, t, at[b][t])
        /\ HasRow(b, v) => ~ (out[CellOf(b, t)] # NoValue)
    BY <1>4, <2>3 DEF ThreadOK
  <2>5. at[b][t] >= half_k_vec4 /\ warp_id(t) = v
    BY <1>3, <1>4
  <2> QED BY <1>5, <2>1, <2>2, <2>3, <2>4, <2>5 DEF ThreadOK
<1>10. ASSUME NEW c \in Blocks, NEW u \in Tids, ~ (c = b /\ warp_id(u) = v)
       PROVE  /\ pc'[c][u] = pc[c][u] /\ partial'[c][u] = partial[c][u]
              /\ offset'[c][warp_id(u)] = offset[c][warp_id(u)]
              /\ out'[CellOf(c, u)] = out[CellOf(c, u)]
  <2>1. c = b => u \notin Lanes(v)
    BY <1>10, LanesAre
  <2>2. partial'[c][u] = partial[c][u]
    BY <1>1, <1>3, <2>1
  <2>3. offset'[c][warp_id(u)] = offset[c][warp_id(u)]
    <3>1. warp_id(u) \in Warps
      BY ThreadPlace
    <3> QED BY <1>1, <1>3, <1>10, <3>1
  <2> QED BY <1>3, <2>2, <2>3
<1>11. WarpInv'
  <2>1. UNCHANGED <<shape, status, at>>
    BY <1>3
  <2> QED BY <1>9, <1>10, <2>1, OneWarp
<1> QED BY <1>6, <1>8, <1>11

\* All words of a row: what StoredIsVectorPart says of a cell.
LEMMA WholeShare ==
    ASSUME shape \in Shapes, NEW m, NEW n, NEW a \in Nat, a >= half_k_vec4
    PROVE  SumOf(m, n, Share(0, 1, a)) = PartialReference(shape, m, n, 8 * (shape.K \div 8))
<1>1. half_k_vec4 \in Nat /\ half_k_vec4 = shape.K \div 8
      /\ \A i \in VectorColumns : i \div 8 \in 0 .. half_k_vec4 - 1
  BY VectorFacts
<1>2. \A x \in Nat : (x % 1) = 0
  OBVIOUS
<1>3. Share(0, 1, a) = VectorColumns
  <2>1. \A i \in VectorColumns : i \div 8 \in Nat /\ i \div 8 < a
    BY <1>1
  <2> QED BY <1>2, <2>1 DEF Share
<1>4. VectorColumns = 0 .. 8 * (shape.K \div 8) - 1
  BY <1>1 DEF VectorColumns
<1> QED BY <1>3, <1>4 DEF SumOf, PartialReference

LEMMA StoreWarp ==
    ASSUME KernelInv, status # "trapped", NEW b \in Blocks, NEW v \in Warps, StoreRow(b, v)
    PROVE  /\ WarpInv' /\ StoredIsVectorPart'
           /\ HasRow(b, v) /\ out[<<b[1], Row(b, v)>>] = NoValue
           /\ out' = [out EXCEPT ![<<b[1], Row(b, v)>>] =
                        PartialReference(shape, b[1], Row(b, v), 8 * (shape.K \div 8))]
<1>1. /\ pc \in [Blocks -> [Tids -> {"stage", "multiply", "returned"}]]
      /\ at \in [Blocks -> [Tids -> Nat]] /\ partial \in [Blocks -> [Tids -> BagType]]
      /\ offset \in [Blocks -> [Warps -> Nat]] /\ shape \in Shapes
      /\ out = [c \in Cells(shape) |-> out[c]]
  BY DEF KernelInv, KernelTypes, StageInv, StageTypes
<1> DEFINE n == Row(b, v)
           first == v * WarpSize
           sum == PartialReference(shape, b[1], n, 8 * (shape.K \div 8))
<1>2. /\ UNCHANGED <<shape, status, at, partial, offset>> /\ offset[b][v] = 0
      /\ out' = [out EXCEPT ![<<b[1], n>>] = partial[b][first]]
      /\ pc' = [pc EXCEPT ![b] = [t \in Tids |->
                  IF t \in Lanes(v) THEN "returned" ELSE pc[b][t]]]
      /\ \A t \in Lanes(v) : pc[b][t] = "multiply" /\ at[b][t] >= half_k_vec4
  BY DEF StoreRow, Converged
<1>3. ASSUME NEW t \in Lanes(v)
      PROVE  /\ ThreadOK(b, t, status, "multiply", at[b][t], partial[b][t], 0,
                         out[CellOf(b, t)])
             /\ t \in Tids /\ warp_id(t) = v /\ at[b][t] \in Nat
             /\ CellOf(b, t) = <<b[1], n>>
  <2>1. t \in Tids /\ warp_id(t) = v
    BY LanesAre
  <2>2. ThreadOK(b, t, status, pc[b][t], at[b][t], partial[b][t], offset[b][warp_id(t)],
                 out[CellOf(b, t)])
    BY <2>1 DEF KernelInv, WarpInv
  <2> QED BY <1>1, <1>2, <2>1, <2>2 DEF CellOf
<1>4. first \in Lanes(v) /\ lane(first) = 0
  BY LanesAre
<1>5. HasRow(b, v) /\ out[<<b[1], n>>] = NoValue
  <2> HIDE DEF first, n
  <2> QED BY <1>3, <1>4 DEF ThreadOK
<1>6. /\ b[1] \in 0 .. shape.M - 1 /\ n \in 0 .. shape.N - 1 /\ <<b[1], n>> \in Cells(shape)
  BY <1>1, <1>5, BlockFacts
<1> HIDE DEF n, first
<1>7. partial[b][first] = sum
  <2>1. /\ ThreadOK(b, first, status, "multiply", at[b][first], partial[b][first], 0,
                    out[CellOf(b, first)])
        /\ warp_id(first) = v /\ at[b][first] \in Nat /\ at[b][first] >= half_k_vec4
    BY <1>2, <1>3, <1>4
  <2>2. WidthAt(0) = 1 /\ Done("multiply", at[b][first]) = at[b][first]
    BY DEF WidthAt, Done
  <2>3. partial[b][first] = SumOf(b[1], n, Share(0, 1, at[b][first]))
    BY <1>4, <1>5, <2>1, <2>2 DEF ThreadOK, n
  <2> QED BY <1>1, <2>1, <2>3, WholeShare
<1>8. sum # NoValue
  <2>1. 8 * (shape.K \div 8) \in 0 .. shape.K
    <3>1. PICK z \in Nat : z = shape.K
      BY <1>1, ShapeIs
    <3> QED BY <3>1
  <2> QED BY <1>1, <1>6, <2>1, NoValueAssumption
<1>9. /\ out'[<<b[1], n>>] = sum
      /\ \A c \in Cells(shape) : c # <<b[1], n>> => out'[c] = out[c]
      /\ out' = [out EXCEPT ![<<b[1], n>>] = sum]
  BY <1>1, <1>2, <1>6, <1>7
<1> HIDE DEF sum
<1>10. ASSUME NEW t \in Lanes(v)
       PROVE  ThreadOK(b, t, status, pc'[b][t], at[b][t], partial'[b][t], offset'[b][v],
                       out'[CellOf(b, t)])
  <2>1. pc'[b][t] = "returned" /\ offset'[b][v] = 0 /\ partial' = partial
    BY <1>1, <1>2, <1>3
  <2>2. out'[CellOf(b, t)] # NoValue
    BY <1>3, <1>8, <1>9
  <2>3. Done("multiply", at[b][t]) = at[b][t] /\ Done("returned", at[b][t]) = at[b][t]
    BY DEF Done
  <2> QED BY <1>2, <1>3, <2>1, <2>2, <2>3 DEF ThreadOK
<1>11. ASSUME NEW c \in Blocks, NEW u \in Tids, ~ (c = b /\ warp_id(u) = v)
       PROVE  /\ pc'[c][u] = pc[c][u] /\ partial'[c][u] = partial[c][u]
              /\ offset'[c][warp_id(u)] = offset[c][warp_id(u)]
              /\ HasRow(c, warp_id(u)) => out'[CellOf(c, u)] = out[CellOf(c, u)]
  <2>1. c = b => u \notin Lanes(v)
    BY <1>11, LanesAre
  <2>2. pc'[c][u] = pc[c][u]
    BY <1>1, <1>2, <2>1
  <2>3. warp_id(u) \in Warps
    BY ThreadPlace
  <2>4. CellOf(c, u) # <<b[1], n>>
    <3> SUFFICES ASSUME CellOf(c, u) = <<b[1], n>> PROVE FALSE
      OBVIOUS
    <3>1. c[1] = b[1] /\ Row(c, warp_id(u)) = Row(b, v)
      BY DEF CellOf, n
    <3>2. c = b /\ warp_id(u) = v
      BY <1>1, <2>3, <3>1, RowsDiffer
    <3> QED BY <1>11, <3>2
  <2>5. HasRow(c, warp_id(u)) => CellOf(c, u) \in Cells(shape)
    BY <1>1, <2>3, BlockFacts DEF CellOf
  <2> QED BY <1>2, <1>9, <2>2, <2>4, <2>5
<1>12. WarpInv'
  <2>1. UNCHANGED <<shape, status, at>>
    BY <1>2
  <2> QED BY <1>10, <1>11, <2>1, OneWarp
<1>13. StoredIsVectorPart'
  <2> SUFFICES ASSUME NEW m \in 0 .. shape.M - 1, NEW k \in 0 .. shape.N - 1,
                      out'[<<m, k>>] # NoValue
               PROVE  out'[<<m, k>>] = PartialReference(shape, m, k, 8 * (shape.K \div 8))
    BY <1>2 DEF StoredIsVectorPart
  <2>1. CASE <<m, k>> = <<b[1], n>>
    BY <1>9, <2>1 DEF sum
  <2>2. CASE <<m, k>> # <<b[1], n>>
    <3>1. out'[<<m, k>>] = out[<<m, k>>]
      BY <1>9, <2>2 DEF Cells
    <3> QED BY <3>1 DEF KernelInv, StoredIsVectorPart
  <2> QED BY <2>1, <2>2
<1> QED BY <1>5, <1>9, <1>12, <1>13 DEF n, sum

-----------------------------------------------------------------------------
LEMMA KernelInit == Init => KernelInv
<1> SUFFICES ASSUME Init PROVE KernelInv
  OBVIOUS
<1>1. StageInv
  BY StageInit
<1>2. /\ shape \in Shapes /\ status = "ready"
      /\ x_shared = [b \in Blocks |-> [k \in 0 .. shape.K - 1 |-> NoValue]]
      /\ pc = [b \in Blocks |-> [t \in Tids |-> "stage"]]
      /\ at = [b \in Blocks |-> [t \in Tids |-> t]]
      /\ partial = [b \in Blocks |-> [t \in Tids |-> EmptyBag]]
      /\ offset = [b \in Blocks |-> [v \in Warps |-> FirstOffset]]
      /\ out = [c \in Cells(shape) |-> NoValue]
  BY DEF Init
<1>3. EmptyBag = SetToBag({}) /\ EmptyBag \in BagType
  <2>1. EmptyBag = [e \in {} |-> 1] /\ EmptyBag = SetToBag({})
    BY DEF EmptyBag, SetToBag
  <2>2. [e \in {} |-> 1] \in [{} -> Nat \ {0}]
    OBVIOUS
  <2> QED BY <2>1, <2>2 DEF BagType
<1> HIDE DEF EmptyBag
<1>4. KernelTypes
  BY <1>2, <1>3, FirstWidth DEF KernelTypes
<1>5. ASSUME NEW b \in Blocks, NEW t \in Tids
      PROVE  ThreadOK(b, t, status, pc[b][t], at[b][t], partial[b][t],
                      offset[b][warp_id(t)], out[CellOf(b, t)])
  <2>1. warp_id(t) \in Warps
    BY ThreadPlace
  <2>2. /\ pc[b][t] = "stage" /\ partial[b][t] = EmptyBag
        /\ offset[b][warp_id(t)] = FirstOffset
    BY <1>2, <2>1
  <2>3. HasRow(b, warp_id(t)) => out[CellOf(b, t)] = NoValue
    BY <1>2, <2>1, BlockFacts DEF CellOf
  <2>4. Done("stage", at[b][t]) = 0
    BY DEF Done
  <2>5. \A l, d : Share(l, d, 0) = {}
    <3>1. \A i \in VectorColumns : ~ (i \div 8 < 0)
      BY <1>2, VectorFacts
    <3> QED BY <3>1 DEF Share
  <2>6. \A m, n : SumOf(m, n, {}) = EmptyBag
    BY <1>3 DEF SumOf
  <2>7. AlignedBelow(b, t, 0)
    BY DEF AlignedBelow
  <2> QED BY <2>2, <2>3, <2>4, <2>5, <2>6, <2>7, FirstWidth, WidthFacts DEF ThreadOK
<1>6. WarpInv
  BY <1>5 DEF WarpInv
<1>7. StatusInv
  BY <1>2 DEF StatusInv
<1>8. StoredIsVectorPart
  BY <1>2 DEF StoredIsVectorPart, Cells
<1> QED BY <1>1, <1>4, <1>6, <1>7, <1>8 DEF KernelInv

-----------------------------------------------------------------------------
LEMMA StoredKept ==
    ASSUME KernelInv, UNCHANGED <<shape, out>>
    PROVE  StoredIsVectorPart'
BY DEF KernelInv, StoredIsVectorPart

LEMMA StatusKept ==
    ASSUME KernelInv, UNCHANGED shape, status = "running",
           \/ status' = "running"
           \/ /\ status' = "trapped"
              /\ \E b \in Blocks, t \in Tids : pc'[b][t] = "multiply" /\ Misaligned(b, t)
    PROVE  StatusInv'
<1>1. Fits' /\ (\A b, t : Misaligned(b, t)' <=> Misaligned(b, t)) /\ Blocks' = Blocks
  BY DEF KernelInv, StatusInv, Fits, Misaligned, WordOffset, Row, half_k_vec4, HalfK, Blocks
<1> QED BY <1>1 DEF StatusInv

\* A step that changes no more than the status of the launch.
LEMMA StatusStep ==
    ASSUME KernelInv, UNCHANGED <<shape, x_shared, pc, at, partial, offset, out>>,
           status' \in {"ready", "running", "failed", "trapped"},
           status = "trapped" => status' = "trapped", StatusInv'
    PROVE  KernelTypes' /\ WarpInv'
<1>1. KernelTypes'
  BY DEF KernelInv, KernelTypes, Blocks, BagType
<1>2. ASSUME NEW c \in Blocks, NEW u \in Tids
      PROVE  ThreadOK(c, u, status', pc[c][u], at[c][u], partial[c][u],
                      offset[c][warp_id(u)], out[CellOf(c, u)])
  <2>1. ThreadOK(c, u, status, pc[c][u], at[c][u], partial[c][u],
                 offset[c][warp_id(u)], out[CellOf(c, u)])
    BY DEF KernelInv, WarpInv
  <2> QED BY <2>1, StatusMoves
<1>3. \A c \in Blocks, u \in Tids :
        ThreadOK(c, u, status, pc[c][u], at[c][u], partial[c][u],
                 offset[c][warp_id(u)], out[CellOf(c, u)])'
  BY <1>2, ThreadKept DEF CellOf, Row
<1>4. Blocks' = Blocks
  BY DEF Blocks
<1> QED BY <1>1, <1>3, <1>4 DEF WarpInv

LEMMA ThreadStep ==
    ASSUME KernelInv, status = "running", StageInv',
           NEW b \in Blocks, NEW t \in Tids, Thread(b, t)
    PROVE  KernelInv'
<1>1. /\ pc \in [Blocks -> [Tids -> {"stage", "multiply", "returned"}]]
      /\ at \in [Blocks -> [Tids -> Nat]]
      /\ x_shared \in [Blocks -> [0 .. shape.K - 1 -> Int \cup {NoValue}]]
      /\ shape \in Shapes
  BY DEF KernelInv, StageInv, StageTypes
<1>2. /\ \A c \in Blocks, i \in 0 .. shape.K - 1 :
           x_shared[c][i] \in {NoValue, c[1] * shape.K + i}
      /\ partial \in [Blocks -> [Tids -> BagType]]
      /\ offset \in [Blocks -> [Warps -> Nat]]
      /\ out = [c \in Cells(shape) |-> out[c]]
  BY DEF KernelInv, KernelTypes
<1>3. UNCHANGED <<shape, offset, out>>
  BY DEF Thread, Stage, PassBarrier, Multiply
<1>4. Blocks' = Blocks /\ BagType' = BagType
  BY <1>3 DEF Blocks, BagType
<1>5. StoredIsVectorPart'
  BY <1>3, StoredKept
<1>6. CASE Stage(b, t)
  <2>1. /\ UNCHANGED <<status, partial>>
        /\ x_shared' = [x_shared EXCEPT ![b][at[b][t]] = b[1] * shape.K + at[b][t]]
    BY <1>6 DEF Stage
  <2>2. \A c \in Blocks, i \in 0 .. shape.K - 1 :
          x_shared'[c][i] \in {NoValue, c[1] * shape.K + i}
    BY <1>1, <1>2, <2>1
  <2>3. KernelTypes'
    BY <1>2, <1>3, <1>4, <2>1, <2>2 DEF KernelTypes
  <2>4. StatusInv'
    BY <1>3, <2>1, StatusKept
  <2>5. WarpInv'
    BY <1>6, StageThread
  <2> QED BY <1>5, <2>3, <2>4, <2>5 DEF KernelInv
<1>7. CASE PassBarrier(b, t)
  <2>1. UNCHANGED <<status, partial, x_shared>>
    BY <1>7 DEF PassBarrier
  <2>2. KernelTypes'
    BY <1>2, <1>3, <1>4, <2>1 DEF KernelTypes
  <2>3. StatusInv'
    BY <1>3, <2>1, StatusKept
  <2>4. WarpInv'
    BY <1>7, PassBarrierThread
  <2> QED BY <1>5, <2>2, <2>3, <2>4 DEF KernelInv
<1>8. CASE Multiply(b, t)
  <2>1. /\ WarpInv' /\ partial' \in [Blocks -> [Tids -> BagType]]
        /\ status' \in {status, "trapped"} /\ (status' = "trapped" => Misaligned(b, t))
    BY <1>8, MultiplyThread
  <2>2. UNCHANGED <<x_shared, pc>> /\ pc[b][t] = "multiply"
    BY <1>8 DEF Multiply
  <2>3. KernelTypes'
    BY <1>2, <1>3, <1>4, <2>1, <2>2 DEF KernelTypes
  <2>4. StatusInv'
    BY <1>3, <2>1, <2>2, StatusKept
  <2> QED BY <1>5, <2>1, <2>3, <2>4 DEF KernelInv
<1> QED BY <1>6, <1>7, <1>8 DEF Thread

LEMMA WarpStep ==
    ASSUME KernelInv, status = "running", StageInv',
           NEW b \in Blocks, NEW v \in Warps, Warp(b, v)
    PROVE  KernelInv'
<1>1. /\ \A c \in Blocks, i \in 0 .. shape.K - 1 :
           x_shared[c][i] \in {NoValue, c[1] * shape.K + i}
      /\ partial \in [Blocks -> [Tids -> BagType]]
      /\ offset \in [Blocks -> [Warps -> Nat]]
      /\ out = [c \in Cells(shape) |-> out[c]]
  BY DEF KernelInv, KernelTypes
<1>2. UNCHANGED <<shape, status, x_shared>>
  BY DEF Warp, ShuffleDown, StoreRow
<1>3. Blocks' = Blocks /\ BagType' = BagType
  BY <1>2 DEF Blocks, BagType
<1>4. StatusInv'
  BY <1>2, StatusKept
<1>5. CASE ShuffleDown(b, v)
  <2>1. /\ WarpInv' /\ partial' \in [Blocks -> [Tids -> BagType]]
        /\ offset' \in [Blocks -> [Warps -> Nat]]
    BY <1>5, ShuffleWarp
  <2>2. out' = out
    BY <1>5 DEF ShuffleDown
  <2>3. StoredIsVectorPart'
    BY <1>2, <2>2, StoredKept
  <2>4. KernelTypes'
    BY <1>1, <1>2, <1>3, <2>1, <2>2 DEF KernelTypes
  <2> QED BY <1>4, <2>1, <2>3, <2>4 DEF KernelInv
<1>6. CASE StoreRow(b, v)
  <2>1. WarpInv' /\ StoredIsVectorPart'
    BY <1>6, StoreWarp
  <2>2. PICK x : out' = [out EXCEPT ![<<b[1], Row(b, v)>>] = x]
    BY <1>6 DEF StoreRow
  <2>3. out' = [c \in Cells(shape) |-> out'[c]]
    BY <1>1, <2>2
  <2>4. UNCHANGED <<partial, offset>>
    BY <1>6 DEF StoreRow
  <2>5. KernelTypes'
    BY <1>1, <1>2, <1>3, <2>3, <2>4 DEF KernelTypes
  <2> QED BY <1>4, <2>1, <2>5 DEF KernelInv
<1> QED BY <1>5, <1>6 DEF Warp

LEMMA KernelStep == KernelInv /\ [Next]_vars => KernelInv'
<1> SUFFICES ASSUME KernelInv, [Next]_vars PROVE KernelInv'
  OBVIOUS
<1>1. StageInv'
  BY StagingStep DEF KernelInv
<1>2. CASE UNCHANGED vars
  <2>1. UNCHANGED <<shape, x_shared, pc, at, partial, offset, out, status>>
    BY <1>2 DEF vars
  <2>2. StatusInv'
    BY <2>1 DEF KernelInv, StatusInv, Fits, Misaligned, WordOffset, Row, half_k_vec4, Blocks
  <2>3. status \in {"ready", "running", "failed", "trapped"}
    BY DEF KernelInv, KernelTypes
  <2>4. KernelTypes' /\ WarpInv'
    BY <2>1, <2>2, <2>3, StatusStep
  <2>5. StoredIsVectorPart'
    BY <2>1, StoredKept
  <2> QED BY <1>1, <2>2, <2>4, <2>5 DEF KernelInv
<1>3. CASE Launch
  <2>1. /\ UNCHANGED <<shape, x_shared, pc, at, partial, offset, out>> /\ status = "ready"
        /\ status' = IF Fits THEN "running" ELSE "failed"
    BY <1>3 DEF Launch, Launchable, Fits, KernelInv, StageInv, StageTypes
  <2>2. StatusInv'
    <3>1. \A b \in Blocks, t \in Tids : pc[b][t] = "stage"
      BY <2>1 DEF KernelInv, StatusInv
    <3>2. Fits' <=> Fits
      BY <2>1 DEF Fits
    <3>3. Blocks' = Blocks
      BY <2>1 DEF Blocks
    <3> QED BY <2>1, <3>1, <3>2, <3>3 DEF StatusInv
  <2>3. KernelTypes' /\ WarpInv'
    BY <2>1, <2>2, StatusStep
  <2>4. StoredIsVectorPart'
    BY <2>1, StoredKept
  <2> QED BY <1>1, <2>2, <2>3, <2>4 DEF KernelInv
<1>4. CASE Run
  BY <1>1, <1>4, ThreadStep, WarpStep DEF Run
<1>5. CASE Finished
  BY <1>2, <1>5 DEF Finished
<1> QED BY <1>2, <1>3, <1>4, <1>5 DEF Next

LEMMA KernelHolds == Spec => []KernelInv
  BY KernelInit, KernelStep, PTL DEF Spec

-----------------------------------------------------------------------------
LEMMA KernelTypesOK == KernelInv => TypeOK
<1> SUFFICES ASSUME KernelInv PROVE TypeOK
  OBVIOUS
<1>1. /\ shape \in Shapes
      /\ pc \in [Blocks -> [Tids -> {"stage", "multiply", "returned"}]]
      /\ at \in [Blocks -> [Tids -> Nat]]
      /\ x_shared \in [Blocks -> [0 .. shape.K - 1 -> Int \cup {NoValue}]]
  BY DEF KernelInv, StageInv, StageTypes
<1>2. /\ status \in {"ready", "running", "failed", "trapped"}
      /\ partial \in [Blocks -> [Tids -> BagType]]
      /\ offset \in [Blocks -> [Warps -> Nat]] /\ DOMAIN out = Cells(shape)
  BY DEF KernelInv, KernelTypes
<1>3. ASSUME NEW b \in Blocks, NEW i \in 0 .. shape.K - 1
      PROVE  x_shared[b][i] \in (0 .. shape.M * shape.K - 1) \cup {NoValue}
  <2>1. b[1] \in 0 .. shape.M - 1 /\ shape.M \in Nat /\ shape.K \in Nat
    BY <1>1, ShapeIs DEF Blocks
  <2>2. b[1] * shape.K + i \in 0 .. shape.M * shape.K - 1
    BY <2>1, RowMajor
  <2> QED BY <2>2 DEF KernelInv, KernelTypes
<1>4. x_shared \in [Blocks -> [0 .. shape.K - 1 ->
                                 (0 .. shape.M * shape.K - 1) \cup {NoValue}]]
  BY <1>1, <1>3
<1>5. ASSUME NEW b \in Blocks, NEW t \in Tids
      PROVE  IsABag(partial[b][t]) /\ BagToSet(partial[b][t]) \subseteq ProductType(shape)
  <2>1. partial[b][t] \in BagType
    BY <1>2
  <2> QED BY <2>1, BagTypeIs
<1> QED BY <1>1, <1>2, <1>4, <1>5 DEF TypeOK

(* Types: every operand of a product lies in its tensor, for every shape   *)
(* check_inputs accepts and every grid that covers it.                     *)
THEOREM OperandsInTensors == Spec => []TypeOK
  BY KernelHolds, KernelTypesOK, PTL

(* What is stored is the sum of the row's whole words, each product once.  *)
THEOREM StoresVectorPart == Spec => []StoredIsVectorPart
<1>1. KernelInv => StoredIsVectorPart
  BY DEF KernelInv
<1> QED BY <1>1, KernelHolds, PTL

\* The lane that reads a chunk has it behind it when it returns.
LEMMA ReturnedRowAligned ==
    ASSUME KernelInv, status # "trapped", NEW b \in Blocks, NEW v \in Warps, HasRow(b, v),
           \A t \in Tids : pc[b][t] = "returned",
           NEW chunk \in 0 .. half_k_vec4 - 1
    PROVE  (WordOffset(Row(b, v), chunk) % 4) = 0
<1>1. shape \in Shapes /\ half_k_vec4 \in Nat /\ WarpSize \in Nat \ {0} /\ chunk \in Nat
  <2>1. shape \in Shapes
    BY DEF KernelInv, StageInv, StageTypes
  <2> QED BY <2>1, VectorFacts, WidthFacts
<1>2. PICK l \in 0 .. WarpSize - 1 : l = chunk % WarpSize
  BY <1>1, Division
<1>3. PICK t \in Tids : warp_id(t) = v /\ lane(t) = l
  BY PlaceOfLane
<1>4. ThreadOK(b, t, status, "returned", at[b][t], partial[b][t], offset[b][warp_id(t)],
               out[CellOf(b, t)])
  BY DEF KernelInv, WarpInv
<1>5. at[b][t] >= half_k_vec4 /\ AlignedBelow(b, t, at[b][t])
  <2>1. Done("returned", at[b][t]) = at[b][t]
    BY DEF Done
  <2> QED BY <1>3, <1>4, <2>1 DEF ThreadOK
<1>6. at[b][t] \in Nat
  BY DEF KernelInv, StageInv, StageTypes
<1>7. chunk < at[b][t]
  BY <1>1, <1>5, <1>6
<1> QED BY <1>2, <1>3, <1>5, <1>7 DEF AlignedBelow

(* Cells stay uninitialised exactly after a launch that was refused or     *)
(* that met a word off its boundary; no other way out leaves a cell.       *)
THEOREM OnlyRefusedIncomplete == Spec => []CompleteUnlessRefused
<1>1. KernelInv => CompleteUnlessRefused
  <2> SUFFICES ASSUME KernelInv, AllReturned \/ status \in {"failed", "trapped"}
               PROVE  (\A c \in Cells(shape) : out[c] # NoValue) <=>
                        /\ Fits
                        /\ \A n \in 0 .. shape.N - 1, chunk \in 0 .. half_k_vec4 - 1 :
                             (WordOffset(n, chunk) % 4) = 0
    BY DEF CompleteUnlessRefused, Fits
  <2>1. shape \in Shapes /\ 0 \in 0 .. shape.M - 1 /\ 0 \in 0 .. shape.N - 1
    <3>1. shape \in Shapes
      BY DEF KernelInv, StageInv, StageTypes
    <3> QED BY <3>1, ShapeIs
  <2>2. ASSUME NEW b \in Blocks, NEW t \in Tids, HasRow(b, warp_id(t))
        PROVE  /\ CellOf(b, t) \in Cells(shape)
               /\ Row(b, warp_id(t)) \in 0 .. shape.N - 1
               /\ out[CellOf(b, t)] # NoValue <=> pc[b][t] = "returned"
    <3>1. ThreadOK(b, t, status, pc[b][t], at[b][t], partial[b][t], offset[b][warp_id(t)],
                   out[CellOf(b, t)])
      BY DEF KernelInv, WarpInv
    <3>2. warp_id(t) \in Warps
      BY ThreadPlace
    <3> QED BY <2>1, <2>2, <3>1, <3>2, BlockFacts DEF ThreadOK, CellOf
  <2>3. ASSUME NEW m \in 0 .. shape.M - 1, NEW n \in 0 .. shape.N - 1
        PROVE  \E b \in Blocks, t \in Tids :
                 HasRow(b, warp_id(t)) /\ Row(b, warp_id(t)) = n /\ CellOf(b, t) = <<m, n>>
    <3>1. PICK b \in Blocks, v \in Warps : HasRow(b, v) /\ b[1] = m /\ Row(b, v) = n
      BY <2>1, CellPlace
    <3>2. v * WarpSize \in Tids /\ warp_id(v * WarpSize) = v
      BY LanesAre
    <3> QED BY <3>1, <3>2 DEF CellOf
  <2>4. PICK b \in Blocks, t \in Tids : HasRow(b, warp_id(t))
    BY <2>1, <2>3
  <2>5. CASE status \in {"ready", "failed"}
    <3>1. \A c \in Blocks, u \in Tids : pc[c][u] = "stage"
      BY <2>5 DEF KernelInv, StatusInv
    <3>2. ~ AllReturned
      BY <2>4, <3>1 DEF AllReturned
    <3>3. ~ Fits
      BY <2>5, <3>2 DEF KernelInv, StatusInv
    <3>4. ~ (out[CellOf(b, t)] # NoValue) /\ CellOf(b, t) \in Cells(shape)
      BY <2>2, <2>4, <3>1
    <3> QED BY <3>3, <3>4
  <2>6. CASE status = "trapped"
    <3>1. PICK c \in Blocks, u \in Tids : pc[c][u] = "multiply" /\ Misaligned(c, u)
      BY <2>6 DEF KernelInv, StatusInv
    <3>2. HasRow(c, warp_id(u))
      BY <3>1 DEF KernelInv, WarpInv, ThreadOK
    <3>3. ~ (out[CellOf(c, u)] # NoValue) /\ CellOf(c, u) \in Cells(shape)
          /\ Row(c, warp_id(u)) \in 0 .. shape.N - 1
      BY <2>2, <3>1, <3>2
    <3> QED BY <3>1, <3>3 DEF Misaligned
  <2>7. CASE status = "running"
    <3>1. Fits /\ \A c \in Blocks, u \in Tids : pc[c][u] = "returned"
      BY <2>7 DEF KernelInv, StatusInv, AllReturned
    <3>2. ASSUME NEW c \in Cells(shape) PROVE out[c] # NoValue
      <4>1. PICK m \in 0 .. shape.M - 1, n \in 0 .. shape.N - 1 : c = <<m, n>>
        BY DEF Cells
      <4>2. PICK d \in Blocks, u \in Tids : HasRow(d, warp_id(u)) /\ CellOf(d, u) = c
        BY <2>3, <4>1
      <4> QED BY <2>2, <3>1, <4>2
    <3>3. ASSUME NEW n \in 0 .. shape.N - 1, NEW chunk \in 0 .. half_k_vec4 - 1
          PROVE  (WordOffset(n, chunk) % 4) = 0
      <4>1. PICK d \in Blocks, v \in Warps : HasRow(d, v) /\ Row(d, v) = n
        BY <2>1, CellPlace
      <4>2. \A u \in Tids : pc[d][u] = "returned"
        BY <3>1
      <4>3. status # "trapped"
        BY <2>7
      <4> QED BY <4>1, <4>2, <4>3, ReturnedRowAligned
    <3> QED BY <3>1, <3>2, <3>3
  <2> QED BY <2>5, <2>6, <2>7 DEF KernelInv, KernelTypes
<1> QED BY <1>1, KernelHolds, PTL

(* On shapes whose rows are whole words the kernel does what Gemm says:    *)
(* each step stores one cell, not stored before, with the reference's sum  *)
(* of all its products, or stores nothing; a launch that asks for too much *)
(* stores nothing ever.                                                    *)
THEOREM ComputesGemm ==
    ASSUME \A s \in Shapes : (s.K % 8) = 0
    PROVE  Spec => Ref!Init /\ [][Ref!Next]_(Ref!vars)
<1>1. Init => Ref!Init
  BY DEF Init, Ref!Init, Cells, Ref!Cells
<1>2. KernelInv /\ [Next]_vars => [Ref!Next]_(Ref!vars)
  <2> SUFFICES ASSUME KernelInv, [Next]_vars, ~ UNCHANGED <<shape, out>>
               PROVE  Ref!Next
    BY DEF Ref!vars
  <2>1. PICK b \in Blocks, v \in Warps : StoreRow(b, v) /\ status = "running"
    BY DEF Next, vars, Launch, Finished, Run, Thread, Warp, Stage, PassBarrier, Multiply,
           ShuffleDown
  <2>2. status # "trapped"
    BY <2>1
  <2>3. /\ HasRow(b, v) /\ out[<<b[1], Row(b, v)>>] = NoValue
        /\ out' = [out EXCEPT ![<<b[1], Row(b, v)>>] =
                     PartialReference(shape, b[1], Row(b, v), 8 * (shape.K \div 8))]
    BY <2>1, <2>2, StoreWarp
  <2>4. shape \in Shapes /\ shape' = shape
    BY <2>1 DEF KernelInv, StageInv, StageTypes, StoreRow
  <2>5. 8 * (shape.K \div 8) = shape.K
    <3>1. shape.K \in Nat /\ (shape.K % 8) = 0
      BY <2>4, ShapeIs
    <3> QED BY <3>1
  <2>6. b[1] \in 0 .. shape.M - 1 /\ Row(b, v) \in 0 .. shape.N - 1
    BY <2>3, <2>4, BlockFacts
  <2>7. Ref!Reference(shape, b[1], Row(b, v))
          = PartialReference(shape, b[1], Row(b, v), shape.K)
    <3>1. \A m, n, i : Ref!ReferenceProduct(shape, m, n, i) = ReferenceProduct(shape, m, n, i)
      BY DEF Ref!ReferenceProduct, ReferenceProduct, Ref!Product, Product,
             Ref!HalfK, HalfK, Ref!Groups, Groups
    <3> QED BY <3>1 DEF Ref!Reference, Ref!PartialReference, PartialReference,
                        Ref!SetToBag, SetToBag
  <2>8. Ref!Store(b[1], Row(b, v))
    BY <2>3, <2>4, <2>5, <2>7 DEF Ref!Store
  <2>9. shape \in Launchable
    BY <2>1, <2>4 DEF KernelInv, StatusInv, Fits, Launchable
  <2> QED BY <2>6, <2>8, <2>9 DEF Ref!Next
<1> QED BY <1>1, <1>2, KernelHolds, PTL DEF Spec

-----------------------------------------------------------------------------
(* The whole matrix dequantized, with ints that wrap around.               *)

\* The prover knows powers of two by the sets that have so many subsets.
LEMMA PowerOfTwo ==
    ASSUME NEW n \in Nat
    PROVE  2 ^ n \in Nat \ {0} /\ (n # 0 => 2 ^ n >= 2)
<1> DEFINE S == 1 .. n
<1>1. IsFiniteSet(S) /\ Cardinality(S) = n
  BY FS_Interval
<1>2. IsFiniteSet(SUBSET S) /\ Cardinality(SUBSET S) = 2 ^ n
  BY <1>1, FS_SUBSET
<1>3. 2 ^ n \in Nat
  BY <1>2, FS_CardinalityType
<1>4. 2 ^ n # 0
  <2>1. {} \in SUBSET S
    OBVIOUS
  <2> HIDE DEF S
  <2> QED BY <1>2, <2>1, FS_EmptySet
<1>5. ASSUME n # 0 PROVE 2 ^ n # 1
  <2>1. {} \in SUBSET S /\ {1} \in SUBSET S /\ {} # {1}
    BY <1>5
  <2> HIDE DEF S
  <2>2. ASSUME NEW e, SUBSET S = {e} PROVE FALSE
    <3>1. {} = e /\ {1} = e
      BY <2>1, <2>2
    <3> QED BY <2>1, <3>1
  <2> QED BY <1>2, <2>2, FS_Singleton
<1> QED BY <1>3, <1>4, <1>5

LEMMA IntLimitPositive == IntLimit \in Nat \ {0}
<1>1. Width - 1 \in Nat
  BY WidthAssumption DEF Positive
<1> QED BY <1>1, PowerOfTwo DEF IntLimit

\* What a computation that goes beyond the largest int leaves behind.
LEMMA WrapIs ==
    ASSUME NEW x \in Int, - IntLimit <= x
    PROVE  /\ Wrap(x) \in Int /\ Wrap(x) <= x /\ - IntLimit <= Wrap(x) /\ Wrap(x) < IntLimit
           /\ x < IntLimit => Wrap(x) = x
           /\ x >= IntLimit => Wrap(x) <= x - 2 * IntLimit
<1>1. PICK l \in Nat \ {0} : l = IntLimit
  BY IntLimitPositive
<1>2. PICK y \in Nat : y = x + l
  BY <1>1
<1>3. PICK a \in Nat, r \in 0 .. (2 * l) - 1 : y = (2 * l) * a + r /\ r = y % (2 * l)
  <2>1. 2 * l \in Nat \ {0}
    OBVIOUS
  <2> QED BY <2>1, Division
<1>4. Wrap(x) = r - l
  BY <1>1, <1>2, <1>3 DEF Wrap
<1>5. CASE a = 0
  BY <1>1, <1>2, <1>3, <1>4, <1>5
<1>6. CASE a >= 1
  <2>1. (2 * l) * a >= 2 * l /\ (2 * l) * a \in Nat
    BY <1>6
  <2> QED BY <1>1, <1>2, <1>3, <1>4, <2>1
<1> QED BY <1>5, <1>6

LEMMA QuotientIs ==
    ASSUME NEW x \in Int, NEW d \in Nat \ {0}
    PROVE  /\ Quotient(x, d) \in Int /\ Quotient(x, d) * d \in Int
           /\ Quotient(x, d) > 0 => Quotient(x, d) * d <= x
           /\ x >= d => Quotient(x, d) > 0 /\ x < Quotient(x, d) * d + d
<1>1. CASE x < 0
  <2>1. PICK y \in Nat : y = - x
    BY <1>1
  <2>2. PICK a \in Nat : a = y \div d
    BY Division
  <2>3. Quotient(x, d) = - a
    BY <1>1, <2>1, <2>2 DEF Quotient
  <2>4. PICK q0 \in Int : q0 = - a /\ q0 = Quotient(x, d)
    BY <2>3
  <2>5. q0 * d \in Int /\ ~ (q0 > 0) /\ ~ (x >= d)
    BY <1>1, <2>4
  <2> QED BY <2>4, <2>5
<1>2. CASE x >= 0
  <2>1. PICK a \in Nat, r \in 0 .. d - 1 : x = d * a + r /\ a = x \div d
    BY <1>2, Division
  <2>2. Quotient(x, d) = a
    BY <1>2, <2>1 DEF Quotient
  <2>3. PICK p \in Nat : p = d * a /\ p = a * d
    OBVIOUS
  <2>4. x >= d => a > 0
    <3>1. a = 0 => p = 0
      BY <2>3
    <3> QED BY <2>1, <2>3, <3>1
  <2>5. p <= x /\ x < p + d
    BY <2>1, <2>3
  <2>6. Quotient(x, d) \in Int /\ Quotient(x, d) * d = p
    BY <2>2, <2>3
  <2> QED BY <2>2, <2>4, <2>5, <2>6
<1> QED BY <1>1, <1>2

(* A grid that was launched has a thread for every element, or leaves the  *)
(* last one out.                                                           *)
LEMMA GridCovers ==
    ASSUME matrix \in Matrices, NEW size, size = matrix.N * matrix.K
    PROVE  /\ size \in Nat \ {0} /\ total \in Int /\ total <= size
           /\ grid \in Int /\ grid * Block \in Int
           /\ size + Block - 1 < IntLimit =>
                grid > 0 /\ total = size /\ size <= grid * Block
           /\ size + Block - 1 >= IntLimit /\ grid > 0 =>
                total < size \/ grid * Block < size
<1>1. size \in Nat \ {0} /\ Block \in Nat \ {0} /\ IntLimit \in Nat \ {0}
  BY MatricesAssumption, WidthAssumption, IntLimitPositive DEF Positive
<1>2. PICK d \in Nat \ {0}, l \in Nat \ {0} : d = Block /\ l = IntLimit
  BY <1>1
<1>3. /\ total \in Int /\ total <= size /\ - l <= total /\ total < l
      /\ size < l => total = size
      /\ size >= l => total < size
  <2>1. total = Wrap(size)
    BY DEF total
  <2> QED BY <1>1, <1>2, <2>1, WrapIs
<1>4. PICK x \in Int : x = total + (d - 1)
  BY <1>3
<1>5. PICK y \in Int : y = Wrap(x)
  BY <1>2, <1>3, <1>4, WrapIs
<1>6. y <= x /\ (x < l => y = x) /\ (x >= l => y <= x - 2 * l) /\ y < l
  BY <1>2, <1>3, <1>4, <1>5, WrapIs
<1>7. grid = Quotient(y, d)
  <2>1. total + Block - 1 = x
    BY <1>2, <1>3, <1>4
  <2> QED BY <1>2, <1>5, <2>1 DEF grid
<1>8. /\ grid \in Int /\ grid * d \in Int
      /\ grid > 0 => grid * d <= y
      /\ y >= d => grid > 0 /\ y < grid * d + d
  BY <1>7, QuotientIs
<1>9. size + (d - 1) < l => grid > 0 /\ total = size /\ size <= grid * d
  <2> SUFFICES ASSUME size + (d - 1) < l PROVE grid > 0 /\ total = size /\ size <= grid * d
    OBVIOUS
  <2>1. total = size /\ y = size + (d - 1)
    BY <1>1, <1>3, <1>4, <1>6
  <2> QED BY <1>1, <1>8, <2>1
<1>10. size + (d - 1) >= l /\ grid > 0 => total < size \/ grid * d < size
  <2> SUFFICES ASSUME size + (d - 1) >= l, grid > 0, total >= size PROVE grid * d < size
    BY <1>1, <1>3, <1>8
  <2>1. total = size /\ x >= l
    BY <1>1, <1>3, <1>4
  <2>2. grid * d >= d
    BY <1>8
  <2> QED BY <1>1, <1>3, <1>4, <1>6, <1>8, <2>1, <2>2
<1>11. size + Block - 1 = size + (d - 1)
  BY <1>1, <1>2
<1> QED BY <1>1, <1>2, <1>3, <1>8, <1>9, <1>10, <1>11

-----------------------------------------------------------------------------
\* An element a thread of the launch has stored, the launch being in l and
\* the threads in left not having run.
Filled(i, l, left) ==
    l = "running" /\ i \in 0 .. grid * Block - 1 /\ i \notin left /\ HasElement(i)

Stored(l, left) ==
    [i \in 0 .. matrix.N * matrix.K - 1 |->
       IF Filled(i, l, left) THEN OperandsAt(i) ELSE NoValue]

DequantInv ==
    /\ matrix \in Matrices
    /\ launch \in {"ready", "running", "failed"}
    /\ todo \subseteq 0 .. grid * Block - 1
    /\ launch = "running" => grid > 0
    /\ launch = "failed" => ~ (grid > 0)
    /\ w_out = Stored(launch, todo)

LEMMA MatrixKept ==
    ASSUME UNCHANGED matrix
    PROVE  /\ grid' = grid
           /\ \A l, left : Stored(l, left)' = Stored(l, left)
<1>1. grid' = grid /\ total' = total
  BY DEF grid, total
<1>2. \A i : OperandsAt(i)' = OperandsAt(i)
  BY DEF OperandsAt, Operands, HalfK, Groups
<1>3. \A i, l, left : Filled(i, l, left)' <=> Filled(i, l, left)
  BY <1>1 DEF Filled, HasElement
<1>4. matrix' = matrix
  OBVIOUS
<1> QED BY <1>1, <1>2, <1>3, <1>4 DEF Stored

LEMMA DequantStarts == DequantInit => DequantInv
<1> SUFFICES ASSUME DequantInit PROVE DequantInv
  OBVIOUS
<1>1. \A i : ~ Filled(i, "ready", {})
  BY DEF Filled
<1>2. Stored("ready", {}) = [i \in 0 .. matrix.N * matrix.K - 1 |-> NoValue]
  BY <1>1 DEF Stored
<1> QED BY <1>2 DEF DequantInit, DequantInv

LEMMA DequantLaunchStep == DequantInv /\ DequantLaunch => DequantInv'
<1> SUFFICES ASSUME DequantInv, DequantLaunch PROVE DequantInv'
  OBVIOUS
<1>1. /\ launch = "ready" /\ UNCHANGED <<matrix, w_out>>
      /\ launch' = IF grid > 0 THEN "running" ELSE "failed"
      /\ todo' = 0 .. grid * Block - 1
  BY DEF DequantLaunch
<1>2. grid' = grid /\ \A l, left : Stored(l, left)' = Stored(l, left)
  BY <1>1, MatrixKept
<1>3. \A i : ~ Filled(i, launch, todo) /\ ~ Filled(i, launch', todo')
  BY <1>1 DEF Filled
<1>4. Stored(launch', todo') = Stored(launch, todo)
  BY <1>3 DEF Stored
<1>5. w_out' = Stored(launch, todo)'
  <2>1. w_out' = Stored(launch', todo')
    BY <1>1, <1>4 DEF DequantInv
  <2>2. PICK l, left : l = launch' /\ left = todo'
    OBVIOUS
  <2> QED BY <1>2, <2>1, <2>2
<1>6. /\ matrix' \in Matrices /\ launch' \in {"ready", "running", "failed"}
      /\ todo' \subseteq 0 .. grid' * Block - 1
      /\ launch' = "running" => grid' > 0
      /\ launch' = "failed" => ~ (grid' > 0)
  BY <1>1, <1>2 DEF DequantInv
<1> QED BY <1>5, <1>6 DEF DequantInv

LEMMA DequantThreadStep ==
    ASSUME DequantInv, NEW idx \in todo, DequantThread(idx)
    PROVE  DequantInv'
<1>1. /\ launch = "running" /\ UNCHANGED <<matrix, launch>> /\ todo' = todo \ {idx}
      /\ w_out' = IF HasElement(idx)
                  THEN [i \in DOMAIN w_out \cup {idx} |->
                          IF i = idx THEN OperandsAt(idx) ELSE w_out[i]]
                  ELSE w_out
  BY DEF DequantThread
<1>2. grid' = grid /\ \A l, left : Stored(l, left)' = Stored(l, left)
  BY <1>1, MatrixKept
<1>3. PICK size \in Nat \ {0} : size = matrix.N * matrix.K
  BY GridCovers DEF DequantInv
<1>4. total \in Int /\ total <= size
  BY <1>3, GridCovers DEF DequantInv
<1>5. grid * Block \in Int
  BY <1>3, GridCovers DEF DequantInv
<1>6. idx \in 0 .. grid * Block - 1
  BY DEF DequantInv
<1>7. \A i : i # idx => (Filled(i, launch, todo \ {idx}) <=> Filled(i, launch, todo))
  BY DEF Filled
<1>8. ~ Filled(idx, launch, todo) /\ (Filled(idx, launch, todo \ {idx}) <=> HasElement(idx))
  BY <1>1, <1>6 DEF Filled
<1>9. w_out = [i \in 0 .. size - 1 |->
                 IF Filled(i, launch, todo) THEN OperandsAt(i) ELSE NoValue]
  BY <1>3 DEF DequantInv, Stored
<1>10. Stored(launch, todo \ {idx})
         = [i \in 0 .. size - 1 |->
              IF Filled(i, launch, todo \ {idx}) THEN OperandsAt(i) ELSE NoValue]
  BY <1>3 DEF Stored
<1>11. w_out' = Stored(launch, todo \ {idx})
  <2>1. CASE HasElement(idx)
    <3>1. idx \in 0 .. size - 1
      BY <1>4, <1>5, <1>6, <2>1 DEF HasElement
    <3>2. w_out' = [i \in 0 .. size - 1 |-> IF i = idx THEN OperandsAt(idx) ELSE w_out[i]]
      <4>1. DOMAIN w_out \cup {idx} = 0 .. size - 1
        BY <1>9, <3>1
      <4> QED BY <1>1, <2>1, <4>1
    <3>3. \A i \in 0 .. size - 1 :
            (IF i = idx THEN OperandsAt(idx) ELSE w_out[i])
              = IF Filled(i, launch, todo \ {idx}) THEN OperandsAt(i) ELSE NoValue
      BY <1>7, <1>8, <1>9, <2>1
    <3> QED BY <1>10, <3>2, <3>3
  <2>2. CASE ~ HasElement(idx)
    <3>1. \A i : Filled(i, launch, todo \ {idx}) <=> Filled(i, launch, todo)
      BY <1>7, <1>8, <2>2
    <3> QED BY <1>1, <1>9, <1>10, <2>2, <3>1
  <2> QED BY <2>1, <2>2
<1>12. w_out' = Stored(launch, todo)'
  <2>1. PICK l, left : l = launch' /\ left = todo'
    OBVIOUS
  <2> QED BY <1>1, <1>2, <1>11, <2>1
<1>13. /\ matrix' \in Matrices /\ launch' \in {"ready", "running", "failed"}
       /\ todo' \subseteq 0 .. grid' * Block - 1
       /\ launch' = "running" => grid' > 0
       /\ launch' = "failed" => ~ (grid' > 0)
  BY <1>1, <1>2 DEF DequantInv
<1> QED BY <1>12, <1>13 DEF DequantInv

LEMMA DequantStep == DequantInv /\ [DequantNext]_dequant_vars => DequantInv'
<1> SUFFICES ASSUME DequantInv, [DequantNext]_dequant_vars PROVE DequantInv'
  OBVIOUS
<1>1. CASE UNCHANGED dequant_vars
  <2>1. UNCHANGED <<matrix, launch, todo, w_out>>
    BY <1>1 DEF dequant_vars
  <2>2. grid' = grid /\ \A l, left : Stored(l, left)' = Stored(l, left)
    BY <2>1, MatrixKept
  <2>3. Stored(launch, todo)' = Stored(launch, todo)
    <3>1. PICK l, left : l = launch' /\ left = todo'
      OBVIOUS
    <3> QED BY <2>1, <2>2, <3>1
  <2> QED BY <2>1, <2>2, <2>3 DEF DequantInv
<1> QED BY <1>1, DequantLaunchStep, DequantThreadStep DEF DequantNext, DequantFinished

LEMMA DequantInvHolds == DequantSpec => []DequantInv
  BY DequantStarts, DequantStep, PTL DEF DequantSpec

(* No thread stores outside the matrix, however the sizes of matrix, block *)
(* and int are related (dequant_only_kernel's idx < total).                *)
LEMMA DequantTypes == DequantInv => DequantTypeOK
<1> SUFFICES ASSUME DequantInv PROVE DequantTypeOK
  OBVIOUS
<1>1. matrix \in Matrices /\ launch \in {"ready", "running", "failed"}
      /\ todo \subseteq 0 .. grid * Block - 1
  BY DEF DequantInv
<1>2. DOMAIN w_out = 0 .. matrix.N * matrix.K - 1
  BY DEF DequantInv, Stored
<1>3. grid * Block \in Int
  BY <1>1, GridCovers
<1> QED BY <1>1, <1>2, <1>3 DEF DequantTypeOK

(* A thread stores only inside the matrix, whatever its flat index wraps   *)
(* to (dequant_only_kernel).                                               *)
THEOREM StoresInsideMatrix == DequantSpec => []DequantTypeOK
  BY DequantInvHolds, DequantTypes, PTL

\* The thread of flat index i finds its row and column.
LEMMA OperandsOf ==
    ASSUME matrix \in Matrices,
           NEW n \in 0 .. matrix.N - 1, NEW k \in 0 .. matrix.K - 1
    PROVE  /\ n * matrix.K + k \in 0 .. matrix.N * matrix.K - 1
           /\ OperandsAt(n * matrix.K + k) = Operands(n, k)
           /\ Operands(n, k) # NoValue
<1>1. /\ matrix.N \in Nat \ {0} /\ matrix.K \in Nat \ {0} /\ matrix.group_size \in Nat \ {0}
  BY MatricesAssumption DEF Positive
<1>2. n \in Nat /\ k \in Nat
  BY <1>1
<1>3. n * matrix.K + k \in 0 .. matrix.N * matrix.K - 1
  BY <1>1, RowMajor
<1>4. (n * matrix.K + k) \div matrix.K = n /\ ((n * matrix.K + k) % matrix.K) = k
  <2>1. PICK d \in Nat \ {0} : d = matrix.K
    BY <1>1
  <2>2. n * d = d * n
    BY <1>2
  <2>3. (d * n + k) \div d = n /\ ((d * n + k) % d) = k
    BY <1>2, <2>1, DivisionIs
  <2> QED BY <2>1, <2>2, <2>3
<1>5. Operands(n, k) \in [byte : Nat, nibble : {0, 1}, scale : Nat]
  <2>1. HalfK(matrix) \in Nat /\ k \div 2 \in Nat /\ (k % 2) \in {0, 1}
    <3>1. PICK d \in Nat : d = matrix.K
      BY <1>1
    <3>2. d \div 2 \in Nat
      OBVIOUS
    <3> QED BY <1>2, <3>1, <3>2 DEF HalfK
  <2>2. Groups(matrix) \in Nat /\ k \div matrix.group_size \in Nat
    BY <1>1, <1>2, Division DEF Groups
  <2>3. n * HalfK(matrix) + k \div 2 \in Nat
    BY <1>2, <2>1
  <2>4. n * Groups(matrix) + k \div matrix.group_size \in Nat
    BY <1>2, <2>2
  <2> QED BY <2>1, <2>3, <2>4 DEF Operands
<1> QED BY <1>3, <1>4, <1>5, ElementAssumption DEF OperandsAt

(* The matrix is whole at the end exactly when its size, rounded up to     *)
(* blocks, is an int.                                                      *)
THEOREM WholeUpToIntLimit == DequantSpec => []WholeIfItFits
<1>1. DequantInv => WholeIfItFits
  <2> SUFFICES ASSUME DequantInv, Ended
               PROVE  (\A n \in 0 .. matrix.N - 1, k \in 0 .. matrix.K - 1 :
                         IsReference(n, k))
                        <=> matrix.N * matrix.K + Block - 1 < IntLimit
    BY DEF WholeIfItFits
  <2>1. matrix \in Matrices /\ matrix.N \in Nat \ {0} /\ matrix.K \in Nat \ {0}
    BY MatricesAssumption DEF DequantInv, Positive
  <2>2. PICK size \in Nat \ {0} : size = matrix.N * matrix.K
    BY <2>1, GridCovers
  <2>3. /\ total \in Int /\ grid * Block \in Int /\ grid \in Int
        /\ size + Block - 1 < IntLimit => grid > 0 /\ total = size /\ size <= grid * Block
        /\ size + Block - 1 >= IntLimit /\ grid > 0 => total < size \/ grid * Block < size
    BY <2>1, <2>2, GridCovers
  <2>4. ASSUME NEW n \in 0 .. matrix.N - 1, NEW k \in 0 .. matrix.K - 1
        PROVE  IsReference(n, k) <=> Filled(n * matrix.K + k, launch, todo)
    <3> DEFINE i == n * matrix.K + k
    <3>1. i \in 0 .. matrix.N * matrix.K - 1 /\ OperandsAt(i) = Operands(n, k)
          /\ Operands(n, k) # NoValue
      BY <2>1, OperandsOf
    <3>2. w_out[i] = IF Filled(i, launch, todo) THEN Operands(n, k) ELSE NoValue
      BY <3>1 DEF DequantInv, Stored
    <3>3. /\ Operands(n, k).byte = ReferenceProduct(matrix, 0, n, k).byte
          /\ Operands(n, k).nibble = ReferenceProduct(matrix, 0, n, k).nibble
          /\ Operands(n, k).scale = ReferenceProduct(matrix, 0, n, k).scale
      BY DEF Operands, ReferenceProduct, Product
    <3>4. IsReference(n, k) <=>
            /\ w_out[i] # NoValue
            /\ w_out[i].byte = ReferenceProduct(matrix, 0, n, k).byte
            /\ w_out[i].nibble = ReferenceProduct(matrix, 0, n, k).nibble
            /\ w_out[i].scale = ReferenceProduct(matrix, 0, n, k).scale
      BY DEF IsReference
    <3> HIDE DEF i
    <3>5. IsReference(n, k) <=> Filled(i, launch, todo)
      BY <3>1, <3>2, <3>3, <3>4
    <3> QED BY <3>5 DEF i
  <2>5. CASE size + Block - 1 < IntLimit
    <3>1. launch = "running" /\ todo = {}
      BY <2>3, <2>5 DEF DequantInv, Ended
    <3>2. \A i \in 0 .. size - 1 : Filled(i, launch, todo)
      BY <2>3, <2>5, <3>1 DEF Filled, HasElement
    <3>3. \A n \in 0 .. matrix.N - 1, k \in 0 .. matrix.K - 1 : IsReference(n, k)
      BY <2>1, <2>2, <2>4, <3>2, OperandsOf
    <3> QED BY <2>2, <2>5, <3>3
  <2>6. CASE ~ (size + Block - 1 < IntLimit)
    <3>1. size + Block - 1 >= IntLimit
      BY <2>6, IntLimitPositive, WidthAssumption DEF Positive
    <3>2. PICK n \in 0 .. matrix.N - 1, k \in 0 .. matrix.K - 1 :
            n * matrix.K + k = size - 1
      <4>1. PICK h \in Nat \ {0}, d \in Nat \ {0} : h = matrix.N /\ d = matrix.K
        BY <2>1
      <4>2. (h - 1) * d + (d - 1) = h * d - 1
        <5>1. (h - 1) * d = h * d - d /\ h * d \in Nat
          OBVIOUS
        <5> QED BY <5>1
      <4>3. h - 1 \in 0 .. h - 1 /\ d - 1 \in 0 .. d - 1
        OBVIOUS
      <4> QED BY <2>2, <4>1, <4>2, <4>3
    <3>3. ~ Filled(size - 1, launch, todo)
      <4>1. CASE launch = "running"
        <5>1. total < size \/ grid * Block < size
          BY <2>3, <3>1, <4>1 DEF DequantInv
        <5> QED BY <2>3, <5>1 DEF Filled, HasElement
      <4> QED BY <4>1 DEF Filled
    <3>4. ~ IsReference(n, k)
      BY <2>4, <3>2, <3>3
    <3> QED BY <2>2, <2>6, <3>4
  <2> QED BY <2>5, <2>6
<1> QED BY <1>1, DequantInvHolds, PTL

-----------------------------------------------------------------------------
(* Quantization.  Everything about rounding follows from one fact, that a  *)
(* code is a nearest integer (RoundedIsNearest).                           *)

\* A rounded magnitude is a nearest integer to 7 a / max, and at most 7.
LEMMA RoundedIsNearest ==
    ASSUME NEW max \in Nat \ {0}, NEW a \in 0 .. max, NEW up \in BOOLEAN
    PROVE  /\ RoundedCode(a, max, up) \in 0 .. 7
           /\ 2 * (max * RoundedCode(a, max, up)) <= 14 * a + max
           /\ 14 * a - max <= 2 * (max * RoundedCode(a, max, up))
<1> DEFINE x == 14 * a + max
           d == 2 * max
           n == x \div d
           c == RoundedCode(a, max, up)
<1>1. x \in Nat /\ d \in Nat \ {0}
  OBVIOUS
<1>2. n \in Nat /\ (x % d) \in 0 .. d - 1 /\ x = d * n + (x % d)
  BY <1>1, Division
<1>3. c = n \/ (x % d = 0 /\ c = n - 1)
  BY DEF RoundedCode
<1> HIDE DEF n, c
<1>4. max * n \in Nat /\ d * n = 2 * (max * n)
  BY <1>2
<1>5. n <= 7
  <2> SUFFICES ASSUME n >= 8 PROVE FALSE
    BY <1>2
  <2>1. max * n >= max * 8
    BY <1>2
  <2> QED BY <2>1, <1>2, <1>4
<1>6. CASE c = n
  BY <1>2, <1>4, <1>5, <1>6 DEF c
<1>7. CASE x % d = 0 /\ c = n - 1
  <2>1. x = 2 * (max * n)
    BY <1>2, <1>4, <1>7
  <2>2. n # 0
    <3> SUFFICES ASSUME n = 0 PROVE FALSE
      OBVIOUS
    <3>1. max * n = 0
      OBVIOUS
    <3> QED BY <2>1, <3>1
  <2>3. max * c = max * n - max
    BY <1>2, <1>7
  <2> QED BY <1>2, <1>4, <1>5, <1>7, <2>1, <2>2, <2>3 DEF c
<1> QED BY <1>3, <1>6, <1>7

\* The same of a signed weight; the clamp does nothing.
LEMMA CodeIsNearest ==
    ASSUME NEW max \in Nat, NEW v \in Int, -max <= v, v <= max,
           NEW up \in BOOLEAN
    PROVE  /\ Code(v, max, up) \in -7 .. 7
           /\ 2 * (max * Code(v, max, up)) <= 14 * v + max
           /\ 14 * v - max <= 2 * (max * Code(v, max, up))
           /\ Code(-v, max, up) = - Code(v, max, up)
<1>1. CASE max = 0
  <2>1. v = 0 /\ -v = 0
    BY <1>1
  <2>2. Code(v, max, up) = 0 /\ Code(-v, max, up) = 0
    BY <1>1 DEF Code
  <2> QED BY <1>1, <2>1, <2>2
<1>2. CASE max > 0 /\ v < 0
  <2> DEFINE c == RoundedCode(-v, max, up)
  <2>1. /\ c \in 0 .. 7 /\ 2 * (max * c) <= 14 * (-v) + max
        /\ 14 * (-v) - max <= 2 * (max * c)
    BY <1>2, RoundedIsNearest
  <2>2. Code(v, max, up) = -c /\ Code(-v, max, up) = c
    BY <1>2, <2>1 DEF Code, Clamp
  <2> HIDE DEF c
  <2>3. max * (-c) = - (max * c) /\ max * c \in Int
    BY <2>1
  <2> QED BY <1>2, <2>1, <2>2, <2>3
<1>3. CASE max > 0 /\ v = 0
  <2> DEFINE c == RoundedCode(0, max, up)
  <2>1. c \in 0 .. 7 /\ 2 * (max * c) <= max
    BY <1>3, RoundedIsNearest
  <2> HIDE DEF c
  <2>2. c = 0
    BY <1>3, <2>1
  <2>6. \A z \in Int : z >= 0 /\ z <= 0 => -z = z
    OBVIOUS
  <2>3. v = 0 /\ -v = 0
    <3>1. v >= 0 /\ v <= 0
      BY <1>3
    <3>2. -v = v
      BY <2>6, <3>1
    <3> QED BY <1>3, <3>2
  <2>5. RoundedCode(v, max, up) = 0
    BY <2>2, <2>3 DEF c
  <2>4. Code(v, max, up) = 0 /\ Code(-v, max, up) = 0
    BY <1>3, <2>3, <2>5 DEF Code, Clamp
  <2> QED BY <1>3, <2>3, <2>4
<1>4. CASE max > 0 /\ v > 0
  <2> DEFINE c == RoundedCode(v, max, up)
  <2>1. /\ c \in 0 .. 7 /\ 2 * (max * c) <= 14 * v + max
        /\ 14 * v - max <= 2 * (max * c)
    BY <1>4, RoundedIsNearest
  <2>2. ASSUME NEW m \in Int, m = -v PROVE Code(m, max, up) = -c
    <3>1. -m = v /\ m < 0
      BY <1>4, <2>2
    <3>2. RoundedCode(-m, max, up) = c
      BY <3>1
    <3> QED BY <1>4, <2>1, <3>1, <3>2 DEF Code, Clamp
  <2>3. Code(v, max, up) = c /\ Code(-v, max, up) = -c
    BY <1>4, <2>1, <2>2 DEF Code, Clamp
  <2> QED BY <1>4, <2>1, <2>3
<1> QED BY <1>1, <1>2, <1>3, <1>4

\* Codes are in the order of the weights.
LEMMA CodeIsMonotone ==
    ASSUME NEW max \in Nat, NEW up \in BOOLEAN,
           NEW v \in Int, -max <= v, v <= max,
           NEW u \in Int, -max <= u, u <= max, v <= u
    PROVE  Code(v, max, up) <= Code(u, max, up)
<1> DEFINE c == Code(v, max, up)
           d == Code(u, max, up)
<1>1. /\ c \in Int /\ d \in Int
      /\ 2 * (max * c) <= 14 * v + max
      /\ 14 * u - max <= 2 * (max * d)
  <2>1. c \in -7 .. 7 /\ 2 * (max * c) <= 14 * v + max
    BY CodeIsNearest
  <2>2. d \in -7 .. 7 /\ 14 * u - max <= 2 * (max * d)
    BY CodeIsNearest
  <2> HIDE DEF c, d
  <2> QED BY <2>1, <2>2
<1>2. CASE v = u
  BY <1>1, <1>2
<1>3. CASE v < u
  <2> HIDE DEF c, d
  <2> SUFFICES ASSUME c >= d + 1 PROVE FALSE
    BY <1>1 DEF c, d
  <2>1. max * c >= max * d + max /\ max * c \in Int /\ max * d \in Int
    <3>1. max * (c - d) >= max * 1
      BY <1>1
    <3> QED BY <1>1, <3>1
  <2> QED BY <1>1, <1>3, <2>1
<1> QED BY <1>2, <1>3

\* A scale is within half a unit of the quotient it stores.
LEMMA ScaleIsNear ==
    ASSUME NEW v \in Weights
    PROVE  /\ Ulp(Abs(v)) \in Nat \ {0}
           /\ StoredScale(Abs(v)) \in Nat
           /\ 2 * Abs(v) - 7 * Ulp(Abs(v)) <= 14 * StoredScale(Abs(v))
           /\ 14 * StoredScale(Abs(v)) <= 2 * Abs(v) + 7 * Ulp(Abs(v))
<1> DEFINE a == Abs(v)
           u == Ulp(a)
           x == 2 * a + 7 * u
           d == 14 * u
           n == x \div d
           m == IF x % d = 0 /\ n % 2 = 1 THEN n - 1 ELSE n
<1>1. a \in Nat
  BY WeightAssumption DEF Abs
<1>2. u \in Nat \ {0}
  BY ScaleAssumption DEF Ulp
<1>3. StoredScale(a) = u * m
  BY DEF StoredScale
<1> HIDE DEF a, u
<1>4. x \in Nat /\ d \in Nat \ {0}
  BY <1>1, <1>2
<1>5. n \in Nat /\ (x % d) \in 0 .. d - 1 /\ x = d * n + (x % d)
  BY <1>4, Division
<1> HIDE DEF n
<1>6. u * n \in Nat /\ d * n = 14 * (u * n)
  BY <1>2, <1>5
<1>7. CASE x % d = 0 /\ n % 2 = 1
  <2>1. n >= 1 /\ m = n - 1
    BY <1>5, <1>7
  <2>2. u * m = u * n - u /\ u * m \in Nat
    BY <1>2, <1>5, <2>1
  <2> HIDE DEF m
  <2>4. x = 14 * (u * n)
    BY <1>5, <1>6, <1>7
  <2>3. 14 * (u * m) = 2 * a - 7 * u
    BY <1>1, <1>2, <1>6, <2>2, <2>4
  <2> QED BY <1>1, <1>2, <1>3, <2>2, <2>3 DEF a, u
<1>8. CASE ~ (x % d = 0 /\ n % 2 = 1)
  <2>1. m = n
    BY <1>8
  <2> HIDE DEF m
  <2>2. 2 * a - 7 * u <= 14 * (u * m) /\ 14 * (u * m) <= 2 * a + 7 * u
    BY <1>1, <1>2, <1>5, <1>6, <2>1
  <2> QED BY <1>1, <1>2, <1>3, <1>6, <2>1, <2>2 DEF a, u
<1> QED BY <1>7, <1>8

\* A scale is stored as 0 up to three units.
LEMMA ScaleOfTiny ==
    ASSUME NEW v \in Weights
    PROVE  StoredScale(Abs(v)) = 0 <=> Abs(v) <= 3
<1> DEFINE a == Abs(v)
           u == Ulp(a)
           x == 2 * a + 7 * u
           d == 14 * u
           n == x \div d
<1>1. a \in Nat
  BY WeightAssumption DEF Abs
<1>2. u \in Nat \ {0} /\ (u > 1 => 14 * u <= 2 * a)
  <2>1. u \in Nat \ {0} /\ IsUlp(u, a)
    BY ScaleAssumption DEF Ulp
  <2> HIDE DEF u, a
  <2>2. PICK p \in Nat : p = 2 ^ Precision /\ p >= 2
    BY PrecisionAssumption, PowerOfTwo
  <2>3. u > 1 => 7 * p * u <= 2 * a
    BY <2>1, <2>2 DEF IsUlp
  <2>4. p * u >= 2 * u /\ 7 * p * u = 7 * (p * u) /\ p * u \in Nat
    BY <2>1, <2>2
  <2> QED BY <1>1, <2>1, <2>3, <2>4
<1>3. StoredScale(a) = u * (IF x % d = 0 /\ n % 2 = 1 THEN n - 1 ELSE n)
  BY DEF StoredScale
<1> HIDE DEF a, u
<1>4. x \in Nat /\ d \in Nat \ {0}
  BY <1>1, <1>2
<1>5. n \in Nat /\ (x % d) \in 0 .. d - 1 /\ x = d * n + (x % d)
  BY <1>4, Division
<1> HIDE DEF n
<1>6. CASE a <= 3
  <2>1. u = 1 /\ d = 14 /\ x < d
    BY <1>1, <1>2, <1>6
  <2>2. n = 0
    <3>1. x = 14 * n + (x % d)
      BY <1>5, <2>1
    <3> QED BY <1>4, <1>5, <2>1, <3>1
  <2>3. StoredScale(a) = 0
    BY <1>2, <1>3, <2>2
  <2> QED BY <1>6, <2>3 DEF a
<1>7. CASE a > 3
  <2>1. x > d
    BY <1>1, <1>2, <1>7
  <2>2. n >= 1
    <3> SUFFICES ASSUME n = 0 PROVE FALSE
      BY <1>5
    <3>1. d * n = 0
      BY <1>4
    <3> QED BY <1>4, <1>5, <2>1, <3>1
  <2>3. x % d = 0 => n # 1
    <3> SUFFICES ASSUME x % d = 0, n = 1 PROVE FALSE
      OBVIOUS
    <3>1. d * n = d
      BY <1>4
    <3> QED BY <1>4, <1>5, <2>1, <3>1
  <2>4. PICK m \in Nat \ {0} : StoredScale(a) = u * m
    <3>1. CASE x % d = 0 /\ n % 2 = 1
      <4>1. StoredScale(a) = u * (n - 1) /\ n - 1 \in Nat \ {0}
        BY <1>3, <1>5, <2>2, <2>3, <3>1
      <4> QED BY <4>1
    <3>2. CASE ~ (x % d = 0 /\ n % 2 = 1)
      <4>1. StoredScale(a) = u * n /\ n \in Nat \ {0}
        BY <1>3, <1>5, <2>2, <3>2
      <4> QED BY <4>1
    <3> QED BY <3>1, <3>2
  <2>5. u * m # 0
    BY <1>2
  <2> QED BY <1>7, <2>4, <2>5, <1>1 DEF a
<1> QED BY <1>1, <1>6, <1>7

\* The distance of a dequantized weight from the original.
LEMMA NearAfterScaling ==
    ASSUME NEW max \in Nat, NEW v \in Int, NEW c \in -7 .. 7, NEW s \in Nat,
           NEW u \in Nat,
           2 * (max * c) <= 14 * v + max, 14 * v - max <= 2 * (max * c),
           2 * max - 7 * u <= 14 * s, 14 * s <= 2 * max + 7 * u
    PROVE  14 * Abs(v - c * s) <= max + 7 * Abs(c) * u
<1> DEFINE t == 2 * max - 14 * s
<1>1. t \in Int /\ -(7 * u) <= t /\ t <= 7 * u
  OBVIOUS
<1>2. 14 * (v - c * s) = (14 * v - 2 * (max * c)) + c * t
  OBVIOUS
<1> HIDE DEF t
<1>3. c * t <= Abs(c) * (7 * u) /\ - (Abs(c) * (7 * u)) <= c * t /\ c * t \in Int
  <2>1. CASE c >= 0
    <3>1. c * t <= c * (7 * u) /\ c * (-(7 * u)) <= c * t
      BY <1>1, <2>1
    <3> QED BY <1>1, <2>1, <3>1 DEF Abs
  <2>2. CASE c < 0
    <3>1. (-c) * t <= (-c) * (7 * u) /\ (-c) * (-(7 * u)) <= (-c) * t
      BY <1>1, <2>2
    <3> QED BY <1>1, <2>2, <3>1 DEF Abs
  <2> QED BY <2>1, <2>2
<1>4. Abs(c) * (7 * u) = 7 * Abs(c) * u /\ Abs(c) * (7 * u) \in Int
  BY DEF Abs
<1>5. max * c \in Int /\ c * s \in Int
  OBVIOUS
<1> QED BY <1>2, <1>3, <1>4, <1>5 DEF Abs

\* A nibble pair survives the byte: all of -8 .. 7, so what the clamp allows.
THEOREM UnpackInvertsPack ==
    ASSUME NEW even \in -8 .. 7, NEW odd \in -8 .. 7
    PROVE  /\ PackByte(even, odd) \in 0 .. 255
           /\ Nibble(PackByte(even, odd), FALSE) = even
           /\ Nibble(PackByte(even, odd), TRUE) = odd
<1> DEFINE lo == even % 16
           hi == odd % 16
           b == PackByte(even, odd)
<1>1. /\ lo \in 0 .. 15 /\ hi \in 0 .. 15
      /\ Signed(lo) = even /\ Signed(hi) = odd
  BY DEF Signed
<1>2. b = lo + 16 * hi
  BY DEF PackByte
<1> HIDE DEF lo, hi, b
<1>3. b \in 0 .. 255 /\ (b % 16) = lo /\ (b \div 16) = hi
  BY <1>1, <1>2
<1>4. ((b \div 16) % 16) = hi
  BY <1>1, <1>3
<1>5. Nibble(b, FALSE) = Signed(lo) /\ Nibble(b, TRUE) = Signed(hi)
  BY <1>3, <1>4 DEF Nibble
<1> QED BY <1>1, <1>3, <1>5 DEF b

\* Columns, bytes and groups of a row.
LEMMA ColumnIndices ==
    ASSUME NEW k \in Columns
    PROVE  /\ k \in Int /\ GroupOf(k) \in AllGroups
           /\ (k \div 2) \in Bytes /\ (k % 2) \in {0, 1}
           /\ k = 2 * (k \div 2) + (k % 2)
<1>1. K \in Nat \ {0} /\ group_size \in Nat \ {0} /\ k \in Nat /\ k < K
  BY RowAssumption DEF Columns
<1>2. K = 2 * (K \div 2)
  BY RowAssumption
<1>3. (k \div 2) \in Bytes /\ (k % 2) \in {0, 1} /\ k = 2 * (k \div 2) + (k % 2)
  BY <1>1, <1>2 DEF Bytes
<1> DEFINE n == K \div group_size
           g == k \div group_size
<1>4. n \in Nat /\ K = group_size * n
  <2>1. K = group_size * n + (K % group_size) /\ n \in Nat
    BY <1>1, Division
  <2>2. (K % group_size) = 0
    BY RowAssumption
  <2> QED BY <2>1, <2>2, <1>1
<1>5. g \in Nat /\ group_size * g <= k
  <2>1. /\ g \in Nat /\ k = group_size * g + (k % group_size)
        /\ (k % group_size) \in 0 .. group_size - 1
    BY <1>1, Division
  <2> HIDE DEF g
  <2>2. group_size * g \in Nat
    BY <1>1, <2>1
  <2> QED BY <1>1, <2>1, <2>2
<1>6. g < n
  <2> HIDE DEF n, g
  <2> SUFFICES ASSUME g >= n PROVE FALSE
    BY <1>4, <1>5
  <2>1. group_size * g >= group_size * n
    BY <1>1, <1>4, <1>5
  <2> QED BY <1>1, <1>4, <1>5, <2>1
<1>7. GroupOf(k) \in AllGroups
  BY <1>4, <1>5, <1>6 DEF GroupOf, AllGroups
<1> QED BY <1>1, <1>3, <1>7

-----------------------------------------------------------------------------
\* What each step leaves: codes and scales, then bytes, then products.
CodesInv ==
    step # "given" =>
      /\ \A k \in Columns :
           LET a == absmax[GroupOf(k)]
           IN  /\ 2 * (a * q[k]) <= 14 * w[k] + a
               /\ 14 * w[k] - a <= 2 * (a * q[k])
      /\ \A j, k \in Columns :
           GroupOf(j) = GroupOf(k) =>
             /\ w[j] <= w[k] => q[j] <= q[k]
             /\ w[j] = - w[k] => q[j] = - q[k]

ScalesInv ==
    step # "given" =>
      \A g \in AllGroups :
        /\ Ulp(absmax[g]) \in Nat
        /\ 2 * absmax[g] - 7 * Ulp(absmax[g]) <= 14 * scale[g]
        /\ 14 * scale[g] <= 2 * absmax[g] + 7 * Ulp(absmax[g])
        /\ scale[g] = 0 <=> absmax[g] <= 3
        /\ \E k \in Columns : GroupOf(k) = g /\ Abs(w[k]) = absmax[g]

PackedInv ==
    step \in {"packed", "dequantized"} =>
      packed = [i \in Bytes |-> PackByte(q[2 * i], q[2 * i + 1])]

ProductsInv ==
    step = "dequantized" =>
      w_approx = [k \in Columns |-> q[k] * scale[GroupOf(k)]]

QuantInv == QuantTypeOK /\ CodesInv /\ ScalesInv /\ PackedInv /\ ProductsInv

LEMMA QuantStarts == QuantInit => QuantInv
<1> SUFFICES ASSUME QuantInit PROVE QuantInv
  OBVIOUS
<1>1. QuantTypeOK
  BY WeightAssumption DEF QuantInit, QuantTypeOK
<1> QED BY <1>1 DEF QuantInit, QuantInv, CodesInv, ScalesInv, PackedInv, ProductsInv

LEMMA QuantizeStep == QuantInv /\ Quantize => QuantInv'
<1> SUFFICES ASSUME QuantInv, Quantize PROVE QuantInv'
  OBVIOUS
<1>1. PICK m \in [AllGroups -> Columns] :
        /\ \A g \in AllGroups : Largest(m[g], g)
        /\ absmax' = [g \in AllGroups |-> Abs(w[m[g]])]
  BY DEF Quantize
<1>2. PICK up \in [AllGroups -> BOOLEAN] :
        q' = [k \in Columns |-> Code(w[k], absmax'[GroupOf(k)], up[GroupOf(k)])]
  BY DEF Quantize
<1>3. /\ w \in [Columns -> Weights] /\ w' = w /\ step' = "quantized"
      /\ packed \in [Bytes -> 0 .. 255] /\ packed' = packed
      /\ w_approx \in [Columns -> Int] /\ w_approx' = w_approx
      /\ scale' = [g \in AllGroups |-> StoredScale(absmax'[g])]
  BY DEF QuantInv, QuantTypeOK, Quantize
<1>4. ASSUME NEW k \in Columns
      PROVE  /\ GroupOf(k) \in AllGroups /\ up[GroupOf(k)] \in BOOLEAN
             /\ w[k] \in Int /\ absmax'[GroupOf(k)] \in Nat
             /\ - absmax'[GroupOf(k)] <= w[k] /\ w[k] <= absmax'[GroupOf(k)]
             /\ q'[k] = Code(w[k], absmax'[GroupOf(k)], up[GroupOf(k)])
  <2>1. GroupOf(k) \in AllGroups /\ w[k] \in Int
    BY <1>3, ColumnIndices, WeightAssumption
  <2>2. Abs(w[k]) <= Abs(w[m[GroupOf(k)]]) /\ w[m[GroupOf(k)]] \in Int
    BY <1>1, <1>3, <2>1, WeightAssumption DEF Largest
  <2>3. absmax'[GroupOf(k)] = Abs(w[m[GroupOf(k)]])
    BY <1>1, <2>1
  <2> QED BY <1>2, <2>1, <2>2, <2>3 DEF Abs
<1>5. ASSUME NEW g \in AllGroups
      PROVE  /\ absmax'[g] \in Nat /\ scale'[g] \in Nat
             /\ Ulp(absmax'[g]) \in Nat
             /\ 2 * absmax'[g] - 7 * Ulp(absmax'[g]) <= 14 * scale'[g]
             /\ 14 * scale'[g] <= 2 * absmax'[g] + 7 * Ulp(absmax'[g])
             /\ scale'[g] = 0 <=> absmax'[g] <= 3
             /\ \E k \in Columns : GroupOf(k) = g /\ Abs(w[k]) = absmax'[g]
  <2>1. absmax'[g] = Abs(w[m[g]]) /\ w[m[g]] \in Weights
    BY <1>1, <1>3
  <2>2. scale'[g] = StoredScale(Abs(w[m[g]]))
    BY <1>3, <2>1
  <2>4. w[m[g]] \in Int
    BY <2>1, WeightAssumption
  <2>3. Abs(w[m[g]]) \in Nat
    BY <2>4 DEF Abs
  <2>5. m[g] \in Columns /\ GroupOf(m[g]) = g
    BY <1>1 DEF Largest
  <2>6. scale'[g] = 0 <=> absmax'[g] <= 3
    BY <2>1, <2>2, ScaleOfTiny
  <2> QED BY <2>1, <2>2, <2>3, <2>5, <2>6, ScaleIsNear
<1>6. CodesInv'
  <2>1. ASSUME NEW k \in Columns
        PROVE  /\ 2 * (absmax'[GroupOf(k)] * q'[k]) <= 14 * w[k] + absmax'[GroupOf(k)]
               /\ 14 * w[k] - absmax'[GroupOf(k)] <= 2 * (absmax'[GroupOf(k)] * q'[k])
    BY <1>4, CodeIsNearest
  <2>2. ASSUME NEW j \in Columns, NEW k \in Columns, GroupOf(j) = GroupOf(k)
        PROVE  /\ w[j] <= w[k] => q'[j] <= q'[k]
               /\ w[j] = - w[k] => q'[j] = - q'[k]
    <3>1. w[j] <= w[k] => q'[j] <= q'[k]
      BY <1>4, <2>2, CodeIsMonotone
    <3>2. w[j] = - w[k] => q'[j] = - q'[k]
      BY <1>4, <2>2, CodeIsNearest
    <3> QED BY <3>1, <3>2
  <2> QED BY <1>3, <2>1, <2>2 DEF CodesInv
<1>7. QuantTypeOK'
  <2>1. ASSUME NEW k \in Columns PROVE q'[k] \in -7 .. 7
    BY <1>4, CodeIsNearest
  <2>2. q' \in [Columns -> -7 .. 7]
    BY <1>2, <2>1
  <2>3. absmax' \in [AllGroups -> Nat] /\ scale' \in [AllGroups -> Nat]
    BY <1>1, <1>3, <1>5
  <2> QED BY <1>3, <2>2, <2>3 DEF QuantTypeOK
<1>8. ScalesInv'
  BY <1>3, <1>5 DEF ScalesInv
<1>9. PackedInv' /\ ProductsInv'
  BY <1>3 DEF PackedInv, ProductsInv
<1> QED BY <1>6, <1>7, <1>8, <1>9 DEF QuantInv

\* Reading back, from the packed form.
LEMMA ReadBack ==
    QuantInv /\ step \in {"packed", "dequantized"} => ReadersAgree
<1> SUFFICES ASSUME QuantInv, step \in {"packed", "dequantized"}, NEW k \in Columns
             PROVE  Nibble(packed[k \div 2], k % 2 = 1) = q[k]
  BY DEF ReadersAgree
<1> DEFINE i == k \div 2
<1>1. i \in Bytes /\ (k % 2) \in {0, 1} /\ k = 2 * i + (k % 2)
  BY ColumnIndices
<1>2. i \in Int /\ 2 * i \in Columns /\ 2 * i + 1 \in Columns
  BY <1>1, RowAssumption DEF Bytes, Columns
<1>3. q[2 * i] \in -8 .. 7 /\ q[2 * i + 1] \in -8 .. 7
  BY <1>2 DEF QuantInv, QuantTypeOK
<1>4. packed[i] = PackByte(q[2 * i], q[2 * i + 1])
  BY <1>1 DEF QuantInv, PackedInv
<1>0. k \div 2 = i
  OBVIOUS
<1> HIDE DEF i
<1>5. /\ Nibble(packed[i], FALSE) = q[2 * i]
      /\ Nibble(packed[i], TRUE) = q[2 * i + 1]
  <2>1. \A a, b \in -8 .. 7 : /\ Nibble(PackByte(a, b), FALSE) = a
                               /\ Nibble(PackByte(a, b), TRUE) = b
    BY UnpackInvertsPack
  <2> DEFINE a == q[2 * i]
             b == q[2 * i + 1]
  <2>2. a \in -8 .. 7 /\ b \in -8 .. 7 /\ packed[i] = PackByte(a, b)
    BY <1>3, <1>4
  <2> HIDE DEF a, b
  <2>3. Nibble(PackByte(a, b), FALSE) = a
    BY <2>1, <2>2, ZenonT(30)
  <2>4. Nibble(PackByte(a, b), TRUE) = b
    BY <2>1, <2>2, ZenonT(30)
  <2>5. Nibble(packed[i], FALSE) = a /\ Nibble(packed[i], TRUE) = b
    BY <2>2, <2>3, <2>4, Zenon
  <2> QED BY <2>5 DEF a, b
<1>6. CASE (k % 2) = 0
  <2>1. k = 2 * i /\ (k % 2 = 1) = FALSE
    BY <1>1, <1>2, <1>6
  <2> QED BY <1>0, <1>5, <2>1, Zenon
<1>7. CASE (k % 2) = 1
  <2>1. k = 2 * i + 1 /\ (k % 2 = 1) = TRUE
    BY <1>1, <1>2, <1>7
  <2> QED BY <1>0, <1>5, <2>1, Zenon
<1> QED BY <1>1, <1>6, <1>7

LEMMA PackStep == QuantInv /\ Pack => QuantInv'
<1> SUFFICES ASSUME QuantInv, Pack PROVE QuantInv'
  OBVIOUS
<1>1. ASSUME NEW i \in Bytes PROVE PackByte(q[2 * i], q[2 * i + 1]) \in 0 .. 255
  <2>1. 2 * i \in Columns /\ 2 * i + 1 \in Columns
    BY RowAssumption DEF Bytes, Columns
  <2>2. q[2 * i] \in -8 .. 7 /\ q[2 * i + 1] \in -8 .. 7
    BY <2>1 DEF QuantInv, QuantTypeOK
  <2> QED BY <2>2, UnpackInvertsPack
<1>2. QuantTypeOK'
  BY <1>1 DEF QuantInv, QuantTypeOK, Pack
<1>3. CodesInv' /\ ScalesInv'
  BY DEF QuantInv, CodesInv, ScalesInv, Pack
<1>4. PackedInv' /\ ProductsInv'
  BY DEF QuantInv, PackedInv, ProductsInv, Pack
<1> QED BY <1>2, <1>3, <1>4 DEF QuantInv

LEMMA DequantizeStep == QuantInv /\ Dequantize => QuantInv'
<1> SUFFICES ASSUME QuantInv, Dequantize PROVE QuantInv'
  OBVIOUS
<1>1. ASSUME NEW k \in Columns
      PROVE  /\ Nibble(packed[k \div 2], k % 2 = 1) = q[k]
             /\ q[k] * scale[GroupOf(k)] \in Int
  <2>1. Nibble(packed[k \div 2], k % 2 = 1) = q[k]
    BY ReadBack DEF Dequantize, ReadersAgree
  <2>2. GroupOf(k) \in AllGroups
    BY ColumnIndices
  <2> QED BY <2>1, <2>2 DEF QuantInv, QuantTypeOK
<1>2. w_approx' = [k \in Columns |-> q[k] * scale[GroupOf(k)]]
  BY <1>1 DEF Dequantize
<1>3. QuantTypeOK'
  BY <1>1, <1>2 DEF QuantInv, QuantTypeOK, Dequantize
<1>4. CodesInv' /\ ScalesInv' /\ PackedInv'
  BY DEF QuantInv, CodesInv, ScalesInv, PackedInv, Dequantize
<1>5. ProductsInv'
  BY <1>2 DEF ProductsInv, Dequantize
<1> QED BY <1>3, <1>4, <1>5 DEF QuantInv

LEMMA QuantStep == QuantInv /\ [QuantNext]_quant_vars => QuantInv'
<1> SUFFICES ASSUME QuantInv, [QuantNext]_quant_vars PROVE QuantInv'
  OBVIOUS
<1>1. CASE UNCHANGED quant_vars
  BY <1>1 DEF quant_vars, QuantInv, QuantTypeOK, CodesInv, ScalesInv, PackedInv, ProductsInv
<1>2. CASE QuantFinished
  BY <1>1, <1>2 DEF QuantFinished
<1> QED BY <1>1, <1>2, QuantizeStep, PackStep, DequantizeStep DEF QuantNext

LEMMA QuantInvHolds == QuantSpec => []QuantInv
  BY QuantStarts, QuantStep, PTL DEF QuantSpec

(* Codes stay in -7 .. 7 and bytes are bytes, for every row of weights     *)
(* (quantize_groupwise_int4, pack_int4).                                   *)
THEOREM CodesFit == QuantSpec => []QuantTypeOK
<1>1. QuantInv => QuantTypeOK
  BY DEF QuantInv
<1> QED BY <1>1, QuantInvHolds, PTL

(* Readers of the packed row find the codes that were packed (unpack_int4, *)
(* and the kernels' nibble decoding).                                      *)
THEOREM PackedIsReadBack == QuantSpec => []ReadersAgree
<1>1. QuantInv => ReadersAgree
  BY ReadBack DEF ReadersAgree
<1> QED BY <1>1, QuantInvHolds, PTL

(* The error of the scheme: half a step, plus the rounding of the stored   *)
(* scale for each step of the code, for every format of the scale          *)
(* (quantize_groupwise_int4, dequantize_groupwise_int4).                   *)
THEOREM ErrorIsBounded == QuantSpec => []DequantIsNear
<1>1. QuantInv => DequantIsNear
  <2> SUFFICES ASSUME QuantInv, step = "dequantized", NEW k \in Columns
               PROVE  14 * Abs(w[k] - w_approx[k]) <=
                        absmax[GroupOf(k)] + 7 * Abs(q[k]) * Ulp(absmax[GroupOf(k)])
    BY DEF DequantIsNear
  <2> DEFINE g == GroupOf(k)
  <2>1. g \in AllGroups
    BY ColumnIndices
  <2>2. /\ absmax[g] \in Nat /\ scale[g] \in Nat /\ q[k] \in -7 .. 7 /\ w[k] \in Int
        /\ Ulp(absmax[g]) \in Nat
        /\ 2 * (absmax[g] * q[k]) <= 14 * w[k] + absmax[g]
        /\ 14 * w[k] - absmax[g] <= 2 * (absmax[g] * q[k])
        /\ 2 * absmax[g] - 7 * Ulp(absmax[g]) <= 14 * scale[g]
        /\ 14 * scale[g] <= 2 * absmax[g] + 7 * Ulp(absmax[g])
    <3> HIDE DEF g
    <3>1. absmax[g] \in Nat /\ scale[g] \in Nat /\ q[k] \in -7 .. 7 /\ w[k] \in Int
      BY <2>1, WeightAssumption DEF QuantInv, QuantTypeOK
    <3>2. Ulp(absmax[g]) \in Nat
      BY <2>1 DEF QuantInv, ScalesInv
    <3>3. /\ 2 * (absmax[g] * q[k]) <= 14 * w[k] + absmax[g]
          /\ 14 * w[k] - absmax[g] <= 2 * (absmax[g] * q[k])
      BY DEF QuantInv, CodesInv, g
    <3>4. /\ 2 * absmax[g] - 7 * Ulp(absmax[g]) <= 14 * scale[g]
          /\ 14 * scale[g] <= 2 * absmax[g] + 7 * Ulp(absmax[g])
      BY <2>1 DEF QuantInv, ScalesInv
    <3> QED BY <3>1, <3>2, <3>3, <3>4
  <2>3. w_approx[k] = q[k] * scale[g]
    BY DEF QuantInv, ProductsInv
  <2> HIDE DEF g
  <2>4. 14 * Abs(w[k] - q[k] * scale[g]) <= absmax[g] + 7 * Abs(q[k]) * Ulp(absmax[g])
    BY <2>2, NearAfterScaling
  <2> QED BY <2>3, <2>4 DEF g
<1> QED BY <1>1, QuantInvHolds, PTL

(* Dequantized weights are in the order of the originals, and opposite     *)
(* ones opposite (quantize_groupwise_int4, dequantize_groupwise_int4).     *)
THEOREM OrderSurvives == QuantSpec => []OrderKept
<1>1. QuantInv => OrderKept
  <2> SUFFICES ASSUME QuantInv, step = "dequantized", NEW j \in Columns, NEW k \in Columns,
                      GroupOf(j) = GroupOf(k)
               PROVE  /\ w[j] <= w[k] => w_approx[j] <= w_approx[k]
                      /\ w[j] = - w[k] => w_approx[j] = - w_approx[k]
    BY DEF OrderKept
  <2> DEFINE s == scale[GroupOf(k)]
  <2>1. s \in Nat /\ q[j] \in Int /\ q[k] \in Int
    BY ColumnIndices DEF QuantInv, QuantTypeOK
  <2>2. w_approx[j] = q[j] * s /\ w_approx[k] = q[k] * s
    BY DEF QuantInv, ProductsInv
  <2>3. /\ w[j] <= w[k] => q[j] <= q[k]
        /\ w[j] = - w[k] => q[j] = - q[k]
    BY DEF QuantInv, CodesInv
  <2> HIDE DEF s
  <2>4. q[j] <= q[k] => q[j] * s <= q[k] * s
    BY <2>1
  <2>5. q[j] = - q[k] => q[j] * s = - (q[k] * s)
    BY <2>1
  <2> QED BY <2>2, <2>3, <2>4, <2>5
<1> QED BY <1>1, QuantInvHolds, PTL

(* Only a group of at most three units is dequantized to nothing: a larger *)
(* magnitude has a code and a scale that are not 0.                        *)
THEOREM NothingOnlyOfTiny == QuantSpec => []TinyGroupsOnly
<1>1. QuantInv => TinyGroupsOnly
  <2> SUFFICES ASSUME QuantInv, step = "dequantized", NEW g \in AllGroups
               PROVE  (\A k \in Columns : GroupOf(k) = g => w_approx[k] = 0)
                        <=> absmax[g] <= 3
    BY DEF TinyGroupsOnly
  <2>1. PICK a \in Nat, s \in Nat : a = absmax[g] /\ s = scale[g] /\ (s = 0 <=> a <= 3)
    BY DEF QuantInv, QuantTypeOK, ScalesInv
  <2>2. \A k \in Columns : GroupOf(k) = g => w_approx[k] = q[k] * s /\ q[k] \in Int
    BY <2>1 DEF QuantInv, QuantTypeOK, ProductsInv
  <2>3. CASE a <= 3
    <3>1. \A n \in Int : n * s = 0
      BY <2>1, <2>3
    <3> QED BY <2>1, <2>2, <2>3, <3>1
  <2>4. CASE ~ (a <= 3)
    <3>1. PICK k \in Columns : GroupOf(k) = g /\ Abs(w[k]) = a
      BY <2>1 DEF QuantInv, ScalesInv
    <3>2. PICK n \in Int, v \in Int : n = q[k] /\ v = w[k]
      <4>1. q[k] \in Int /\ w[k] \in Weights
        BY DEF QuantInv, QuantTypeOK
      <4> QED BY <4>1, WeightAssumption
    <3>3. 2 * (a * n) <= 14 * v + a /\ 14 * v - a <= 2 * (a * n)
      BY <2>1, <3>1, <3>2 DEF QuantInv, CodesInv
    <3>4. v = a \/ v = - a
      BY <3>1, <3>2 DEF Abs
    <3>5. n # 0
      <4> SUFFICES ASSUME n = 0 PROVE FALSE
        OBVIOUS
      <4>1. a * n = 0
        BY <2>1
      <4> QED BY <2>1, <2>4, <3>3, <3>4, <4>1
    <3>6. n * s # 0
      BY <2>1, <2>4, <3>5
    <3> QED BY <2>1, <2>2, <2>4, <3>1, <3>2, <3>6
  <2> QED BY <2>3, <2>4
<1> QED BY <1>1, QuantInvHolds, PTL

-----------------------------------------------------------------------------
(* The three machines of one layer: each keeps its types, whichever runs.  *)
THEOREM LayerTypes == MCSpec => []LayerTypesOK
<1> DEFINE I == KernelInv /\ DequantInv /\ QuantInv
<1>1. MCInit => I
  BY KernelInit, DequantStarts, QuantStarts DEF MCInit
<1>2. I /\ [MCNext]_MCvars => I'
  <2> SUFFICES ASSUME I, [MCNext]_MCvars PROVE I'
    OBVIOUS
  <2>1. [Next]_vars /\ [DequantNext]_dequant_vars /\ [QuantNext]_quant_vars
    BY DEF MCNext, MCvars
  <2> QED BY <2>1, KernelStep, DequantStep, QuantStep
<1>3. I => LayerTypesOK
  BY KernelTypesOK, DequantTypes DEF LayerTypesOK, QuantInv
<1> HIDE DEF I
<1> QED BY <1>1, <1>2, <1>3, PTL DEF MCSpec
=============================================================================
