-------------------------- MODULE NaiveKernel_proofs --------------------------
(***************************************************************************)
(* The naive kernel for every accepted shape, block, height of the grid    *)
(* and order of threads: every thread stays inside the tensors, and the    *)
(* launch implements the reference product or is refused and stores        *)
(* nothing.  A thread's sum is, at every turn of its loop, the bag of the  *)
(* reference's first k products; its cell is unstored until it returns.    *)
(***************************************************************************)
EXTENDS NaiveKernel, TLAPS

Types ==
    /\ shape \in Shapes
    /\ status \in {"ready", "running", "failed"}
    /\ pc \in [Threads -> {"enter", "loop", "returned"}]
    /\ k \in [Threads -> 0 .. shape.K]
    /\ acc = [t \in Threads |-> acc[t]]
    /\ out = [c \in Cells(shape) |-> out[c]]

\* Threads run only in a grid the device has started.
Started == status = "running" => shape \in Launchable

\* A thread that multiplies has a cell.
InCell ==
    \A t \in Threads :
      /\ pc[t] = "loop" => HasCell(t[1], t[2])
      /\ k[t] # 0 => HasCell(t[1], t[2])

Sums == \A t \in Threads : acc[t] = PartialReference(shape, t[2], t[1], k[t])

Unstored ==
    \A t \in Threads :
      HasCell(t[1], t[2]) /\ pc[t] # "returned" => out[<<t[2], t[1]>>] = NoValue

IInv == Types /\ Started /\ InCell /\ Sums /\ Unstored

-----------------------------------------------------------------------------
\* Division with remainder.
LEMMA Division ==
    ASSUME NEW x \in Nat, NEW d \in Nat \ {0}
    PROVE  /\ x \div d \in Nat /\ (x % d) \in 0 .. d - 1
           /\ x = d * (x \div d) + (x % d)
  OBVIOUS

LEMMA Covers ==
    ASSUME NEW size \in Positive, NEW block \in Positive
    PROVE  Covering(size, block) \subseteq Nat
  BY DEF Covering, Positive

LEMMA ShapeFacts ==
    ASSUME NEW s \in Shapes
    PROVE  /\ s.M \in Positive /\ s.N \in Positive /\ s.K \in Positive
           /\ s.group_size \in Positive /\ Accepted(s)
  BY ShapesAssumption

\* Row a of a tensor with d columns: column b lies in it.
LEMMA RowMajor ==
    ASSUME NEW rows \in Nat, NEW d \in Nat, NEW a \in 0 .. rows - 1, NEW b \in 0 .. d - 1
    PROVE  a * d + b \in 0 .. rows * d - 1
<1>1. (rows - 1 - a) * d >= 0
  OBVIOUS
<1>2. (rows - 1 - a) * d = rows * d - d - a * d
  OBVIOUS
<1>3. a * d \in Nat /\ rows * d \in Nat
  OBVIOUS
<1> QED  BY <1>1, <1>2, <1>3

\* d divides size, hence column i of a row of size lies in one of its size / d parts.
LEMMA PartOf ==
    ASSUME NEW size \in Positive, NEW d \in Positive, (size % d) = 0, NEW i \in 0 .. size - 1
    PROVE  i \div d \in 0 .. (size \div d) - 1
<1> DEFINE n == size \div d
           g == i \div d
<1>1. size \in Nat /\ d \in Nat \ {0} /\ i \in Nat /\ i < size
  BY DEF Positive
<1>2. n \in Nat /\ size = d * n
  BY <1>1, Division
<1>3. g \in Nat /\ i = d * g + (i % d) /\ (i % d) \in 0 .. d - 1
  BY <1>1, Division
<1> HIDE DEF n, g
<1>4. d * g \in Nat /\ d * g <= i
  BY <1>1, <1>3
<1>5. g < n
  <2> SUFFICES ASSUME g >= n PROVE FALSE
    BY <1>2, <1>3
  <2>1. d * g >= d * n
    BY <1>1, <1>2, <1>3
  <2> QED  BY <1>1, <1>2, <1>4, <2>1
<1>6. g \in 0 .. n - 1
  BY <1>2, <1>3, <1>5
<1> QED  BY <1>6 DEF g, n

\* The reference multiplies elements of the tensors.
LEMMA ReferenceInTensors ==
    ASSUME NEW s \in Shapes, NEW m \in 0 .. s.M - 1, NEW n \in 0 .. s.N - 1,
           NEW i \in 0 .. s.K - 1
    PROVE  ReferenceProduct(s, m, n, i) \in ProductType(s)
<1>1. /\ s.M \in Positive /\ s.N \in Positive /\ s.K \in Positive
      /\ s.group_size \in Positive /\ (s.K % 2) = 0 /\ (s.K % s.group_size) = 0
  BY ShapeFacts DEF Accepted
<1>2. m * s.K + i \in 0 .. s.M * s.K - 1
  BY <1>1, RowMajor DEF Positive
<1>3. HalfK(s) \in Nat /\ i \div 2 \in 0 .. HalfK(s) - 1
  <2>1. s.K \div 2 \in Nat
    BY <1>1, Division DEF Positive
  <2>2. i \div 2 \in 0 .. (s.K \div 2) - 1
    BY <1>1, PartOf DEF Positive
  <2> QED  BY <2>1, <2>2 DEF HalfK
<1>4. n * HalfK(s) + i \div 2 \in 0 .. s.N * HalfK(s) - 1
  BY <1>1, <1>3, RowMajor DEF Positive
<1>5. Groups(s) \in Nat /\ i \div s.group_size \in 0 .. Groups(s) - 1
  <2>1. s.K \div s.group_size \in Nat
    BY <1>1, Division DEF Positive
  <2>2. i \div s.group_size \in 0 .. (s.K \div s.group_size) - 1
    BY <1>1, PartOf
  <2> QED  BY <2>1, <2>2 DEF Groups
<1>6. n * Groups(s) + i \div s.group_size \in 0 .. s.N * Groups(s) - 1
  BY <1>1, <1>5, RowMajor DEF Positive
<1>7. (i % 2) \in {0, 1}
  BY <1>1 DEF Positive
<1> QED  BY <1>2, <1>4, <1>6, <1>7 DEF ReferenceProduct, Product, ProductType

\* Products of different columns differ, as they read different elements of x.
LEMMA ProductsDiffer ==
    ASSUME NEW s \in Shapes, NEW m \in Nat, NEW n \in Nat, NEW i \in Nat, NEW j \in Nat,
           ReferenceProduct(s, m, n, i) = ReferenceProduct(s, m, n, j)
    PROVE  i = j
<1>1. m * s.K + i = m * s.K + j
  BY DEF ReferenceProduct, Product
<1>2. m * s.K \in Int
  BY ShapeFacts DEF Positive
<1> QED  BY <1>1, <1>2

\* One more product turns the sum of the first i into that of the first i + 1.
LEMMA OneMore ==
    ASSUME NEW s \in Shapes, NEW m \in Nat, NEW n \in Nat, NEW i \in Nat
    PROVE  PartialReference(s, m, n, i) (+) SetToBag({ReferenceProduct(s, m, n, i)})
             = PartialReference(s, m, n, i + 1)
<1> DEFINE P(j) == ReferenceProduct(s, m, n, j)
           S == {P(j) : j \in 0 .. i - 1}
<1>1. P(i) \notin S
  BY ProductsDiffer
<1>2. {P(j) : j \in 0 .. (i + 1) - 1} = S \cup {P(i)}
  <2>1. \A j : j \in 0 .. (i + 1) - 1 <=> j \in 0 .. i - 1 \/ j = i
    OBVIOUS
  <2> HIDE DEF P
  <2> QED  BY <2>1
<1> HIDE DEF S, P
<1>3. SetToBag(S) (+) SetToBag({P(i)}) = SetToBag(S \cup {P(i)})
  BY <1>1 DEF SetToBag, (+)
<1> QED  BY <1>2, <1>3 DEF PartialReference, S, P

LEMMA SumOfNothing ==
    ASSUME NEW s, NEW m, NEW n
    PROVE  PartialReference(s, m, n, 0) = EmptyBag
<1>1. {ReferenceProduct(s, m, n, i) : i \in 0 .. 0 - 1} = {}
  <2>1. 0 .. 0 - 1 = {}
    OBVIOUS
  <2> QED  BY <2>1
<1> QED  BY <1>1 DEF PartialReference, EmptyBag

\* What a thread is.
LEMMA ThreadIs ==
    ASSUME shape \in Shapes, NEW t \in Threads
    PROVE  t = <<t[1], t[2]>> /\ t[1] \in Nat /\ t[2] \in Nat
  BY Covers, ShapeFacts, BlockAssumption DEF Threads

LEMMA HasCellMeans ==
    ASSUME shape \in Shapes, NEW n \in Nat, NEW m \in Nat, HasCell(n, m)
    PROVE  /\ m \in 0 .. shape.M - 1 /\ n \in 0 .. shape.N - 1
           /\ <<m, n>> \in Cells(shape)
  BY ShapeFacts DEF HasCell, Cells, Positive

-----------------------------------------------------------------------------
LEMMA Initially == Init => IInv
<1> SUFFICES ASSUME Init PROVE IInv
  OBVIOUS
<1>1. shape.K \in Nat
  BY ShapeFacts DEF Init, Positive
<1>2. Types /\ Started
  BY <1>1 DEF Init, Types, Started
<1>3. InCell
  BY DEF Init, InCell
<1>4. Sums
  BY SumOfNothing DEF Init, Sums
<1>5. Unstored
  <2>1. ASSUME NEW t \in Threads, HasCell(t[1], t[2])
        PROVE  out[<<t[2], t[1]>>] = NoValue
    BY <2>1, ThreadIs, HasCellMeans DEF Init
  <2> QED  BY <2>1 DEF Unstored
<1> QED  BY <1>2, <1>3, <1>4, <1>5 DEF IInv

LEMMA EnterKeeps ==
    ASSUME IInv, NEW n, NEW m, <<n, m>> \in Threads, Enter(n, m)
    PROVE  IInv'
<1>1. /\ shape' = shape /\ status' = status
      /\ k' = k /\ acc' = acc /\ out' = out /\ Threads' = Threads
      /\ pc' = [pc EXCEPT ![<<n, m>>] = IF HasCell(n, m) THEN "loop" ELSE "returned"]
      /\ pc[<<n, m>>] = "enter"
  BY DEF Enter, Threads
<1>2. Types' /\ Started'
  BY <1>1 DEF IInv, Types, Started
<1>3. InCell' /\ Sums' /\ Unstored'
  BY <1>1 DEF IInv, Types, InCell, Sums, Unstored, HasCell
<1> QED  BY <1>2, <1>3 DEF IInv

LEMMA AccumulateKeeps ==
    ASSUME IInv, NEW n, NEW m, <<n, m>> \in Threads, Accumulate(n, m)
    PROVE  IInv'
<1> DEFINE t0 == <<n, m>>
           i == k[t0]
<1>1. /\ shape' = shape /\ status' = status /\ pc' = pc /\ out' = out /\ Threads' = Threads
      /\ pc[t0] = "loop" /\ i < shape.K
      /\ k' = [k EXCEPT ![t0] = i + 1]
      /\ acc' = [acc EXCEPT ![t0] = acc[t0] (+) SetToBag({ReferenceProduct(shape, m, n, i)})]
  BY DEF Accumulate, Threads, ReferenceProduct, Nibble
<1>2. shape \in Shapes /\ shape.K \in Nat /\ i \in Nat
  BY ShapeFacts DEF IInv, Types, Positive
<1>3. n \in Nat /\ m \in Nat /\ HasCell(n, m)
  BY <1>1, <1>2, ThreadIs DEF IInv, InCell
<1>4. Types' /\ Started'
  <2>1. i + 1 \in 0 .. shape.K
    BY <1>1, <1>2
  <2>2. k' \in [Threads -> 0 .. shape.K]
    BY <1>1, <2>1 DEF IInv, Types
  <2>3. acc' = [t \in Threads |-> acc'[t]]
    BY <1>1 DEF IInv, Types
  <2> QED  BY <1>1, <2>2, <2>3 DEF IInv, Types, Started
<1>5. InCell'
  <2>1. ASSUME NEW t \in Threads PROVE k'[t] # 0 => HasCell(t[1], t[2])
    BY <1>1, <1>3 DEF IInv, Types, InCell
  <2> QED  BY <1>1, <2>1 DEF IInv, InCell, HasCell
<1>6. Sums'
  <2>1. acc[t0] (+) SetToBag({ReferenceProduct(shape, m, n, i)})
          = PartialReference(shape, m, n, i + 1)
    <3>1. acc[t0] = PartialReference(shape, m, n, i)
      BY DEF IInv, Sums
    <3> QED  BY <1>2, <1>3, <3>1, OneMore
  <2>2. ASSUME NEW t \in Threads
        PROVE  acc'[t] = PartialReference(shape, t[2], t[1], k'[t])
    <3>1. CASE t = t0
      BY <1>1, <2>1, <3>1 DEF IInv, Types
    <3>2. CASE t # t0
      BY <1>1, <3>2 DEF IInv, Types, Sums
    <3> QED  BY <3>1, <3>2
  <2> QED  BY <1>1, <2>2 DEF Sums
<1>7. Unstored'
  BY <1>1 DEF IInv, Unstored, HasCell
<1> QED  BY <1>4, <1>5, <1>6, <1>7 DEF IInv

LEMMA StoreCellKeeps ==
    ASSUME IInv, NEW n, NEW m, <<n, m>> \in Threads, StoreCell(n, m)
    PROVE  IInv'
<1>1. /\ shape' = shape /\ status' = status /\ k' = k /\ acc' = acc /\ Threads' = Threads
      /\ pc[<<n, m>>] = "loop"
      /\ pc' = [pc EXCEPT ![<<n, m>>] = "returned"]
      /\ out' = [out EXCEPT ![<<m, n>>] = acc[<<n, m>>]]
  BY DEF StoreCell, Threads
<1>2. Types' /\ Started'
  BY <1>1 DEF IInv, Types, Started
<1>3. InCell' /\ Sums'
  BY <1>1 DEF IInv, Types, InCell, Sums, HasCell
<1>4. Unstored'
  <2>1. ASSUME NEW t \in Threads, HasCell(t[1], t[2]), pc'[t] # "returned"
        PROVE  out'[<<t[2], t[1]>>] = NoValue
    <3>1. t # <<n, m>> /\ pc[t] # "returned"
      BY <1>1, <2>1 DEF IInv, Types
    <3>2. t = <<t[1], t[2]>>
      BY ThreadIs DEF IInv, Types
    <3>3. <<t[2], t[1]>> # <<m, n>>
      BY <3>1, <3>2
    <3>4. out[<<t[2], t[1]>>] = NoValue
      BY <2>1, <3>1 DEF IInv, Unstored
    <3>5. <<t[2], t[1]>> \in Cells(shape)
      BY <2>1, ThreadIs, HasCellMeans DEF IInv, Types
    <3> QED  BY <1>1, <3>3, <3>4, <3>5 DEF IInv, Types
  <2> QED  BY <1>1, <2>1 DEF Unstored, HasCell
<1> QED  BY <1>2, <1>3, <1>4 DEF IInv

LEMMA LaunchKeeps == ASSUME IInv, Launch PROVE IInv'
<1>1. /\ shape' = shape /\ pc' = pc /\ k' = k /\ acc' = acc /\ out' = out
      /\ Threads' = Threads
      /\ status' = IF shape \in Launchable THEN "running" ELSE "failed"
  BY DEF Launch, Threads
<1>2. Types' /\ Started'
  BY <1>1 DEF IInv, Types, Started
<1>3. InCell' /\ Sums' /\ Unstored'
  BY <1>1 DEF IInv, InCell, Sums, Unstored, HasCell
<1> QED  BY <1>2, <1>3 DEF IInv

\* The invariant is inductive.
LEMMA StepKeeps == IInv /\ [Next]_vars => IInv'
<1> SUFFICES ASSUME IInv, [Next]_vars PROVE IInv'
  OBVIOUS
<1>1. CASE UNCHANGED vars
  BY <1>1 DEF vars, IInv, Types, Started, InCell, Sums, Unstored, HasCell, Threads
<1>2. CASE Launch
  BY <1>2, LaunchKeeps
<1>3. CASE Run
  BY <1>3, EnterKeeps, AccumulateKeeps, StoreCellKeeps DEF Run, Thread, Threads
<1> QED  BY <1>1, <1>2, <1>3 DEF Next, Finished

LEMMA Always == Spec => []IInv
<1> QED  BY Initially, StepKeeps, PTL DEF Spec

-----------------------------------------------------------------------------
(* Types; every operand a thread multiplies lies in its tensor, for shapes *)
(* that leave threads of the last blocks beyond M and N                    *)
(* (dequant_gemm_naive.cu:14).                                             *)
THEOREM TypesHold == Spec => []TypeOK
<1>1. IInv => TypeOK
  <2> SUFFICES ASSUME IInv PROVE TypeOK
    OBVIOUS
  <2>1. ASSUME NEW t \in Threads
        PROVE  IsABag(acc[t]) /\ BagToSet(acc[t]) \subseteq ProductType(shape)
    <3> DEFINE S == {ReferenceProduct(shape, t[2], t[1], i) : i \in 0 .. k[t] - 1}
    <3>1. acc[t] = SetToBag(S)
      BY DEF IInv, Sums, PartialReference
    <3>2. S \subseteq ProductType(shape)
      <4>1. shape \in Shapes /\ shape.K \in Nat /\ k[t] \in 0 .. shape.K
        BY ShapeFacts DEF IInv, Types, Positive
      <4>2. CASE k[t] = 0
        <5>1. 0 .. k[t] - 1 = {}
          BY <4>2
        <5> QED  BY <5>1
      <4>3. CASE k[t] # 0
        <5>1. t[2] \in 0 .. shape.M - 1 /\ t[1] \in 0 .. shape.N - 1
          BY <4>1, <4>3, ThreadIs, HasCellMeans DEF IInv, InCell
        <5>2. 0 .. k[t] - 1 \subseteq 0 .. shape.K - 1
          BY <4>1
        <5> QED  BY <4>1, <5>1, <5>2, ReferenceInTensors
      <4> QED  BY <4>2, <4>3
    <3> HIDE DEF S
    <3> QED  BY <3>1, <3>2 DEF SetToBag, IsABag, BagToSet
  <2> QED  BY <2>1 DEF IInv, Types, TypeOK
<1> QED  BY <1>1, Always, PTL

\* A store is a store of the reference's cell, for the first time; nothing
\* else a thread does is visible.
LEMMA StepRefines == IInv /\ [Next]_vars => [Ref!Next]_(Ref!vars)
<1> SUFFICES ASSUME IInv, [Next]_vars PROVE [Ref!Next]_(Ref!vars)
  OBVIOUS
<1>1. CASE UNCHANGED vars
  BY <1>1 DEF vars, Ref!vars
<1>2. ASSUME NEW n \in Covering(shape.N, BlockX), NEW m \in Covering(shape.M, BlockY),
             Enter(n, m) \/ Accumulate(n, m)
      PROVE  UNCHANGED Ref!vars
  BY <1>2 DEF Enter, Accumulate, Ref!vars
<1>3. ASSUME NEW n \in Covering(shape.N, BlockX), NEW m \in Covering(shape.M, BlockY),
             StoreCell(n, m), status = "running"
      PROVE  Ref!Next
  <2>1. /\ <<n, m>> \in Threads /\ shape' = shape
        /\ pc[<<n, m>>] = "loop" /\ k[<<n, m>>] = shape.K
        /\ out' = [out EXCEPT ![<<m, n>>] = acc[<<n, m>>]]
    BY <1>3 DEF StoreCell, Threads
  <2>2. n \in Nat /\ m \in Nat /\ HasCell(n, m)
    BY <2>1, ThreadIs DEF IInv, Types, InCell
  <2>3. m \in 0 .. shape.M - 1 /\ n \in 0 .. shape.N - 1
    BY <2>2, HasCellMeans DEF IInv, Types
  <2>4. out[<<m, n>>] = NoValue
    BY <2>1, <2>2 DEF IInv, Unstored
  <2>5. acc[<<n, m>>] = Ref!Reference(shape, m, n)
    <3>1. acc[<<n, m>>] = PartialReference(shape, m, n, shape.K)
      BY <2>1 DEF IInv, Sums
    <3>2. \A i : Ref!ReferenceProduct(shape, m, n, i) = ReferenceProduct(shape, m, n, i)
      BY DEF Ref!ReferenceProduct, ReferenceProduct, Ref!Product, Product,
             Ref!HalfK, HalfK, Ref!Groups, Groups
    <3>3. Ref!Reference(shape, m, n) = PartialReference(shape, m, n, shape.K)
      BY <3>2 DEF Ref!Reference, Ref!PartialReference, PartialReference, Ref!SetToBag, SetToBag
    <3> QED  BY <3>1, <3>3
  <2>6. Ref!Store(m, n)
    BY <2>1, <2>4, <2>5 DEF Ref!Store
  <2>7. shape \in Launchable
    BY <1>3 DEF IInv, Started
  <2> QED  BY <2>3, <2>6, <2>7 DEF Ref!Next
<1>4. CASE Next
  BY <1>2, <1>3, <1>4 DEF Next, Launch, Run, Thread, Finished, vars, Ref!vars
<1> QED  BY <1>1, <1>4

(* The kernel implements Gemm (the safety part of ImplementsGemm).  Cells  *)
(* are stored in some order, each once, each with exactly the reference's  *)
(* products (dequant_gemm_naive.cu:12-30), and only by a launch whose grid *)
(* the device starts; when M needs too many blocks in y, none is ever      *)
(* stored, and the caller is not told (dequant_gemm_naive.cu:40-41).       *)
THEOREM RefinesGemm == Spec => Ref!Init /\ [][Ref!Next]_(Ref!vars)
<1>1. Init => Ref!Init
  BY DEF Init, Ref!Init, Cells, Ref!Cells
<1> QED  BY <1>1, StepRefines, Always, PTL DEF Spec
=============================================================================
