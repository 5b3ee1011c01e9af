----------------------------- MODULE NaiveKernel -----------------------------
(***************************************************************************)
(* One launch of dequant_gemm_naive_kernel: a thread per cell of the       *)
(* output, in blocks that cover it and may reach beyond it.  A thread is   *)
(* <<n, m>>, the cell it computes; threads share nothing.  The grid may be *)
(* too tall for the device, which then starts no thread.                   *)
(***************************************************************************)
EXTENDS Layout

CONSTANTS
    BlockX, BlockY,  \* block(16, 16)
    GridLimitY       \* blocks a grid may have in y

ASSUME BlockAssumption ==
    BlockX \in Positive /\ BlockY \in Positive /\ GridLimitY \in Nat

VARIABLES
    shape,  \* M, N, K, group_size of this launch
    status, \* "ready", "running", "failed" (not started)
    pc,     \* per thread: "enter", "loop", "returned"
    k,      \* per thread: its loop counter
    acc,    \* per thread: the products it has summed
    out     \* the output tensor

vars == <<shape, status, pc, k, acc, out>>

\* As many blocks as it takes to cover size cells, and their threads.
BlocksFor(size, block) == (size + block - 1) \div block
Covering(size, block) == 0 .. BlocksFor(size, block) * block - 1

Threads == Covering(shape.N, BlockX) \X Covering(shape.M, BlockY)

(* M is laid out along y, where a grid is narrow (65535 blocks); along x,  *)
(* where N is, it takes every int.                                         *)
Launchable == {s \in Shapes : BlocksFor(s.M, BlockY) <= GridLimitY}

Init ==
    /\ shape \in Shapes
    /\ status = "ready"
    /\ pc = [t \in Threads |-> "enter"]
    /\ k = [t \in Threads |-> 0]
    /\ acc = [t \in Threads |-> EmptyBag]
    /\ out = [c \in Cells(shape) |-> NoValue]

\* A grid too tall is not started; nobody looks at the error.
Launch ==
    /\ status = "ready"
    /\ status' = IF shape \in Launchable THEN "running" ELSE "failed"
    /\ UNCHANGED <<shape, pc, k, acc, out>>

HasCell(n, m) == m < shape.M /\ n < shape.N

Enter(n, m) ==
    /\ pc[<<n, m>>] = "enter"
    /\ pc' = [pc EXCEPT ![<<n, m>>] = IF HasCell(n, m) THEN "loop" ELSE "returned"]
    /\ UNCHANGED <<shape, status, k, acc, out>>

\* Mistake: the high nibble is taken for the even column.
BugHighFirst(i) == 1 - (i % 2)

\* Which nibble of its byte column i is in.
Nibble(i) == i % 2

Accumulate(n, m) ==
    /\ pc[<<n, m>>] = "loop"
    /\ k[<<n, m>>] < shape.K
    /\ LET i == k[<<n, m>>]
       IN  acc' = [acc EXCEPT ![<<n, m>>] =
                     @ (+) SetToBag({Product(m * shape.K + i,
                                             n * HalfK(shape) + i \div 2,
                                             Nibble(i),
                                             n * Groups(shape) + i \div shape.group_size)})]
    /\ k' = [k EXCEPT ![<<n, m>>] = @ + 1]
    /\ UNCHANGED <<shape, status, pc, out>>

StoreCell(n, m) ==
    /\ pc[<<n, m>>] = "loop"
    /\ k[<<n, m>>] = shape.K
    /\ out' = [out EXCEPT ![<<m, n>>] = acc[<<n, m>>]]
    /\ pc' = [pc EXCEPT ![<<n, m>>] = "returned"]
    /\ UNCHANGED <<shape, status, k, acc>>

Thread(n, m) == Enter(n, m) \/ Accumulate(n, m) \/ StoreCell(n, m)

Run ==
    /\ status = "running"
    /\ \E n \in Covering(shape.N, BlockX), m \in Covering(shape.M, BlockY) : Thread(n, m)

Finished ==
    /\ status = "failed" \/ \A t \in Threads : pc[t] = "returned"
    /\ UNCHANGED vars

Next == Launch \/ Run \/ Finished

\* The device does not stop while a thread can take a step.
Spec == Init /\ [][Next]_vars /\ WF_vars(Next)

-----------------------------------------------------------------------------
(* Types, and with them that the early return keeps every thread inside    *)
(* the tensors: threads of the last blocks reach beyond M and N.           *)
TypeOK ==
    /\ shape \in Shapes
    /\ status \in {"ready", "running", "failed"}
    /\ pc \in [Threads -> {"enter", "loop", "returned"}]
    /\ k \in [Threads -> 0 .. shape.K]
    /\ \A t \in Threads :
         /\ IsABag(acc[t])
         /\ BagToSet(acc[t]) \subseteq ProductType(shape)
    /\ DOMAIN out = Cells(shape)

(* The kernel implements Gemm, whatever shape check_inputs accepts: the    *)
(* kernel tests' claim that it matches the Python reference, for every     *)
(* grid that is not too tall; for one that is, no cell is ever stored.     *)
Ref == INSTANCE Gemm
ImplementsGemm == Ref!Spec
=============================================================================
