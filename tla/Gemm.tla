-------------------------------- MODULE Gemm --------------------------------
(***************************************************************************)
(* What a dequantize-and-multiply kernel does for whoever launches it: a   *)
(* launch the device accepts stores every cell of the output, once, with   *)
(* the sum of exactly the reference's K products, the cells in any order;  *)
(* one it refuses stores nothing, and tells nobody.                        *)
(***************************************************************************)
EXTENDS Layout

CONSTANT Launchable   \* the shapes whose launch the device accepts

VARIABLES shape, out

vars == <<shape, out>>

Init ==
    /\ shape \in Shapes
    /\ out = [c \in Cells(shape) |-> NoValue]

Store(m, n) ==
    /\ out[<<m, n>>] = NoValue
    /\ out' = [out EXCEPT ![<<m, n>>] = Reference(shape, m, n)]
    /\ UNCHANGED shape

Next ==
    /\ shape \in Launchable
    /\ \E m \in 0 .. shape.M - 1, n \in 0 .. shape.N - 1 : Store(m, n)

Spec == Init /\ [][Next]_vars /\ WF_vars(Next)
=============================================================================
