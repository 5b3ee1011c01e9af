---------------------------- MODULE PluginWeights ----------------------------
(***************************************************************************)
(* What the plugin's clones promise TensorRT: each is a value of its own.  *)
(* It holds the weights it was created or cloned with until it is          *)
(* destroyed, whatever becomes of the others, and serializes exactly them. *)
(***************************************************************************)
CONSTANTS
    Objects,  \* places for plugin objects
    Data,     \* N, K, group_size, packed and scale of a layer
    Gone,     \* no object
    NoPlan    \* nothing serialized yet

VARIABLES
    weights,  \* what each object holds
    plan      \* what was serialized last

vars == <<weights, plan>>

Init == weights = [o \in Objects |-> Gone] /\ plan = NoPlan

Create(o, d) ==
    /\ weights[o] = Gone
    /\ weights' = [weights EXCEPT ![o] = d]
    /\ UNCHANGED plan

Clone(source, o) ==
    /\ weights[source] # Gone /\ weights[o] = Gone
    /\ weights' = [weights EXCEPT ![o] = weights[source]]
    /\ UNCHANGED plan

Destroy(o) ==
    /\ weights[o] # Gone
    /\ weights' = [weights EXCEPT ![o] = Gone]
    /\ UNCHANGED plan

Serialize(o) ==
    /\ weights[o] # Gone
    /\ plan' = weights[o]
    /\ UNCHANGED weights

Next ==
    \E o \in Objects :
      \/ \E d \in Data : Create(o, d)
      \/ \E source \in Objects : Clone(source, o)
      \/ Destroy(o) \/ Serialize(o)

Spec == Init /\ [][Next]_vars
=============================================================================
