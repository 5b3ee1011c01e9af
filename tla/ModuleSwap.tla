------------------------------ MODULE ModuleSwap ------------------------------
(***************************************************************************)
(* The end-to-end benchmark (python/benchmarks/phase5b_end_to_end.py): one *)
(* model measured as it is, then with every linear layer substituted by an *)
(* INT4 module of one class, then of another, and restored after each      *)
(* (substitute_all and restore_all of phase5b_modules.py).  Any step on    *)
(* the GPU may run out of memory, which nothing catches.                   *)
(***************************************************************************)
EXTENDS Naturals, Sequences, FiniteSets

CONSTANTS
    N_TRANSFORMER_BLOCKS,
    LinearNames,  \* how many LINEAR_NAMES
    Prompts       \* ids of the prompts, in order

ASSUME SwapAssumption ==
    N_TRANSFORMER_BLOCKS \in Nat /\ LinearNames \in Nat /\ Prompts \in Seq(STRING)

VARIABLES
    step,       \* what main() is doing
    label,      \* the configuration it is at
    installed,  \* the module in each slot of the model
    onGpu,      \* slots whose fp16 module is in GPU memory
    taken,      \* the list() being traversed: it holds what it lists
    at,         \* the position in it
    originals,  \* fp16 modules put aside
    rows,       \* all_results
    results     \* results.json: "earlier", "torn" or "whole"

vars == <<step, label, installed, onGpu, taken, at, originals, rows, results>>

\* Positions in the order of iter_phi3_linears.
Layers == N_TRANSFORMER_BLOCKS * LinearNames
Slots == 1 .. Layers

Labels == {"fp16", "eager_int4", "kernel_int4"}
Module(kind, slot) == [kind |-> kind, of |-> slot]

Init ==
    /\ step = "measure" /\ label = "fp16"
    /\ installed = [s \in Slots |-> Module("fp16", s)] /\ onGpu = Slots
    /\ taken = << >> /\ at = 1 /\ originals = << >>
    /\ rows = [l \in Labels |-> << >>] /\ results = "earlier"

\* Mistake: the second substitution uses the first one's class.
BugSameClass(l) == "eager_int4"

\* The class main() passes to substitute_all for a label.
ClassOf(l) == l

\* Mistake: one configuration misses the last prompt, which zip hides.
BugMissesLast(l) ==
    IF l = "kernel_int4" THEN SubSeq(Prompts, 1, Len(Prompts) - 1) ELSE Prompts

PromptsOf(l) == Prompts

\* timed_generate for the next prompt; the warm-up leaves no row.
TimedGenerate ==
    /\ step = "measure"
    /\ Len(rows[label]) < Len(PromptsOf(label))
    /\ rows' = [rows EXCEPT ![label] = Append(@,
                  [id |-> PromptsOf(label)[Len(@) + 1], by |-> installed,
                   ready |-> {s \in Slots : installed[s].kind = "fp16"} \subseteq onGpu])]
    /\ UNCHANGED <<step, label, installed, onGpu, taken, at, originals, results>>

\* The baseline needs no restore_all.
Measured ==
    /\ step = "measure"
    /\ Len(rows[label]) = Len(PromptsOf(label))
    /\ IF label = "fp16"
       THEN step' = "between" /\ UNCHANGED <<taken, at>>
       ELSE step' = "restore" /\ taken' = installed /\ at' = 1
    /\ UNCHANGED <<label, installed, onGpu, originals, rows, results>>

SubstituteAll ==
    /\ step = "between" /\ label # "kernel_int4"
    /\ label' = IF label = "fp16" THEN "eager_int4" ELSE "kernel_int4"
    /\ step' = "substitute" /\ taken' = installed /\ at' = 1 /\ originals' = << >>
    /\ UNCHANGED <<installed, onGpu, rows, results>>

MovedToCpu(slot) == onGpu \ {slot}

\* The INT4 module is built from the fp16 layer, which must have a bias
\* attribute to look at, and takes its place; then the fp16 layer moves.
Substitute ==
    /\ step = "substitute" /\ at \in Slots
    /\ taken[at].kind = "fp16"
    /\ installed' = [installed EXCEPT ![at] = Module(ClassOf(label), taken[at].of)]
    /\ originals' = Append(originals, taken[at])
    /\ onGpu' = MovedToCpu(taken[at].of)
    /\ at' = at + 1
    /\ UNCHANGED <<step, label, taken, rows, results>>

Substituted ==
    /\ step = "substitute" /\ at \notin Slots
    /\ step' = "measure" /\ taken' = << >>
    /\ UNCHANGED <<label, installed, onGpu, at, originals, rows, results>>

\* Mistake: originals are taken from the end of the list, as from a stack.
BugPop(i) == originals[Len(originals) + 1 - i]

\* next(it)
NextOriginal(i) == originals[i]

\* Mistake: the fp16 layer is put back and stays in host memory.
BugStaysOnCpu(slot) == onGpu

MovedToGpu(slot) == onGpu \cup {slot}

Restore ==
    /\ step = "restore" /\ at \in Slots
    /\ installed' = [installed EXCEPT ![at] = NextOriginal(at)]
    /\ onGpu' = MovedToGpu(NextOriginal(at).of)
    /\ at' = at + 1
    /\ UNCHANGED <<step, label, taken, originals, rows, results>>

\* The list, and with it the last INT4 modules, goes; main() drops originals.
Restored ==
    /\ step = "restore" /\ at \notin Slots
    /\ step' = "between" /\ taken' = << >> /\ originals' = << >>
    /\ UNCHANGED <<label, installed, onGpu, at, rows, results>>

\* Out of memory: the exception ends the script.
RunOutOfMemory ==
    /\ step \in {"measure", "substitute", "restore"}
    /\ step' = "failed"
    /\ UNCHANGED <<label, installed, onGpu, taken, at, originals, rows, results>>

\* per_prompt zips the two INT4 configurations; open(out_path, "w").
OpenResults ==
    /\ step = "between" /\ label = "kernel_int4"
    /\ IF \A i \in 1 .. Len(Prompts) :
            i <= Len(rows["eager_int4"]) /\ i <= Len(rows["kernel_int4"])
              => rows["eager_int4"][i].id = rows["kernel_int4"][i].id
       THEN step' = "dump" /\ results' = "torn"
       ELSE step' = "failed" /\ UNCHANGED results
    /\ UNCHANGED <<label, installed, onGpu, taken, at, originals, rows>>

Dump ==
    /\ step = "dump"
    /\ \/ results' = "whole" /\ step' = "done"
       \/ results' = "torn" /\ step' = "failed"
    /\ UNCHANGED <<label, installed, onGpu, taken, at, originals, rows>>

Ended == step \in {"done", "failed"} /\ UNCHANGED vars

Next ==
    \/ TimedGenerate \/ Measured \/ SubstituteAll \/ Substitute \/ Substituted
    \/ Restore \/ Restored \/ RunOutOfMemory \/ OpenResults \/ Dump \/ Ended

Spec == Init /\ [][Next]_vars

-----------------------------------------------------------------------------
TypeOK ==
    /\ step \in {"measure", "between", "substitute", "restore", "dump", "done", "failed"}
    /\ label \in Labels
    /\ installed \in [Slots -> [kind : Labels, of : Slots]]
    /\ onGpu \subseteq Slots
    /\ taken = << >> \/ taken \in [Slots -> [kind : Labels, of : Slots]]
    /\ at \in 1 .. Layers + 1
    /\ originals = << >> \/ originals \in [1 .. at - 1 -> [kind : Labels, of : Slots]]
                         \/ originals \in [Slots -> [kind : Labels, of : Slots]]
    /\ results \in {"earlier", "torn", "whole"}

(* Whatever is substituted or put back, each slot computes with its own    *)
(* layer's weights: the originals come back in the order they were taken.  *)
OwnLayers == \A s \in Slots : installed[s].of = s

(* A latency stands under the label of the modules that ran: all of one    *)
(* class, none left over from the configuration before, fp16 layers in GPU *)
(* memory ("the only variable being measured is which code computes the    *)
(* matmul", phase5b_modules.py:5-6).                                       *)
MeasuredAsLabelled ==
    \A l \in Labels : \A i \in 1 .. Len(rows[l]) :
      rows[l][i].ready /\ \A s \in Slots : rows[l][i].by[s] = Module(l, s)

\* INT4 modules that something still refers to, on the GPU.
Int4Alive ==
    {installed[s].of : s \in {x \in Slots : installed[x].kind # "fp16"}} \cup
    {taken[i].of : i \in {x \in DOMAIN taken : taken[x].kind # "fp16"}}

\* Slots with both of their modules in GPU memory.
Twice == onGpu \cap Int4Alive

(* Between two configurations the model is the one that was loaded, and    *)
(* nothing of the INT4 modules is left in GPU memory (restore_all,         *)
(* "freeing the INT4 modules they replace").                               *)
BetweenIsOriginal ==
    step = "between" =>
      /\ installed = [s \in Slots |-> Module("fp16", s)]
      /\ onGpu = Slots /\ Int4Alive = {} /\ originals = << >>

(* Substitution holds a layer twice only while it is at that layer         *)
(* ("keeping both the fp16 original and the new INT4 module GPU-resident   *)
(* at once across all 128 layers would roughly double peak VRAM").         *)
SubstituteFrees == step = "substitute" => Twice = {}

(* The file compares every prompt under one INT4 configuration with the    *)
(* same prompt under the other: zip, which stops at the shorter list and   *)
(* says nothing, leaves none out.                                          *)
EveryPromptCompared ==
    results = "whole" =>
      \A l \in Labels :
        /\ Len(rows[l]) = Len(Prompts)
        /\ \A i \in 1 .. Len(Prompts) : rows[l][i].id = Prompts[i]

(* While restoring, every slot already passed is held twice: the list that *)
(* restore_all traverses keeps the INT4 modules it replaces alive until    *)
(* the loop ends, so restoring ends at the peak substitute_all avoids.     *)
RestoreHoldsBoth == step = "restore" => Twice = 1 .. at - 1

(* The layers that are in GPU memory in both forms at each moment of a     *)
(* substitution and of a restoration, hence the peak of the whole script.  *)
HeldTwice == SubstituteFrees /\ RestoreHoldsBoth
=============================================================================
