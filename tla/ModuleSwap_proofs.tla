-------------------------- MODULE ModuleSwap_proofs --------------------------
(***************************************************************************)
(* For any number of blocks, layers and prompts: substitution and          *)
(* restoration are inverse, so every slot keeps its own layer's weights,   *)
(* every latency stands under the label of the modules that ran, and       *)
(* between configurations the model is the one that was loaded, and a      *)
(* whole file compares every prompt under every configuration.  The        *)
(* invariant gives the exact contents of the slots, of the list of         *)
(* originals and of GPU memory at each position of either traversal.       *)
(***************************************************************************)
EXTENDS ModuleSwap, TLAPS

Fp16 == [s \in Slots |-> Module("fp16", s)]
Int4(l) == [s \in Slots |-> Module(l, s)]
Int4Labels == {"eager_int4", "kernel_int4"}

\* What each label's measurement needs.
MeasureInv ==
    step = "measure" =>
      /\ installed = Int4(label) /\ taken = << >>
      /\ IF label = "fp16" THEN onGpu = Slots /\ originals = << >>
                           ELSE onGpu = {} /\ originals = Fp16

BetweenInv ==
    step = "between" =>
      installed = Fp16 /\ onGpu = Slots /\ taken = << >> /\ originals = << >>

SubstituteInv ==
    step = "substitute" =>
      /\ label \in Int4Labels /\ taken = Fp16
      /\ installed = [s \in Slots |-> Module(IF s < at THEN label ELSE "fp16", s)]
      /\ onGpu = {s \in Slots : at <= s}
      /\ originals = [i \in 1 .. at - 1 |-> Module("fp16", i)]

RestoreInv ==
    step = "restore" =>
      /\ label \in Int4Labels /\ taken = Int4(label) /\ originals = Fp16
      /\ installed = [s \in Slots |-> Module(IF s < at THEN "fp16" ELSE label, s)]
      /\ onGpu = {s \in Slots : s < at}

Row == [id : STRING, by : [Slots -> [kind : Labels, of : Slots]], ready : BOOLEAN]

Basics ==
    /\ label \in Labels /\ at \in 1 .. Layers + 1
    /\ step \in {"measure", "between", "substitute", "restore", "dump", "done", "failed"}
    /\ results \in {"earlier", "torn", "whole"}
    /\ installed \in [Slots -> [kind : Labels, of : Slots]]
    /\ rows \in [Labels -> Seq(Row)]

IndInv ==
    /\ Basics /\ OwnLayers /\ MeasuredAsLabelled
    /\ MeasureInv /\ BetweenInv /\ SubstituteInv /\ RestoreInv

LEMMA LayersNat == Layers \in Nat
BY SwapAssumption DEF Layers

LEMMA InitInv == Init => IndInv
<1> SUFFICES ASSUME Init PROVE IndInv
  OBVIOUS
<1>1. Basics /\ OwnLayers
  BY LayersNat DEF Init, Basics, OwnLayers, Labels, Module, Slots
<1>2. MeasuredAsLabelled
  BY DEF Init, MeasuredAsLabelled
<1>3. MeasureInv /\ BetweenInv /\ SubstituteInv /\ RestoreInv
  BY DEF Init, MeasureInv, BetweenInv, SubstituteInv, RestoreInv, Int4
<1> QED BY <1>1, <1>2, <1>3 DEF IndInv

\* A row is right when it is written, and rows stay.
LEMMA TimedGenerateStep == IndInv /\ TimedGenerate => IndInv'
<1> SUFFICES ASSUME IndInv, TimedGenerate PROVE IndInv'
  OBVIOUS
<1> DEFINE ready == {s \in Slots : installed[s].kind = "fp16"} \subseteq onGpu
           i == Len(rows[label]) + 1
           row == [id |-> Prompts[i], by |-> installed, ready |-> ready]
<1>1. label \in Labels /\ rows[label] \in Seq(Row) /\ Len(rows[label]) \in Nat
  BY DEF IndInv, Basics
<1>2. row \in Row
  <2>1. i \in 1 .. Len(Prompts)
    BY <1>1, SwapAssumption DEF TimedGenerate, PromptsOf
  <2>2. Prompts[i] \in STRING
    BY <2>1, SwapAssumption
  <2> QED BY <2>2 DEF IndInv, Basics, Row
<1>3. rows' = [rows EXCEPT ![label] = Append(rows[label], row)]
  BY DEF TimedGenerate, PromptsOf
<1>4. ready /\ \A s \in Slots : installed[s] = Module(label, s)
  BY DEF IndInv, MeasureInv, TimedGenerate, Int4, Module
<1> HIDE DEF ready, i, row
<1>5. rows' \in [Labels -> Seq(Row)]
  BY <1>1, <1>2, <1>3 DEF IndInv, Basics
<1>6. Basics' /\ OwnLayers'
  BY <1>5 DEF IndInv, Basics, OwnLayers, TimedGenerate
<1>7. ASSUME NEW l \in Labels, NEW j \in 1 .. Len(rows'[l])
      PROVE  rows'[l][j].ready /\ \A s \in Slots : rows'[l][j].by[s] = Module(l, s)
  <2>1. CASE l # label
    <3>1. rows'[l] = rows[l]
      BY <1>3, <2>1 DEF IndInv, Basics
    <3> QED BY <3>1 DEF IndInv, MeasuredAsLabelled
  <2>2. CASE l = label /\ j = Len(rows[label]) + 1
    <3>1. rows'[l][j] = row
      BY <1>1, <1>2, <1>3, <2>2 DEF IndInv, Basics
    <3> QED BY <1>4, <2>2, <3>1 DEF row
  <2>3. CASE l = label /\ j # Len(rows[label]) + 1
    <3>1. rows'[l][j] = rows[l][j] /\ j \in 1 .. Len(rows[l])
      BY <1>1, <1>2, <1>3, <2>3 DEF IndInv, Basics
    <3> QED BY <3>1 DEF IndInv, MeasuredAsLabelled
  <2> QED BY <2>1, <2>2, <2>3
<1>8. MeasuredAsLabelled'
  BY <1>7 DEF MeasuredAsLabelled
<1>9. MeasureInv' /\ BetweenInv' /\ SubstituteInv' /\ RestoreInv'
  BY DEF IndInv, MeasureInv, BetweenInv, SubstituteInv, RestoreInv, TimedGenerate
<1> QED BY <1>6, <1>8, <1>9 DEF IndInv

LEMMA MeasuredStep == IndInv /\ Measured => IndInv'
<1> SUFFICES ASSUME IndInv, Measured PROVE IndInv'
  OBVIOUS
<1>1. Basics' /\ OwnLayers' /\ MeasuredAsLabelled'
  BY LayersNat DEF IndInv, Basics, OwnLayers, MeasuredAsLabelled, Measured
<1>2. MeasureInv' /\ SubstituteInv'
  BY DEF MeasureInv, SubstituteInv, Measured
<1>3. BetweenInv'
  BY DEF IndInv, MeasureInv, BetweenInv, Measured, Fp16, Int4
<1>4. RestoreInv'
  <2> SUFFICES ASSUME step' = "restore" PROVE RestoreInv'
    BY DEF RestoreInv
  <2>1. label \in Int4Labels /\ installed = Int4(label) /\ originals = Fp16 /\ onGpu = {}
    BY DEF IndInv, Basics, Labels, Int4Labels, MeasureInv, Measured
  <2>2. UNCHANGED <<label, installed, onGpu, originals>> /\ taken' = installed /\ at' = 1
    BY DEF Measured
  <2>3. onGpu' = {s \in Slots : s < at'}
    BY <2>1, <2>2, LayersNat DEF Slots
  <2>4. installed' = [s \in Slots |-> Module(IF s < at' THEN "fp16" ELSE label, s)]
    BY <2>1, <2>2, LayersNat DEF Slots, Int4
  <2> QED BY <2>1, <2>2, <2>3, <2>4 DEF RestoreInv
<1> QED BY <1>1, <1>2, <1>3, <1>4 DEF IndInv

LEMMA SubstituteAllStep == IndInv /\ SubstituteAll => IndInv'
<1> SUFFICES ASSUME IndInv, SubstituteAll PROVE IndInv'
  OBVIOUS
<1>1. Basics' /\ OwnLayers' /\ MeasuredAsLabelled'
  BY LayersNat DEF IndInv, Basics, Labels, OwnLayers, MeasuredAsLabelled, SubstituteAll
<1>2. MeasureInv' /\ BetweenInv' /\ RestoreInv'
  BY DEF MeasureInv, BetweenInv, RestoreInv, SubstituteAll
<1>3. installed = Fp16 /\ onGpu = Slots
  BY DEF IndInv, BetweenInv, SubstituteAll
<1>4. /\ label' \in Int4Labels /\ installed' = Fp16 /\ taken' = Fp16 /\ onGpu' = Slots
      /\ at' = 1 /\ originals' = << >>
  BY <1>3 DEF SubstituteAll, Int4Labels
<1>5. onGpu' = {s \in Slots : at' <= s}
  BY <1>4, LayersNat DEF Slots
<1>6. installed' = [s \in Slots |-> Module(IF s < at' THEN label' ELSE "fp16", s)]
  BY <1>4, LayersNat DEF Slots, Fp16
<1>7. originals' = [i \in 1 .. at' - 1 |-> Module("fp16", i)]
  BY <1>4
<1>8. SubstituteInv'
  BY <1>4, <1>5, <1>6, <1>7 DEF SubstituteInv
<1> QED BY <1>1, <1>2, <1>8 DEF IndInv

LEMMA SubstituteStep == IndInv /\ Substitute => IndInv'
<1> SUFFICES ASSUME IndInv, Substitute PROVE IndInv'
  OBVIOUS
<1>1. /\ at \in Slots /\ at' = at + 1 /\ label \in Int4Labels
      /\ taken[at] = Module("fp16", at)
      /\ UNCHANGED <<step, label, taken, rows, results>>
  BY DEF IndInv, SubstituteInv, Substitute, Fp16
<1>2. /\ installed' = [installed EXCEPT ![at] = Module(label, at)]
      /\ originals' = Append(originals, Module("fp16", at))
      /\ onGpu' = onGpu \ {at}
  BY <1>1 DEF Substitute, ClassOf, MovedToCpu, Module
<1>3. Basics'
  BY <1>1, <1>2, LayersNat DEF IndInv, Basics, Int4Labels, Labels, Module, Slots
<1>4. OwnLayers'
  BY <1>1, <1>2 DEF IndInv, Basics, OwnLayers, Module
<1>5. MeasuredAsLabelled'
  BY <1>1 DEF IndInv, MeasuredAsLabelled
<1>6. MeasureInv' /\ BetweenInv' /\ RestoreInv'
  BY DEF MeasureInv, BetweenInv, RestoreInv, Substitute
<1>7. /\ taken = Fp16 /\ onGpu = {s \in Slots : at <= s}
      /\ installed = [s \in Slots |-> Module(IF s < at THEN label ELSE "fp16", s)]
      /\ originals = [i \in 1 .. at - 1 |-> Module("fp16", i)]
  BY DEF IndInv, SubstituteInv, Substitute
<1>8. onGpu' = {s \in Slots : at' <= s}
  BY <1>1, <1>2, <1>7, LayersNat DEF Slots
<1>9. installed' = [s \in Slots |-> Module(IF s < at' THEN label ELSE "fp16", s)]
  <2>1. \A s \in Slots : (s < at') = (s < at \/ s = at)
    BY <1>1, LayersNat DEF Slots
  <2>2. \A s \in Slots : installed'[s] = Module(IF s < at' THEN label ELSE "fp16", s)
    BY <1>1, <1>2, <1>7, <2>1
  <2>3. installed' = [s \in Slots |-> installed'[s]]
    BY <1>2, <1>7
  <2> QED BY <2>2, <2>3
<1>10. originals' = [i \in 1 .. at' - 1 |-> Module("fp16", i)]
  BY <1>1, <1>2, <1>7, LayersNat DEF Slots
<1>11. SubstituteInv'
  BY <1>1, <1>7, <1>8, <1>9, <1>10 DEF SubstituteInv
<1> QED BY <1>3, <1>4, <1>5, <1>6, <1>11 DEF IndInv

LEMMA SubstitutedStep == IndInv /\ Substituted => IndInv'
<1> SUFFICES ASSUME IndInv, Substituted PROVE IndInv'
  OBVIOUS
<1>1. Basics' /\ OwnLayers' /\ MeasuredAsLabelled'
  BY DEF IndInv, Basics, OwnLayers, MeasuredAsLabelled, Substituted
<1>2. SubstituteInv' /\ BetweenInv' /\ RestoreInv'
  BY DEF SubstituteInv, BetweenInv, RestoreInv, Substituted
<1>3. at = Layers + 1
  BY LayersNat DEF IndInv, Basics, Slots, Substituted
<1>4. /\ label \in Int4Labels /\ onGpu = {s \in Slots : at <= s}
      /\ installed = [s \in Slots |-> Module(IF s < at THEN label ELSE "fp16", s)]
      /\ originals = [i \in 1 .. at - 1 |-> Module("fp16", i)]
  BY DEF IndInv, SubstituteInv, Substituted
<1>5. onGpu = {}
  BY <1>3, <1>4, LayersNat DEF Slots
<1>6. installed = Int4(label)
  BY <1>3, <1>4, LayersNat DEF Slots, Int4
<1>7. originals = Fp16
  BY <1>3, <1>4, LayersNat DEF Slots, Fp16
<1>8. MeasureInv'
  BY <1>4, <1>5, <1>6, <1>7 DEF MeasureInv, Int4Labels, Substituted
<1> QED BY <1>1, <1>2, <1>8 DEF IndInv

LEMMA RestoreStep == IndInv /\ Restore => IndInv'
<1> SUFFICES ASSUME IndInv, Restore PROVE IndInv'
  OBVIOUS
<1>1. /\ at \in Slots /\ at' = at + 1 /\ label \in Int4Labels
      /\ originals = Fp16 /\ taken = Int4(label)
      /\ onGpu = {s \in Slots : s < at}
      /\ installed = [s \in Slots |-> Module(IF s < at THEN "fp16" ELSE label, s)]
      /\ UNCHANGED <<step, label, taken, originals, rows, results>>
  BY DEF IndInv, RestoreInv, Restore
<1>2. originals[at] = Module("fp16", at)
  BY <1>1 DEF Fp16
<1>3. /\ installed' = [installed EXCEPT ![at] = Module("fp16", at)]
      /\ onGpu' = onGpu \cup {at}
  BY <1>2 DEF Restore, NextOriginal, MovedToGpu, Module
<1>4. Basics'
  BY <1>1, <1>3, LayersNat DEF IndInv, Basics, Labels, Module, Slots
<1>5. OwnLayers'
  BY <1>1, <1>3 DEF IndInv, Basics, OwnLayers, Module
<1>6. MeasuredAsLabelled'
  BY <1>1 DEF IndInv, MeasuredAsLabelled
<1>7. MeasureInv' /\ BetweenInv' /\ SubstituteInv'
  BY DEF MeasureInv, BetweenInv, SubstituteInv, Restore
<1>8. onGpu' = {s \in Slots : s < at'}
  BY <1>1, <1>3, LayersNat DEF Slots
<1>9. installed' = [s \in Slots |-> Module(IF s < at' THEN "fp16" ELSE label, s)]
  BY <1>1, <1>3, LayersNat DEF Slots
<1>10. RestoreInv'
  BY <1>1, <1>8, <1>9 DEF RestoreInv
<1> QED BY <1>4, <1>5, <1>6, <1>7, <1>10 DEF IndInv

LEMMA RestoredStep == IndInv /\ Restored => IndInv'
<1> SUFFICES ASSUME IndInv, Restored PROVE IndInv'
  OBVIOUS
<1>1. Basics' /\ OwnLayers' /\ MeasuredAsLabelled'
  BY DEF IndInv, Basics, OwnLayers, MeasuredAsLabelled, Restored
<1>2. SubstituteInv' /\ MeasureInv' /\ RestoreInv'
  BY DEF SubstituteInv, MeasureInv, RestoreInv, Restored
<1>3. at = Layers + 1
  BY LayersNat DEF IndInv, Basics, Slots, Restored
<1>4. /\ onGpu = {s \in Slots : s < at}
      /\ installed = [s \in Slots |-> Module(IF s < at THEN "fp16" ELSE label, s)]
  BY DEF IndInv, RestoreInv, Restored
<1>5. onGpu = Slots
  BY <1>3, <1>4, LayersNat DEF Slots
<1>6. installed = Fp16
  BY <1>3, <1>4, LayersNat DEF Slots, Fp16
<1>7. BetweenInv'
  BY <1>5, <1>6 DEF BetweenInv, Restored
<1> QED BY <1>1, <1>2, <1>7 DEF IndInv

\* Steps of the file, and the end: the model is left as it is.
LEMMA OtherSteps ==
    IndInv /\ (RunOutOfMemory \/ OpenResults \/ Dump \/ Ended) => IndInv'
<1> SUFFICES ASSUME IndInv, RunOutOfMemory \/ OpenResults \/ Dump \/ Ended PROVE IndInv'
  OBVIOUS
<1>1. /\ UNCHANGED <<label, installed, onGpu, taken, at, originals, rows>>
      /\ step' \in {"dump", "done", "failed"} /\ results' \in {"earlier", "torn", "whole"}
  BY DEF IndInv, Basics, RunOutOfMemory, OpenResults, Dump, Ended, vars
<1>2. Basics' /\ OwnLayers' /\ MeasuredAsLabelled'
  BY <1>1 DEF IndInv, Basics, OwnLayers, MeasuredAsLabelled
<1> QED BY <1>1, <1>2 DEF IndInv, MeasureInv, BetweenInv, SubstituteInv, RestoreInv

LEMMA IndStep == IndInv /\ [Next]_vars => IndInv'
<1> SUFFICES ASSUME IndInv, [Next]_vars PROVE IndInv'
  OBVIOUS
<1>1. CASE UNCHANGED vars
  <2>1. Basics' /\ OwnLayers' /\ MeasuredAsLabelled'
    BY <1>1 DEF vars, IndInv, Basics, OwnLayers, MeasuredAsLabelled
  <2>2. MeasureInv' /\ BetweenInv'
    BY <1>1 DEF vars, IndInv, MeasureInv, BetweenInv
  <2>3. SubstituteInv' /\ RestoreInv'
    BY <1>1 DEF vars, IndInv, SubstituteInv, RestoreInv
  <2> QED BY <2>1, <2>2, <2>3 DEF IndInv
<1> QED BY <1>1, TimedGenerateStep, MeasuredStep, SubstituteAllStep, SubstituteStep,
           SubstitutedStep, RestoreStep, RestoredStep, OtherSteps DEF Next

LEMMA InvHolds == Spec => []IndInv
BY InitInv, IndStep, PTL DEF Spec

(* Whatever is substituted or put back, each slot has its own layer.       *)
THEOREM SlotsKeepTheirLayer == Spec => []OwnLayers
BY InvHolds, PTL DEF IndInv

(* Every latency stands under the label of the modules that ran.           *)
THEOREM LatenciesAreLabelled == Spec => []MeasuredAsLabelled
BY InvHolds, PTL DEF IndInv

(* Between configurations the model is the loaded one, all in GPU memory,  *)
(* and no INT4 module is left.                                             *)
THEOREM RestoreUndoes == Spec => []BetweenIsOriginal
<1>1. IndInv => BetweenIsOriginal
  <2> SUFFICES ASSUME IndInv, step = "between" PROVE BetweenIsOriginal
    BY DEF BetweenIsOriginal
  <2>1. installed = Fp16 /\ onGpu = Slots /\ taken = << >> /\ originals = << >>
    BY DEF IndInv, BetweenInv
  <2>2. Int4Alive = {}
    BY <2>1 DEF Int4Alive, Fp16, Module
  <2> QED BY <2>1, <2>2 DEF BetweenIsOriginal, Fp16
<1> QED BY <1>1, InvHolds, PTL

(* While layers are substituted none is in GPU memory twice.               *)
THEOREM SubstitutionFrees == Spec => []SubstituteFrees
<1>1. IndInv => SubstituteFrees
  <2> SUFFICES ASSUME IndInv, step = "substitute", NEW s \in onGpu \cap Int4Alive
               PROVE  FALSE
    BY DEF SubstituteFrees, Twice
  <2>1. /\ taken = Fp16 /\ onGpu = {r \in Slots : at <= r} /\ at \in 1 .. Layers + 1
        /\ installed = [r \in Slots |-> Module(IF r < at THEN label ELSE "fp16", r)]
    BY DEF IndInv, Basics, SubstituteInv
  <2>2. PICK r \in Slots : s = r /\ installed[r].kind # "fp16"
    BY <2>1 DEF Int4Alive, Fp16, Module
  <2>3. r < at
    BY <2>1, <2>2 DEF Module
  <2> QED BY <2>1, <2>2, <2>3, LayersNat DEF Slots
<1> QED BY <1>1, InvHolds, PTL

(* While layers are restored, those already back are in GPU memory twice.  *)
THEOREM RestoringHoldsBoth == Spec => []RestoreHoldsBoth
<1>1. IndInv => RestoreHoldsBoth
  <2> SUFFICES ASSUME IndInv, step = "restore"
               PROVE  Twice = 1 .. at - 1
    BY DEF RestoreHoldsBoth
  <2>1. /\ taken = Int4(label) /\ onGpu = {r \in Slots : r < at}
        /\ label \in Int4Labels /\ at \in 1 .. Layers + 1
    BY DEF IndInv, Basics, RestoreInv
  <2>2. onGpu = 1 .. at - 1 /\ onGpu \subseteq Slots
    BY <2>1, LayersNat DEF Slots
  <2>3. DOMAIN taken = Slots
    BY <2>1 DEF Int4
  <2>4. ASSUME NEW r \in Slots PROVE taken[r].kind # "fp16" /\ taken[r].of = r
    BY <2>1 DEF Int4, Module, Int4Labels
  <2>5. Slots \subseteq Int4Alive
    BY <2>3, <2>4 DEF Int4Alive
  <2> QED BY <2>2, <2>5 DEF Twice
<1> QED BY <1>1, InvHolds, PTL

(* Which layers are held twice, and so how much GPU memory the script has  *)
(* at its peak: one layer more than the model while substituting, the      *)
(* model a second time at the end of restoring.                            *)
THEOREM PeakMemory == Spec => []HeldTwice
BY SubstitutionFrees, RestoringHoldsBoth, PTL DEF HeldTwice

-----------------------------------------------------------------------------
(* The rows of the result.  A configuration is left only when each of its  *)
(* prompts has a row; the file is written after the last.                  *)
Full(l) == Len(rows[l]) = Len(Prompts)

Earlier(l) ==
    {e \in Labels : \/ e = "fp16" /\ l # "fp16"
                    \/ e = "eager_int4" /\ l = "kernel_int4"}

OwnPrompts ==
    \A l \in Labels :
      /\ Len(rows[l]) <= Len(Prompts)
      /\ \A i \in 1 .. Len(rows[l]) : rows[l][i].id = Prompts[i]

FullInv ==
    /\ \A l \in Earlier(label) : Full(l)
    /\ step \in {"between", "restore", "dump", "done"} => Full(label)
    /\ step \in {"dump", "done"} => label = "kernel_int4"
    /\ results = "whole" => step = "done"

RowsInv == IndInv /\ OwnPrompts /\ FullInv

\* A row is added for the next prompt of the configuration at hand.
LEMMA RowAdded == RowsInv /\ TimedGenerate => OwnPrompts' /\ FullInv'
<1> SUFFICES ASSUME RowsInv, TimedGenerate PROVE OwnPrompts' /\ FullInv'
  OBVIOUS
<1>1. label \in Labels /\ rows \in [Labels -> Seq(Row)] /\ Len(Prompts) \in Nat
  BY SwapAssumption DEF RowsInv, IndInv, Basics
<1>2. PICK s \in Seq(Row) : s = rows[label]
  BY <1>1
<1>3. PICK r : rows' = [rows EXCEPT ![label] = Append(s, r)] /\ r.id = Prompts[Len(s) + 1]
  <2> DEFINE new == [id |-> Prompts[Len(s) + 1], by |-> installed,
                     ready |-> {x \in Slots : installed[x].kind = "fp16"} \subseteq onGpu]
  <2>1. rows' = [rows EXCEPT ![label] = Append(s, new)]
    BY <1>2 DEF TimedGenerate, PromptsOf
  <2>2. new.id = Prompts[Len(s) + 1]
    OBVIOUS
  <2> HIDE DEF new
  <2> QED BY <2>1, <2>2
<1>4. step = "measure" /\ Len(s) < Len(Prompts) /\ UNCHANGED <<step, label, results>>
  BY <1>2 DEF TimedGenerate, PromptsOf
<1>5. /\ rows'[label] = Append(s, r)
      /\ \A l \in Labels : l # label => rows'[l] = rows[l]
  BY <1>1, <1>3
<1>6. /\ Len(Append(s, r)) = Len(s) + 1 /\ Len(s) \in Nat
      /\ \A i \in 1 .. Len(s) + 1 : Append(s, r)[i] = IF i <= Len(s) THEN s[i] ELSE r
  BY <1>2
<1>7. ASSUME NEW l \in Labels
      PROVE  /\ Len(rows'[l]) <= Len(Prompts)
             /\ \A i \in 1 .. Len(rows'[l]) : rows'[l][i].id = Prompts[i]
  <2>1. /\ Len(rows[l]) <= Len(Prompts)
        /\ \A i \in 1 .. Len(rows[l]) : rows[l][i].id = Prompts[i]
    BY DEF RowsInv, OwnPrompts
  <2>2. CASE l # label
    BY <1>5, <2>1, <2>2
  <2>3. CASE l = label
    <3>1. \A i \in 1 .. Len(s) + 1 : i \in 1 .. Len(s) \/ i = Len(s) + 1
      BY <1>6
    <3>2. \A i \in 1 .. Len(s) : s[i].id = Prompts[i]
      BY <1>2, <2>1, <2>3
    <3>3. ASSUME NEW i \in 1 .. Len(s) + 1 PROVE Append(s, r)[i].id = Prompts[i]
      <4>1. CASE i \in 1 .. Len(s)
        <5>1. Append(s, r)[i] = s[i]
          BY <1>6, <4>1
        <5> QED BY <3>2, <4>1, <5>1
      <4>2. CASE i = Len(s) + 1
        <5>1. Append(s, r)[i] = r
          BY <1>6, <4>2
        <5> QED BY <1>3, <4>2, <5>1
      <4> QED BY <3>1, <4>1, <4>2
    <3>4. rows'[l] = Append(s, r) /\ Len(rows'[l]) = Len(s) + 1
      BY <1>5, <1>6, <2>3
    <3>5. Len(s) + 1 <= Len(Prompts)
      BY <1>1, <1>4, <1>6
    <3> QED BY <3>3, <3>4, <3>5
  <2> QED BY <2>2, <2>3
<1>8. label \notin Earlier(label) /\ Earlier(label) \subseteq Labels
  BY DEF Earlier
<1>9. FullInv'
  BY <1>4, <1>5, <1>8 DEF RowsInv, FullInv, Full, Earlier
<1> QED BY <1>7, <1>9 DEF OwnPrompts

LEMMA RowsStep == RowsInv /\ [Next]_vars => RowsInv'
<1> SUFFICES ASSUME RowsInv, [Next]_vars PROVE RowsInv'
  OBVIOUS
<1>1. IndInv'
  BY IndStep DEF RowsInv
<1>2. CASE TimedGenerate
  BY <1>1, <1>2, RowAdded DEF RowsInv
<1>3. CASE rows' = rows
  <2>1. OwnPrompts'
    BY <1>3 DEF RowsInv, OwnPrompts
  <2> SUFFICES FullInv'
    BY <1>1, <2>1 DEF RowsInv
  <2>2. label \in Labels
    BY DEF RowsInv, IndInv, Basics
  <2>3. CASE UNCHANGED <<label, step, results>>
    BY <1>3, <2>3 DEF RowsInv, FullInv, Full, Earlier
  <2>4. CASE Measured
    <3>1. Full(label) /\ step = "measure" /\ step' \in {"between", "restore"}
          /\ UNCHANGED <<label, results>>
      BY <2>4 DEF Measured, Full, PromptsOf
    <3> QED BY <1>3, <3>1 DEF RowsInv, FullInv, Full, Earlier
  <2>5. CASE SubstituteAll
    BY <1>3, <2>2, <2>5 DEF RowsInv, FullInv, Full, Earlier, SubstituteAll, Labels
  <2>6. CASE Substitute \/ Restore
    BY <1>3, <2>3, <2>6 DEF Substitute, Restore
  <2>7. CASE Substituted \/ Restored \/ RunOutOfMemory
    <3>1. UNCHANGED <<label, results>>
      BY <2>7 DEF Substituted, Restored, RunOutOfMemory
    <3>2. step \in {"substitute", "restore", "measure"} /\ step' \in {"measure", "between", "failed"}
          /\ (step' = "between" => step = "restore")
      BY <2>7 DEF Substituted, Restored, RunOutOfMemory
    <3> QED BY <1>3, <3>1, <3>2 DEF RowsInv, FullInv, Full, Earlier
  <2>8. CASE OpenResults \/ Dump
    BY <1>3, <2>8 DEF RowsInv, FullInv, Full, Earlier, OpenResults, Dump
  <2>9. CASE Ended \/ UNCHANGED vars
    BY <2>3, <2>9 DEF Ended, vars
  <2> QED BY <2>4, <2>5, <2>6, <2>7, <2>8, <2>9, RowAdded DEF Next
<1>4. TimedGenerate \/ rows' = rows
  BY DEF Next, vars, Measured, SubstituteAll, Substitute, Substituted, Restore, Restored,
         RunOutOfMemory, OpenResults, Dump, Ended
<1> QED BY <1>2, <1>3, <1>4

(* A whole file compares every prompt: zip leaves none out.                *)
THEOREM ZipLeavesNoneOut == Spec => []EveryPromptCompared
<1>1. Init => RowsInv
  <2> SUFFICES ASSUME Init PROVE RowsInv
    OBVIOUS
  <2>1. OwnPrompts
    BY SwapAssumption DEF Init, OwnPrompts
  <2>2. FullInv
    BY DEF Init, FullInv, Earlier
  <2> QED BY <2>1, <2>2, InitInv DEF RowsInv
<1>2. RowsInv => EveryPromptCompared
  <2> SUFFICES ASSUME RowsInv, results = "whole", NEW l \in Labels
               PROVE  /\ Len(rows[l]) = Len(Prompts)
                      /\ \A i \in 1 .. Len(Prompts) : rows[l][i].id = Prompts[i]
    BY DEF EveryPromptCompared
  <2>1. Full(l)
    BY DEF RowsInv, FullInv, Earlier, Labels
  <2> QED BY <2>1 DEF RowsInv, OwnPrompts, Full
<1> QED BY <1>1, <1>2, RowsStep, PTL DEF Spec
=============================================================================
