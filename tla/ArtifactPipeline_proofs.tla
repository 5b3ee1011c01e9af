----------------------- MODULE ArtifactPipeline_proofs -----------------------
(***************************************************************************)
(* The properties of ArtifactPipeline for every set of generations and     *)
(* every behaviour of the plugin.  One fact about a comparison carries     *)
(* them: a PASS at the right lengths means that shape, packed, scale and   *)
(* reference are of one generation, and that x holds its numbers, since    *)
(* where the weights begin in a seed's stream and how many they are gives  *)
(* the generation away.  The invariant follows it through the files being  *)
(* written one by one and the plan that outlives them.                     *)
(***************************************************************************)
EXTENDS ArtifactPipeline, SequenceTheorems, TLAPS

Engines ==
    {e \in [M : Nat \ {0}, N : Nat, K : Nat, packed : Versions, scale : Versions] :
       \E v \in Versions : e.M = v.m /\ e.N = N(v) /\ e.K = K(v)}
Plans == [engine : Engines, fit : BOOLEAN]

Types ==
    /\ plugin \in Plugins
    /\ files \in [Names -> Versions \cup {None}]
    /\ writing \in [version : Versions, left : Seq(Names)]
    /\ ladder \in {"none", "gen", "plugin", "engine", "passed", "failed"}
    /\ Whole => plan \in Plans

\* Files are written at the bottom of the ladder or outside it.
Rungs ==
    /\ ladder = "gen" => writing.left # << >>
    /\ writing.left # << >> => ladder \in {"none", "gen"}

\* What is not the ladder's yet is still to be written.
FilesAreOwn ==
    /\ ladder = "gen" =>
         /\ writing.version = Default
         /\ \A f \in Names :
              files[f] = Default \/ \E i \in 1 .. Len(writing.left) : writing.left[i] = f
    /\ ladder \in {"plugin", "engine", "passed"} => \A f \in Names : files[f] = Default

LadderPlan ==
    ladder = "passed" /\ WeightsFit(plan.engine) /\ plugin # "nan" =>
      plan.engine = EngineOf(Default)

IInv == Types /\ Rungs /\ FilesAreOwn /\ PlanIsValidated /\ LadderPlan

-----------------------------------------------------------------------------
LEMMA NamesAre == Names = {"x", "packed", "scale", "reference", "meta"}
<1>1. 1 .. 5 = {1, 2, 3, 4, 5}
  OBVIOUS
<1> QED  BY <1>1 DEF Names, Order

LEMMA OrderIs ==
    /\ Order \in Seq(Names) /\ Order # << >>
    /\ \A f \in Names : \E i \in 1 .. Len(Order) : Order[i] = f
<1>1. Len(Order) = 5
  BY DEF Order
<1>2. Order \in Seq(Names)
  BY NamesAre DEF Order
<1>3. \A f \in Names : \E i \in 1 .. Len(Order) : Order[i] = f
  BY <1>1 DEF Names
<1> QED  BY <1>1, <1>2, <1>3 DEF Order

\* The table: positive sizes, and no two layers with as many weights.
LEMMA Table ==
    ASSUME NEW v \in Versions
    PROVE  /\ v.layer \in {"qkv_proj", "o_proj", "gate_up_proj", "down_proj"}
           /\ v.m \in Nat \ {0} /\ v.seed \in Nat
           /\ v = [layer |-> v.layer, m |-> v.m, seed |-> v.seed]
           /\ N(v) \in Nat \ {0} /\ K(v) \in Nat \ {0}
           /\ v.m * K(v) \in Nat
<1>1. DOMAIN PHI3_LAYER_SHAPES = {"qkv_proj", "o_proj", "gate_up_proj", "down_proj"}
  BY DEF PHI3_LAYER_SHAPES
<1>2. v \in [layer : DOMAIN PHI3_LAYER_SHAPES, m : Nat \ {0}, seed : Nat]
  BY ArtifactAssumption
<1>3. v.layer \in {"qkv_proj", "o_proj", "gate_up_proj", "down_proj"}
  BY <1>1, <1>2
<1>4. N(v) \in Nat \ {0} /\ K(v) \in Nat \ {0}
  BY <1>3 DEF N, K, PHI3_LAYER_SHAPES
<1> QED  BY <1>2, <1>3, <1>4

LEMMA WeightsTellLayer ==
    ASSUME NEW u \in Versions, NEW v \in Versions, N(u) * K(u) = N(v) * K(v)
    PROVE  u.layer = v.layer
  BY Table DEF N, K, PHI3_LAYER_SHAPES

LEMMA Cancel ==
    ASSUME NEW a \in Nat, NEW b \in Nat, NEW c \in Nat \ {0}, a * c = b * c
    PROVE  a = b
<1>1. ASSUME NEW p \in Nat, NEW q \in Nat, p < q PROVE p * c < q * c
  <2>1. (q - p) * c >= c
    BY <1>1
  <2>2. (q - p) * c = q * c - p * c
    BY <1>1
  <2>3. p * c \in Nat /\ q * c \in Nat
    OBVIOUS
  <2> QED  BY <2>1, <2>2, <2>3
<1>2. ~ (a < b) /\ ~ (b < a)
  BY <1>1
<1> QED  BY <1>2

\* Where its weights begin and how many they are gives a generation away.
LEMMA WeightsTellGeneration ==
    ASSUME NEW u \in Versions, NEW v \in Versions, WOf(u) = WOf(v)
    PROVE  u = v
<1>1. u.seed = v.seed /\ u.m * K(u) = v.m * K(v) /\ N(u) * K(u) = N(v) * K(v)
  BY DEF WOf, Drawn
<1>2. u.layer = v.layer
  BY <1>1, WeightsTellLayer
<1>3. K(u) = K(v)
  BY <1>2 DEF K
<1>4. u.m = v.m
  BY <1>1, <1>3, Cancel, Table
<1> QED  BY <1>1, <1>2, <1>4, Table

\* A PASS at the right lengths: the engine and the reference are of one
\* generation, and x is that generation's data.
LEMMA PassMeansOneGeneration ==
    ASSUME NEW e \in Engines, plugin # "nan",
           files["reference"] \in Versions, LengthsFit(e), "PASS" \in Verdicts(e)
    PROVE  /\ plugin = "faithful"
           /\ e = EngineOf(files["reference"])
           /\ XOf(files["x"]) = XOf(files["reference"])
<1> DEFINE r == files["reference"]
<1>1. PICK found \in Finds(e) : Passes(found)
  BY DEF Verdicts
<1>2. plugin = "faithful" /\ OutputOf(e) = ReferenceOf(r)
  BY <1>1 DEF Finds, Passes
<1>3. /\ e.M = r.m /\ e.N = N(r) /\ e.K = K(r)
      /\ XOf(files["x"]) = XOf(r)
      /\ WOf(e.packed) = WOf(r) /\ WOf(e.scale) = WOf(r)
  BY <1>2 DEF OutputOf, ReferenceOf, Gemm
<1>4. e.packed \in Versions /\ e.scale \in Versions
      /\ e = [M |-> e.M, N |-> e.N, K |-> e.K, packed |-> e.packed, scale |-> e.scale]
  BY DEF Engines
<1>5. e.packed = r /\ e.scale = r
  BY <1>3, <1>4, WeightsTellGeneration
<1> QED  BY <1>2, <1>3, <1>4, <1>5 DEF EngineOf, Built

\* What run_single compares has the right lengths, given that the plan's has.
LEMMA SinglePass ==
    ASSUME Types, "PASS" \in SingleVerdicts, WeightsFit(plan.engine), plugin # "nan"
    PROVE  /\ plan.engine = EngineOf(files["reference"])
           /\ XOf(files["x"]) = XOf(files["reference"])
           /\ plugin = "faithful"
<1>1. Whole /\ files["reference"] # None
  BY DEF SingleVerdicts, Whole
<1>2. plan.engine \in Engines /\ files["reference"] \in Versions
  BY <1>1, NamesAre DEF Types, Plans
<1>3. LengthsFit(plan.engine) /\ "PASS" \in Verdicts(plan.engine)
  BY <1>1 DEF SingleVerdicts, Whole, SizeChecked, LengthsFit
<1> QED  BY <1>2, <1>3, PassMeansOneGeneration

-----------------------------------------------------------------------------
LEMMA Initially == Init => IInv
<1> SUFFICES ASSUME Init PROVE IInv
  OBVIOUS
<1> USE ArtifactAssumption DEF Init
<1>1. Types
  BY DEF Types, Idle, Whole
<1>2. Rungs /\ FilesAreOwn /\ LadderPlan /\ PlanIsValidated
  BY DEF Rungs, Idle, FilesAreOwn, LadderPlan, PlanIsValidated, Whole
<1> QED  BY <1>1, <1>2 DEF IInv

LEMMA GenerateKeeps == ASSUME IInv, NEW v \in Versions, Generate(v) PROVE IInv'
<1> USE DEF IInv, Generate
<1>1. Types'
  BY OrderIs DEF Types, Whole
<1>2. Rungs' /\ FilesAreOwn' /\ LadderPlan'
  BY DEF Rungs, FilesAreOwn, LadderPlan
<1>3. PlanIsValidated'
  BY DEF PlanIsValidated, Whole
<1> QED  BY <1>1, <1>2, <1>3

LEMMA WriteFileKeeps == ASSUME IInv, WriteFile PROVE IInv'
<1> USE ArtifactAssumption
<1> DEFINE left == writing.left
<1>1. left \in Seq(Names) /\ left # << >> /\ writing.version \in Versions
  BY DEF IInv, Types, WriteFile
<1>2. Len(left) \in Nat /\ Len(left) >= 1 /\ Head(left) = left[1] /\ Head(left) \in Names
  BY <1>1, HeadTailProperties, EmptySeq, LenProperties
<1>3. files' = [files EXCEPT ![Head(left)] = writing.version]
  BY DEF WriteFile
<1>4. ladder \in {"none", "gen"}
  BY <1>1 DEF IInv, Rungs
<1>5. CASE Len(left) = 1
  <2>1. writing' = Idle /\ ladder' = (IF ladder = "gen" THEN "plugin" ELSE ladder)
    BY <1>5 DEF WriteFile
  <2>2. Types'
    BY <1>1, <1>2, <1>3, <1>4, <2>1 DEF IInv, Types, Idle, WriteFile, Whole
  <2>3. Rungs' /\ LadderPlan'
    BY <1>4, <2>1 DEF Rungs, LadderPlan, Idle
  <2>4. FilesAreOwn'
    <3>1. CASE ladder = "gen"
      <4>1. writing.version = Default
        BY <3>1 DEF IInv, FilesAreOwn
      <4>2. ASSUME NEW f \in Names PROVE files'[f] = Default
        <5>1. files[f] = Default \/ f = Head(left)
          BY <1>2, <1>5, <3>1 DEF IInv, FilesAreOwn
        <5> QED  BY <1>2, <1>3, <4>1, <5>1 DEF IInv, Types
      <4> QED  BY <2>1, <3>1, <4>2 DEF FilesAreOwn
    <3>2. CASE ladder = "none"
      BY <2>1, <3>2 DEF FilesAreOwn
    <3> QED  BY <1>4, <3>1, <3>2
  <2>5. PlanIsValidated'
    BY DEF IInv, PlanIsValidated, Whole, WriteFile
  <2> QED  BY <2>2, <2>3, <2>4, <2>5 DEF IInv
<1>6. CASE Len(left) # 1
  <2>1. writing' = [writing EXCEPT !.left = Tail(left)] /\ ladder' = ladder
    BY <1>6 DEF WriteFile
  <2>2. /\ Tail(left) \in Seq(Names) /\ Len(Tail(left)) = Len(left) - 1
        /\ \A i \in 1 .. Len(Tail(left)) : Tail(left)[i] = left[i + 1]
    BY <1>1, HeadTailProperties
  <2>3. Tail(left) # << >>
    <3>1. Len(Tail(left)) # 0
      BY <1>2, <1>6, <2>2
    <3> QED  BY <2>2, <3>1, EmptySeq
  <2>4. writing'.left = Tail(left) /\ writing'.version = writing.version
    BY <2>1 DEF IInv, Types
  <2>5. Types'
    BY <1>1, <1>2, <1>3, <2>1, <2>2 DEF IInv, Types, WriteFile, Whole
  <2>6. Rungs' /\ LadderPlan'
    BY <1>4, <2>1, <2>3, <2>4 DEF Rungs, LadderPlan
  <2>7. FilesAreOwn'
    <3>1. CASE ladder = "gen"
      <4>1. writing.version = Default
        BY <3>1 DEF IInv, FilesAreOwn
      <4>2. ASSUME NEW f \in Names, files'[f] # Default
            PROVE  \E i \in 1 .. Len(Tail(left)) : Tail(left)[i] = f
        <5>1. f # Head(left) /\ files[f] # Default
          BY <1>2, <1>3, <4>1, <4>2 DEF IInv, Types
        <5>2. PICK i \in 1 .. Len(left) : left[i] = f
          BY <3>1, <5>1 DEF IInv, FilesAreOwn
        <5>3. i # 1
          BY <1>2, <5>1, <5>2
        <5>4. i - 1 \in 1 .. Len(Tail(left)) /\ Tail(left)[i - 1] = left[i]
          BY <1>2, <2>2, <5>2, <5>3
        <5> QED  BY <5>2, <5>4
      <4> QED  BY <2>1, <2>4, <3>1, <4>1, <4>2 DEF FilesAreOwn
    <3>2. CASE ladder = "none"
      BY <2>1, <3>2 DEF FilesAreOwn
    <3> QED  BY <1>4, <3>1, <3>2
  <2>8. PlanIsValidated'
    BY DEF IInv, PlanIsValidated, Whole, WriteFile
  <2> QED  BY <2>5, <2>6, <2>7, <2>8 DEF IInv
<1> QED  BY <1>5, <1>6

LEMMA InterruptedKeeps == ASSUME IInv, Interrupted PROVE IInv'
<1> USE DEF IInv, Interrupted, AfterInterruption
<1>1. Types'
  BY ArtifactAssumption DEF Types, Idle, Whole
<1>2. Rungs' /\ FilesAreOwn' /\ LadderPlan'
  BY DEF Rungs, FilesAreOwn, LadderPlan, Idle
<1>3. PlanIsValidated'
  BY DEF PlanIsValidated, Whole
<1> QED  BY <1>1, <1>2, <1>3

\* A plan that Validate writes is typed, and holds what was compared.
LEMMA ValidatedPlan ==
    ASSUME Types, \A f \in Names : files[f] # None, "PASS" \in Verdicts(Engine)
    PROVE  /\ Engine \in Engines /\ LengthsFit(Engine) \in BOOLEAN
           /\ LengthsFit(Engine) /\ plugin # "nan" =>
                Engine = EngineOf(Engine.packed) /\ plugin = "faithful"
<1>1. \A f \in Names : files[f] \in Versions
  BY DEF Types
<1>2. /\ files["packed"] \in Versions /\ files["scale"] \in Versions
      /\ files["reference"] \in Versions /\ files["meta"] \in Versions
  BY <1>1, NamesAre
<1>3. Engine = [M |-> files["meta"].m, N |-> N(files["meta"]), K |-> K(files["meta"]),
                packed |-> files["packed"], scale |-> files["scale"]]
  BY DEF Engine, Built
<1>4. Engine \in Engines
  BY <1>2, <1>3, Table DEF Engines
<1>5. LengthsFit(Engine) \in BOOLEAN
  BY DEF LengthsFit, WeightsFit, XFits, ReferenceFits
<1>6. ASSUME LengthsFit(Engine), plugin # "nan"
      PROVE  Engine = EngineOf(Engine.packed) /\ plugin = "faithful"
  <2>1. plugin = "faithful" /\ Engine = EngineOf(files["reference"])
    BY <1>2, <1>4, <1>6, PassMeansOneGeneration
  <2>2. Engine.packed = files["reference"]
    BY <2>1 DEF EngineOf, Built
  <2> QED  BY <2>1, <2>2
<1> QED  BY <1>4, <1>5, <1>6

LEMMA ValidateKeeps == ASSUME IInv, Validate PROVE IInv'
<1> DEFINE wrote == [engine |-> Engine, fit |-> LengthsFit(Engine)]
<1>1. PICK verdict \in IF \E f \in Names : files[f] = None
                       THEN {"error"} ELSE Verdicts(Engine) :
        /\ IF WritesPlan(verdict)
           THEN plan' = wrote \/ plan' \in {Torn, plan} ELSE UNCHANGED plan
        /\ ladder' = IF ladder = "plugin" THEN NextRung(verdict) ELSE "none"
  BY DEF Validate
<1>2. /\ (writing = Idle /\ ByHand) \/ ladder = "plugin"
      /\ plugin' = plugin /\ files' = files /\ writing' = writing
  BY DEF Validate
<1>3. \/ plan' \in {Torn, plan}
      \/ /\ plan' = wrote /\ wrote \in Plans
         /\ wrote.fit /\ plugin # "nan" =>
              wrote.engine = EngineOf(wrote.engine.packed) /\ plugin = "faithful"
  <2>1. CASE WritesPlan(verdict)
    <3>1. "PASS" \in Verdicts(Engine) /\ \A f \in Names : files[f] # None
      BY <1>1, <2>1 DEF WritesPlan
    <3>2. /\ Engine \in Engines /\ LengthsFit(Engine) \in BOOLEAN
          /\ LengthsFit(Engine) /\ plugin # "nan" =>
               Engine = EngineOf(Engine.packed) /\ plugin = "faithful"
      BY <3>1, ValidatedPlan DEF IInv
    <3>3. wrote \in Plans
      BY <3>2 DEF Plans
    <3> QED  BY <1>1, <2>1, <3>2, <3>3
  <2>2. CASE ~ WritesPlan(verdict)
    BY <1>1, <2>2
  <2> QED  BY <2>1, <2>2
<1>4. ladder' \in {"none", "engine", "failed"} /\ (ladder' = "engine" => ladder = "plugin")
  BY <1>1 DEF NextRung
<1>5. Types' /\ PlanIsValidated'
  <2>1. CASE plan' = Torn
    BY <1>2, <1>4, <2>1 DEF IInv, Types, PlanIsValidated, Whole
  <2>2. CASE plan' = plan
    BY <1>2, <1>4, <2>2 DEF IInv, Types, PlanIsValidated, Whole
  <2>3. CASE /\ plan' = wrote /\ wrote \in Plans
             /\ wrote.fit /\ plugin # "nan" =>
                  wrote.engine = EngineOf(wrote.engine.packed) /\ plugin = "faithful"
    <3> HIDE DEF wrote
    <3> QED  BY <1>2, <1>4, <2>3 DEF IInv, Types, PlanIsValidated, Whole
  <2> QED  BY <1>3, <2>1, <2>2, <2>3
<1>6. Rungs' /\ FilesAreOwn' /\ LadderPlan'
  BY <1>2, <1>4 DEF IInv, Rungs, FilesAreOwn, LadderPlan, Idle
<1> QED  BY <1>5, <1>6 DEF IInv

LEMMA CtestKeeps == ASSUME IInv, Ctest PROVE IInv'
<1> USE DEF IInv, Ctest
<1>1. Types'
  <2>1. Whole' => plan' \in Plans
    BY DEF Types, Whole, Plans
  <2> QED  BY <2>1, OrderIs, ArtifactAssumption DEF Types
<1>2. Rungs' /\ FilesAreOwn' /\ LadderPlan'
  BY OrderIs DEF Rungs, FilesAreOwn, LadderPlan
<1>3. PlanIsValidated'
  <2>1. Whole' => Whole /\ plan'.fit = plan.fit /\ plan'.engine = plan.engine
    BY DEF Types, Whole, Plans
  <2> QED  BY <2>1 DEF PlanIsValidated
<1> QED  BY <1>1, <1>2, <1>3

LEMMA EngineLevelKeeps == ASSUME IInv, EngineLevel PROVE IInv'
<1>1. /\ ladder = "engine" /\ ladder' \in {"passed", "failed"}
      /\ ladder' = "passed" => "PASS" \in SingleVerdicts
      /\ plugin' = plugin /\ files' = files /\ writing' = writing /\ plan' = plan
  BY DEF EngineLevel
<1>2. Types' /\ PlanIsValidated'
  BY <1>1 DEF IInv, Types, PlanIsValidated, Whole
<1>3. Rungs' /\ FilesAreOwn'
  BY <1>1 DEF IInv, Rungs, FilesAreOwn
<1>4. LadderPlan'
  <2>1. ASSUME ladder' = "passed", WeightsFit(plan.engine), plugin # "nan"
        PROVE  plan.engine = EngineOf(Default)
    <3>1. plan.engine = EngineOf(files["reference"])
      BY <1>1, <2>1, SinglePass DEF IInv
    <3>2. files["reference"] = Default
      BY <1>1, NamesAre DEF IInv, FilesAreOwn
    <3> QED  BY <3>1, <3>2
  <2> QED  BY <1>1, <2>1 DEF LadderPlan, WeightsFit
<1> QED  BY <1>2, <1>3, <1>4 DEF IInv

\* The invariant is inductive.
LEMMA StepKeeps == IInv /\ [Next]_vars => IInv'
<1> SUFFICES ASSUME IInv, [Next]_vars PROVE IInv'
  OBVIOUS
<1>1. CASE UNCHANGED vars
  BY <1>1 DEF vars, IInv, Types, Rungs, FilesAreOwn, PlanIsValidated, LadderPlan,
              Whole, WeightsFit
<1>2. CASE \E v \in Versions : Generate(v)
  BY <1>2, GenerateKeeps
<1>3. CASE WriteFile
  BY <1>3, WriteFileKeeps
<1>4. CASE Interrupted
  BY <1>4, InterruptedKeeps
<1>5. CASE Validate
  BY <1>5, ValidateKeeps
<1>6. CASE Ctest
  BY <1>6, CtestKeeps
<1>7. CASE EngineLevel
  BY <1>7, EngineLevelKeeps
<1> QED  BY <1>1, <1>2, <1>3, <1>4, <1>5, <1>6, <1>7 DEF Next

LEMMA Always == Spec => []IInv
<1> QED  BY Initially, StepKeeps, PTL DEF Spec

-----------------------------------------------------------------------------
(* Types; the ladder is at its first rung exactly while that rung has      *)
(* files to write (tests/CMakeLists.txt:15-19).                            *)
THEOREM TypesHold == Spec => []TypeOK
<1>1. IInv => TypeOK
  <2> SUFFICES ASSUME IInv PROVE TypeOK
    OBVIOUS
  <2>1. \A i \in DOMAIN writing.left : writing.left[i] \in Names
    BY LenProperties DEF IInv, Types
  <2>2. plan \in {None, Torn} \/ plan.engine.packed \in Versions
    BY DEF IInv, Types, Whole, Plans, Engines
  <2> QED  BY <2>1, <2>2 DEF IInv, Types, Rungs, TypeOK, ByHand
<1> QED  BY <1>1, Always, PTL

(* However generations and validations are repeated or cut short, a whole  *)
(* plan is the engine of one generation, and the plugin that was compared  *)
(* computes what the reference computes                                    *)
(* (validate_plugin_engine.cpp:158-165).                                   *)
THEOREM PlansAreValidated == Spec => []PlanIsValidated
<1>1. IInv => PlanIsValidated
  BY DEF IInv
<1> QED  BY <1>1, Always, PTL

(* A PASS of run_single is about the engine of the generation whose        *)
(* reference is on disk, and about that generation's x, though the size    *)
(* check compares numbers of elements only (run_single.cpp:60) and lets    *)
(* the files of layers that share K or N through.                          *)
THEOREM SinglePassIsMatch == Spec => []SinglePassMeansMatch
<1>1. IInv => SinglePassMeansMatch
  BY SinglePass DEF IInv, SinglePassMeansMatch
<1> QED  BY <1>1, Always, PTL

(* A ladder that passed ran on its own vectors and on their plan, also if  *)
(* its plugin rung could not write one (tests/CMakeLists.txt:12-33).       *)
THEOREM LadderIsMatch == Spec => []LadderMeansMatch
<1>1. IInv => LadderMeansMatch
  BY DEF IInv, FilesAreOwn, LadderPlan, LadderMeansMatch
<1> QED  BY <1>1, Always, PTL
=============================================================================
