--------------------------- MODULE ArtifactPipeline ---------------------------
(***************************************************************************)
(* The files the programs hand each other: test vectors written by         *)
(* gen_plugin_test_vectors.py, the engine plan written by                  *)
(* validate_plugin_engine once it has compared that engine, and their      *)
(* reader run_single; run by hand or as the ctest ladder of                *)
(* tests/CMakeLists.txt.  A generation may be cut short between two files; *)
(* one file is written whole.  Its name does not tell whose file it is:    *)
(* what counts is how many numbers it holds, and which.                    *)
(***************************************************************************)
EXTENDS Naturals, Sequences

\* out_features and in_features of a layer.
PHI3_LAYER_SHAPES ==
    [qkv_proj     |-> [N |-> 9216,  K |-> 3072],
     o_proj       |-> [N |-> 3072,  K |-> 3072],
     gate_up_proj |-> [N |-> 16384, K |-> 3072],
     down_proj    |-> [N |-> 3072,  K |-> 8192]]

CONSTANTS
    Versions,  \* generations' arguments: records [layer, m, seed]
    Default,   \* the one the ladder asks for
    None,      \* no file
    Torn,      \* a plan that was not written whole
    Plugins    \* ways the plugin under test may behave

ASSUME ArtifactAssumption ==
    /\ Versions \subseteq [layer : DOMAIN PHI3_LAYER_SHAPES, m : Nat \ {0}, seed : Nat]
    /\ Default \in Versions /\ None \notin Versions
    /\ Plugins \subseteq {"faithful", "wrong", "nan"}

VARIABLES
    plugin,   \* how the plugin that was built behaves
    files,    \* which generation each file is from
    writing,  \* the generation under way and the files it has yet to write
    plan,     \* engine.plan: None, Torn or the engine it holds, with a note
              \* whether it was compared at the right lengths
    ladder    \* the ctest run: "none", "gen", "plugin", "engine", "passed", "failed"

vars == <<plugin, files, writing, plan, ladder>>

Order == <<"x", "packed", "scale", "reference", "meta">>
Names == {Order[i] : i \in 1 .. 5}
Idle == [version |-> Default, left |-> << >>]
ByHand == ladder \in {"none", "passed", "failed"}

Init ==
    /\ plugin \in Plugins
    /\ files = [f \in Names |-> None] /\ writing = Idle
    /\ plan = None /\ ladder = "none"

-----------------------------------------------------------------------------
\* gen_plugin_test_vectors.py by hand, into the directory all share.
Generate(v) ==
    /\ ByHand /\ writing = Idle
    /\ writing' = [version |-> v, left |-> Order]
    /\ ladder' = "none"
    /\ UNCHANGED <<plugin, files, plan>>

\* The next file; after the last the ladder goes on.
WriteFile ==
    /\ writing.left # << >>
    /\ files' = [files EXCEPT ![Head(writing.left)] = writing.version]
    /\ IF Len(writing.left) = 1
       THEN /\ writing' = Idle
            /\ ladder' = IF ladder = "gen" THEN "plugin" ELSE ladder
       ELSE /\ writing' = [writing EXCEPT !.left = Tail(@)]
            /\ UNCHANGED ladder
    /\ UNCHANGED <<plugin, plan>>

\* Mistake: a rung does not wait for the fixture it needs.
BugNoFixture(rung) == IF rung = "gen" THEN "plugin" ELSE rung

\* A setup that fails ends the ladder: its dependents are not run.
AfterInterruption(rung) == IF rung = "gen" THEN "failed" ELSE rung

Interrupted ==
    /\ writing.left # << >>
    /\ writing' = Idle
    /\ ladder' = AfterInterruption(ladder)
    /\ UNCHANGED <<plugin, files, plan>>

-----------------------------------------------------------------------------
N(v) == PHI3_LAYER_SHAPES[v.layer].N
K(v) == PHI3_LAYER_SHAPES[v.layer].K

(* Count numbers of a seed's stream, from one on.  A generation draws x    *)
(* first and W after it; two runs of numbers are the same data only if     *)
(* they are the same run.                                                  *)
Drawn(seed, from, count) == [seed |-> seed, from |-> from, count |-> count]
XOf(v) == Drawn(v.seed, 0, v.m * K(v))
WOf(v) == Drawn(v.seed, v.m * K(v), N(v) * K(v))

\* An engine has the shape meta gives and the weights it was built with.
Built(meta, packed, scale) ==
    [M |-> meta.m, N |-> N(meta), K |-> K(meta), packed |-> packed, scale |-> scale]

EngineOf(v) == Built(v, v, v)
Engine == Built(files["meta"], files["packed"], files["scale"])

\* Whether the files are as long as the engine's shape asks for.
WeightsFit(e) ==
    \A v \in {e.packed, e.scale} : N(v) * K(v) = e.N * e.K
XFits(e) == files["x"].m * K(files["x"]) = e.M * e.K
ReferenceFits(e) == files["reference"].m * N(files["reference"]) = e.M * e.N
LengthsFit(e) == WeightsFit(e) /\ XFits(e) /\ ReferenceFits(e)

\* The product x * W^T of a shape, by the data it is computed from.
Gemm(M, n, k, x, packed, scale) ==
    [M |-> M, N |-> n, K |-> k, x |-> x, packed |-> packed, scale |-> scale]

OutputOf(e) ==
    Gemm(e.M, e.N, e.K, XOf(files["x"]), WOf(e.packed), WOf(e.scale))
ReferenceOf(v) == Gemm(v.m, N(v), K(v), XOf(v), WOf(v), WOf(v))

\* What a comparison may find: validation checks no length, so what lies beyond
\* a file that is too short is computed with, and compared, as it is.
Finds(e) ==
    IF ~ LengthsFit(e) THEN {"same", "off", "nan"}
    ELSE IF plugin = "nan" THEN {"nan"}
    ELSE IF plugin = "faithful" /\ OutputOf(e) = ReferenceOf(files["reference"])
         THEN {"same"} ELSE {"off"}

\* std::max keeps its first argument when the second is NaN.
Passes(found) == found # "off"

\* A failing CUDA or TensorRT call ends the program at any point.
Verdicts(e) ==
    {"error"} \cup {IF Passes(found) THEN "PASS" ELSE "FAIL" : found \in Finds(e)}

\* Mistake: the plan is written before the verdict is known.
BugWritesAnyway(verdict) == verdict # "error"

WritesPlan(verdict) == verdict = "PASS"

\* FIXTURES_REQUIRED: the next rung runs only if the setup passed.
NextRung(verdict) == IF verdict = "PASS" THEN "engine" ELSE "failed"

\* validate_plugin_engine with a serialize path: a short write goes unseen,
\* and so does a plan that cannot be opened for writing.
Validate ==
    /\ writing = Idle
    /\ ByHand \/ ladder = "plugin"
    /\ \E verdict \in IF \E f \in Names : files[f] = None
                      THEN {"error"} ELSE Verdicts(Engine) :
         /\ IF WritesPlan(verdict)
            THEN \/ plan' = [engine |-> Engine, fit |-> LengthsFit(Engine)]
                 \/ plan' \in {Torn, plan}
            ELSE UNCHANGED plan
         /\ ladder' = IF ladder = "plugin" THEN NextRung(verdict) ELSE "none"
    /\ UNCHANGED <<plugin, files, writing>>

-----------------------------------------------------------------------------
\* Mistake: a reference of any length is compared.
BugUnchecked(e) == XFits(e)

\* The only look at a length: the vectors', against the plan's shape.
SizeChecked(e) == XFits(e) /\ ReferenceFits(e)

\* What run_single may say: the harness throws on a torn or missing plan.
SingleVerdicts ==
    IF plan \in {None, Torn} \/ files["x"] = None \/ files["reference"] = None
    THEN {"error"}
    ELSE IF SizeChecked(plan.engine) THEN Verdicts(plan.engine) ELSE {"error"}

Ctest ==
    /\ ByHand /\ writing = Idle
    /\ ladder' = "gen"
    /\ writing' = [version |-> Default, left |-> Order]
    /\ UNCHANGED <<plugin, files, plan>>

EngineLevel ==
    /\ ladder = "engine"
    /\ \E verdict \in SingleVerdicts :
         ladder' = IF verdict = "PASS" THEN "passed" ELSE "failed"
    /\ UNCHANGED <<plugin, files, writing, plan>>

Next ==
    \/ \E v \in Versions : Generate(v)
    \/ WriteFile \/ Interrupted \/ Validate \/ Ctest \/ EngineLevel

Spec == Init /\ [][Next]_vars

-----------------------------------------------------------------------------
TypeOK ==
    /\ plugin \in Plugins
    /\ files \in [Names -> Versions \cup {None}]
    /\ writing.version \in Versions /\ \A i \in DOMAIN writing.left : writing.left[i] \in Names
    /\ ladder \in {"none", "gen", "plugin", "engine", "passed", "failed"}
    /\ plan \in {None, Torn} \/ plan.engine.packed \in Versions
    /\ ladder = "gen" <=> writing.left # << >> /\ ~ ByHand

Whole == plan \notin {None, Torn}

(* A whole plan on disk is the engine of one generation, shape, packed and *)
(* scale, however generations and validations were cut short or repeated,  *)
(* and the plugin that ran it computes what the reference computes;        *)
(* provided that it computes numbers and the files had the lengths that    *)
(* meta gives ("serialized validated engine",                              *)
(* validate_plugin_engine.cpp:165).                                        *)
PlanIsValidated ==
    Whole /\ plan.fit /\ plugin # "nan" =>
      plan.engine = EngineOf(plan.engine.packed) /\ plugin = "faithful"

(* What a PASS of run_single says.  Its size check compares numbers of     *)
(* elements only (run_single.cpp:60): a reference of another layer with    *)
(* the same N goes through, and so does an x with the same K; it is the    *)
(* comparison that tells them.  After a PASS the plan is the engine of the *)
(* generation that wrote the reference, and x holds that generation's      *)
(* numbers, though another may have written them; provided that the plan   *)
(* holds as many weights as its shape asks for, and the plugin computes    *)
(* numbers.                                                                *)
SinglePassMeansMatch ==
    "PASS" \in SingleVerdicts /\ WeightsFit(plan.engine) /\ plugin # "nan" =>
      /\ plan.engine = EngineOf(files["reference"])
      /\ XOf(files["x"]) = XOf(files["reference"])
      /\ plugin = "faithful"

(* Once the ladder has passed, and until something is regenerated, the     *)
(* vectors are the ladder's own, whole, and the plan holds their weights:  *)
(* one an earlier run left there, which the plugin rung could not replace, *)
(* does not get past the engine rung unless it is that engine.             *)
LadderMeansMatch ==
    ladder = "passed" =>
      /\ \A f \in Names : files[f] = Default
      /\ WeightsFit(plan.engine) /\ plugin # "nan" =>
           plan.engine = EngineOf(Default)

(* The header of validate_plugin_engine.cpp, of the plugin: a match        *)
(* "confirms the plugin wrapping didn't change behavior".                  *)
PassMeansSame ==
    Whole /\ plan.fit => plugin = "faithful"
=============================================================================
