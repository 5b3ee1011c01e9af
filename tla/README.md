# Verification of TensorRT_plugin

TLA+ models of the INT4 dequantize-and-multiply project in `src/` (CUDA kernels,
TensorRT plugin, C++ harness, Python reference, speculative decoder), the TLC
configurations that check them and TLAPS proofs of what matters most. Paths below are
relative to the repository root.

## 1. The system: inventory

| Component | Source | State | Operations | Hard behaviour |
|---|---|---|---|---|
| Speculative decoder | `python/speculative/spec_decode.py` | output, two KV caches with carried logits, window, statistics | prefill, draft, verify, accept, roll back, emit, fold | two caches that must follow the output through rejection, trimming and EOS; budget boundary; foreign vocabulary ids |
| Decoder correctness script | `python/speculative/verify_correctness.py` | prompts left, verdict | plain generation, speculative generation, compare, exit | what the comparison can and cannot tell; exceptions |
| Optimized kernel | `src/kernels/dequant_gemm_optimized.cu` | shared memory row, per-thread partial sums, output | stage, barrier, vectorised multiply, warp shuffle reduction, store | thread interleaving, barrier before the early return, word loads and truncation, shared memory limit |
| Naive kernel | `src/kernels/dequant_gemm_naive.cu` | accumulator per thread, output | multiply, store | ceiling grid with idle threads |
| Dequantize-only kernel | `src/kernels/dequant_only.cu` | weight matrix | one store per thread | 32-bit flat index |
| INT4 scheme and reference | `python/reference/quant.py` | none (pure) | pack, unpack, quantize, dequantize, reference product | nibble sign and order, rounding, range |
| Torch binding | `src/kernels/torch_binding.cpp` | none | check inputs, allocate, launch | what is accepted against what the kernel can do |
| TensorRT plugin | `src/plugin/dequant_gemm_plugin.{h,cpp}` | host and device copies of the weights shared by clones, serialization fields | create, clone, attach to context, serialize, enqueue, destroy | lifetime of shared weights; pointers into the own object; half-done construction |
| Plan builder and validator | `src/plugin/validate_plugin_engine.cpp` | vectors, engine, plan file | build, run, compare, write the plan | plan written only after a pass; partial write |
| Engine harness | `src/harness/engine_harness.{h,cpp}` | engine, creator registry | register once, load plan, create context | concurrent registration, missing or stale plan |
| Single and concurrent runners | `src/harness/run_single.cpp`, `run_concurrent.cpp` | workers with a stream, pinned and device buffers each | submit copy-in, enqueue, copy-out; synchronise; join | asynchronous streams, several requests outstanding, ignored errors |
| Module swap (phase 5B) | `python/benchmarks/phase5b_modules.py`, `phase5b_end_to_end.py` | modules of the model, originals, devices | substitute all, restore all, run a configuration | traversal order, a failure midway, peak memory |
| Artifact pipeline | `tests/CMakeLists.txt`, `python/reference/gen_plugin_test_vectors.py`, `python/reference/shapes.py` | vector files, plan file | generate, ctest fixtures | stale artifacts, an interrupted generation, files of another layer that are as long |
| Speculative benchmark | `python/speculative/benchmark.py` | prompts left, rows, `results.json` | select, warm up, measure plain and speculative, append a row, write | statistics of one generation in the row of another; unequal work; a half-written file |
| Timing drivers, table, plots, logger, build files | `src/kernels/bench_*.cu`, `python/benchmarks/benchmark_table.py`, `python/benchmarks/phase5b_plot.py`, `src/plugin/trt_logger.h`, `CMakeLists.txt` | | | measurement and I/O only: not modelled |

How they interact: `quant.py` packs weights; both kernels and the plugin read that
layout; the torch binding and the plugin's `enqueue` call the launchers; the plugin is
serialized into a plan by the validator, loaded by the harness and run by the two
runners; phase 5B and the speculative decoder run whole language models, the latter
without any of the kernels.

What makes each correct: the decoder emits the target's greedy picks and nothing else,
within its budget; every kernel stores, for every row and column and once, the sum of
exactly the K products of the reference; pack and unpack are inverse on [-8, 7]; every
clone of a plugin can be used and serialized after every other one is gone; each
request's copy-out carries that request's result; after `restore_all` the model is the
original; a plan on disk passed its comparison.

## 2. Plan

The order of the work: first the program's own algorithm with the most state, then its only
concurrent shared memory, then what surrounds them. Everything listed is done; what is left
is in section 8.

1. `Models`, `GreedyDecode`, `SpecDecode`, with `VerifyCorrectness` and `SpecBenchmark`, the
   two scripts that run the whole decoder, composed around it.
2. `Layout` (shapes and offsets), `Gemm` (abstract: each cell gets the reference's sum, once, if the device
   accepts the launch),
   `OptimizedKernel` and `NaiveKernel` that implement it, `DequantOnly`, `Int4`.
3. `StreamHarness`: `run_concurrent.cpp` on per-stream queues.
4. `PluginWeights` (abstract: each plugin object is a value of its own) and `PluginLifetime`,
   which implements it with shared storage.
5. `ModuleSwap`: substitute and restore, with failures and device residence.
6. `ArtifactPipeline`: generator, validator, plan file, single runner and ctest ladder as one flow
   of files.

## 3. Modules, and how they correspond to the code

### Speculative decoder

| Module | What it is |
|---|---|
| `Models` | external: a language model is the function from the ids it was fed to its argmax; vocabularies, calls, and the assumptions on them |
| `GreedyDecode` | abstract: one action appends the target's own pick, another returns early, another raises |
| `SpecDecode` | `speculative_generate`, one action per statement group |
| `VerifyCorrectness` | `main()` of `verify_correctness.py` around the whole of `SpecDecode` |
| `SpecBenchmark` | `main()` of `benchmark.py` around the whole of `SpecDecode` |
| `MCSpecDecode` | table models, prompts, budgets, windows |
| `MCScripts` | both scripts with the same table models: a behaviour is a run of one of them |
| `MCVerifyCorrectness` | the first of them alone, for the violated claim |
| `SpecDecode_proofs`, `Scripts_proofs` | the proofs about the decoder and about the two scripts |

The state of `SpecDecode` is the function's locals. A KV cache is the sequence of ids its
model was fed; logits are the argmax taken of them. `Prefill` is lines 69-86, `StartRound`
and `ExitLoop` the loop condition and `this_k`, `DraftOne` one iteration of the draft loop,
`CatOfNothing` the exception of `torch.cat([])`, `Verify` the target's single forward pass,
`AcceptOne` one iteration of the acceptance loop, `EmitAll` and `EmitThroughEos` the rest of
the loop body (counters, crop of both caches, trim, EOS), `Fold` the two forward passes that
feed the extra token; `Enter` is the next call, with locals of its own. HF caches are changed in place, hence one variable for
`target_cache` and `target_cache_extended`.

`SpecBenchmark` keeps what its rows are computed from (rounds, tokens, accepted and proposed)
and leaves out the clock. Any generation may raise out of memory (`RunOutOfMemory`), and the
file is first truncated (`OpenResults`), then written or not (`Dump`).

### Kernels and the INT4 scheme

| Module | What it is |
|---|---|
| `Layout` | shapes, offsets, and what `quantized_linear_reference` sums; a sum is the bag of its products, a product is the offsets of its operands |
| `Gemm` | abstract: a launch the device accepts (`Launchable`) stores every output cell, once, with the reference's bag; a refused one stores nothing |
| `OptimizedKernel` | launch, staging, `__syncthreads`, early return, word loads, shuffles, store; threads in any order |
| `NaiveKernel` | launch, and every thread of the covering grid |
| `DequantOnly` | `dequant_only.cu`: launch size, flat index, guard and store, with ints of `Width` bits |
| `Int4` | one row through `quant.py`: quantize, pack, dequantize, and what any reader finds in the bytes |
| `MCOptimizedKernel`, `MCNaiveKernel` | small blocks, small shapes |
| `MCLayer` | `OptimizedKernel` on every kind of accepted shape, `DequantOnly` and `Int4` side by side |
| `Layer_proofs` | the proofs about `OptimizedKernel`, `DequantOnly` and `Int4`, alone and side by side |
| `NaiveKernel_proofs` | the proofs about the naive kernel |

A step of `OptimizedKernel` is one iteration of a thread's loop, one thread crossing the
barrier, one shuffle of a converged warp, or the store of lane 0. Shuffles name all lanes of
the warp (`0xffffffff`), so they wait for all of them. A lane whose source would be beyond
the warp reads its own value (`ShuffleSource`), as the instruction does. A 32-bit load at an
offset that is no multiple of four traps the launch. A launch that asks for more shared
memory than there is, or for a grid taller than the device allows (`GridLimitY`, M blocks),
does not start and nobody asks for the error. The naive kernel's launcher is no different: it
asks for no shared memory, but for as many blocks in y as cover M (16 rows each), so above
16 * 65535 rows it is refused and its output stays as `torch::empty` left it. Each kernel says
with `Launchable` which shapes the device accepts, and gives that to `Gemm`.

In `Int4` a weight is an fp16 number in units of the smallest subnormal. The scale has two
values: the exact quotient the codes are computed with, and the one rounded to fp16 that is
stored (`StoredScale`); dequantization multiplies the first's codes with the second. A tie of
`round` goes to the even neighbour where float32 represents the tie, and either way, but the
same way for the whole group, where the scale is inexact (`RoundedCode`). The docstring's
caution that -8 is "reachable only via rounding" is answered by
`QuantTypeOK` (theorem `CodesFit`): it is never reached.

### Concurrent runner

`StreamHarness` is `main()` of `run_concurrent.cpp` with its threads and the device.
`CopyIn`, `EnterEnqueue`/`LeaveEnqueue` and `CopyOut` are the three lines of `submitOnce`
(`enqueueV3` has a beginning and an end because the rule about contexts is about overlap);
`Sync` is the wait, after each request in `main` and after the last in a thread;
`NextWarmup`, `Spawn` and `Join` are the rest of `main`. `Execute` is the device
(external): it takes a stream's operations in order and interleaves streams freely. A buffer
holds the number of the request whose data is in it. Any submission may be refused
(`Submit`), since no return value is looked at.

### TensorRT plugin

`PluginLifetime` has one action per operation TensorRT may ask for (`CreatePlugin`, `Clone`
for `clone` and `attachToContext`, `Enqueue`, `Serialize`, `Destroy`) and one per step of a
construction that can fail: each host copy, each `cudaMalloc`, each `cudaMemcpy`, in any order
of the delegating constructor's arguments, as C++ leaves it open. `Throw` may happen before or
after each of them and unwinds to `createPlugin`'s `catch`. Reference counts are not variables:
storage goes when the last object that shares it goes (`LastOf`). A serialization field is a
pointer, and `FieldData` is what is found where it points. External: a stream finishes a
kernel some time later (`KernelDone`), and `cudaFree` waits for the device (`DeviceIdle`).
`PluginWeights` is what the comments promise (`dequant_gemm_plugin.h:31-32, 37-39, 89-92`):
objects are values.

### Module swap

`ModuleSwap` is `main()` of the end-to-end benchmark. `installed` is the module in each of the
128 slots; `taken` is the list that `substitute_all` and `restore_all` build before they loop,
which keeps what it lists alive; `onGpu` says where fp16 layers are. A step of `Substitute` or
`Restore` is one iteration. `RunOutOfMemory` ends the script from any step, as nothing
catches the exception.

### Artifact pipeline

`ArtifactPipeline` names a generation of vectors by its arguments (layer, M, seed) and keeps,
per file, the generation it is from. `Generate` and `WriteFile` are
`gen_plugin_test_vectors.py`, file by file; `Validate` is one run of `validate_plugin_engine`;
`Ctest` starts the ladder of `tests/CMakeLists.txt`, whose rungs are `WriteFile` (fixture
`test_vectors`), `Validate` (`engine_plan`) and `EngineLevel` (`run_single` with the harness).
`Verdicts` is what a comparison may say: the outputs are the same, off or NaN, depending on
the files it was given and on how the plugin behaves (`plugin`); where lengths do not fit and
nothing checks them, all three. A file is as long as the table of `shapes.py` makes it for its generation (`PHI3_LAYER_SHAPES`), and holds the numbers its
generation drew: `gen_plugin_test_vectors.py` seeds the generator, draws the M K numbers of x
and then the N K of the weights, so x of another layer with the same K is the same data
(`XOf`), and where the weights begin in the seed's stream depends on M (`WOf`). Different runs
of a stream are taken for different data. Outputs are the same when shape, x, packed and
scale are those the reference was computed from. `run_single`'s check (`SizeChecked`) is the
code's: x against M K, reference against M N, numbers of elements and nothing else. The plan
may be written whole, in part, or not at all, and the validator does not look. `plan.fit` is a
note of the model, not of the file: whether the lengths fitted when the plan was built.

## 4. Runs

| Run | Question | Bounds | States |
|---|---|---|---|
| `spec_decode` | is the output greedy, do the caches and counters follow it, is the contract kept, does it implement `GreedyDecode` (liveness included) and does every call end, for every pair of models | target tables of 4 entries over 3 ids, draft tables of 3 over 2, two prompts, budgets 0 and 4, windows 0, 1, 2, 5, EOS absent, 1 or 2 | 250,506 |
| `scripts` | when does the verification exit with 0; are the benchmark's rows their prompt's own, is speculative generation as long as plain is made to be, is the file whole | verification: two prompts, budgets 1 and 4, windows 0, 2, 4; benchmark: windows 1 and 3, 3 prompts of which 2 are measured, and a catalogue that lacks one; tables of 3 and 2 | 51,676 |
| `verify_claim` (violated) | is a mismatch always the decoder's fault, as the docstring says | as the verification above | stops at a trace |
| `kernel_optimized` | does the kernel implement `Gemm` on the shapes it is made for | warps of 4, one warp per block, up to 5 words a row; a row too long and a row too many for the launch | 38,320 |
| `layer` | what holds for every shape `check_inputs` accepts, and which launches leave cells unwritten; does the flat index survive 32 bits; how far and in what order are dequantized weights, do codes fit and do readers find them | kernel: warps of 2, two per block, 8 kinds of shapes; dequantize-only: ints of 5 bits, blocks of 4, 8 shapes around the limits; quantizer: rows of 8 columns in two groups, pairs up to 120 units, scales of 3 bits | 474,257 |
| `kernel_contract` (violated) | same contract as the naive kernel | the kernel's shapes above | stops at a trace |
| `kernel_naive` | does the naive kernel implement `Gemm` on all accepted shapes | blocks of 2 x 2, up to 2 of them in y, 5 shapes, of which one is refused | 15,727 |
| `stream_harness` | contexts, buffers, timed region, and does the program end | 2 threads with 3 requests each, 2 solo requests, 1 refusal | 92,294 |
| `plugin_lifetime` | storage, launched kernels, and does it implement `PluginWeights` | 3 objects, 2 creations, 2 layers' weights | 11,883 |
| `module_swap` | what is installed, where, what is held at once, and what the file compares | the real 32 x 4 layers and 18 prompts | 1,152 |
| `artifact_pipeline` | what a plan, a PASS and a passed ladder mean | 4 generations (the default, another seed, another layer with its N, another with its K), 3 plugins | 1,428,025 |
| `validate_claim` (violated) | does a match confirm the plugin's behaviour | as above | stops at a trace |

`scripts` and `layer` put machines that share no state into one run: a behaviour is one of
them, the others rest in an initial state. The two scripts are separate processes; the
quantizer, the dequantize-only kernel and the optimized kernel name data by where it lies, so
no value of one reaches another.

The type invariants of the naive kernel, the plugin, the swap and the pipeline are proved and
no run states them again; the decoder's is part of `IndInv`. `LayerTypesOK`, `ScriptTypesOK`
and the runner's `TypeOK` are checked here and proved. The two parts of `HeldTwice` are
`SubstituteFrees` and `RestoreHoldsBoth`.

Why the bounds are enough.
*Decoder*: a round has a window of 0, 1, 2 or more than the budget; the budget of 4 allows
several rounds, rejection at every position, a fully accepted window that is trimmed, EOS in
the middle of a round and in what is trimmed; the hash of a context depends on each id and
its place, so an id missing, stale or misplaced in a cache changes some table's pick. The
first prompt starts with an id the draft does not know. Two prompts per script run are
enough for a mismatch to be followed by a match.
*Kernels*: warps of four have two shuffles, and a row of five words gives lane 0 two chunks
and the others one; the accepted shapes have no whole word, columns left over, rows off the
word boundary, more rows than warps (so idle warps), groups shorter and longer than a word,
and a row larger than shared memory.
*Benchmark script*: with two measured prompts and a warm-up each generation has one before it
that could leak into it; budget 4 with windows 1 and 3 gives several rounds and a trimmed one.
*Dequantize-only*: `Width` 5 puts sizes below, at and beyond every threshold: products that
fit with and without the rounding up to blocks, that wrap to a negative number and that wrap
to a small positive one.
*INT4*: a group is determined by its largest weight and the weight considered, so two columns
of a group are varied, over every pair up to 120 units: with scales of 3 bits that spans four
binades of the scale, exact and inexact scales, ties in both directions, and subnormal scales
down to 0. The pair stands beside a second group with other weights in the same word. The rows
over three weights put every one of them into both nibbles of each byte.
*Plugin*: three objects are an original, its clone and one that takes the place of either; two
creations let a construction fail beside one in use, and storage be reused.
*Artifacts*: of the four generations one has all files as long as the default's and other
numbers in them (another seed), one has its reference as long (`down_proj`, the same N) and
one has the very same x (`qkv_proj`, the same K). One that differs in M makes the run seven
times as large, passes too, and is left to the theorems: its vectors are of other lengths and
its weights other numbers of the same length, which the others have in turn. Bounds of the model: a generation is interrupted
between files and never within one, processes do not overlap, and the plugin under test does
not change.
*Runner*: with three requests outstanding each buffer is reused twice before the wait; two
threads are enough for a shared context or stream, one refusal for a lost operation in every
place.

Fairness. `SpecDecode` and `VerifyCorrectness` are one thread: weak fairness of `Next` says
that it runs. `OptimizedKernel` and `NaiveKernel`: the device runs as long as some thread can.
`StreamHarness`: every thread is scheduled, and the device goes on with every stream that
holds work; nothing is assumed between streams. `SpecBenchmark`, `Int4`, `DequantOnly`,
`PluginLifetime`, `ModuleSwap` and `ArtifactPipeline` state no fairness: what is checked of
them is safety, and their scripts may be stopped anywhere. No run switches deadlock checking off:
stopping is a stuttering action of its own (`Finished`, `Exited`).

Definitions named `Bug...` are plausible mistakes that nothing uses; PROJECT.json pairs each
with the property that notices it when it replaces the definition after it.

## 5. What the violated runs show

- `verify_claim`: `verify_correctness.py` compares two generations under different rules. The
  plain one has `min_new_tokens=max_new_tokens`, which forbids EOS; the speculative one has
  no such rule. If the target's own pick is EOS before the budget, the script reports a
  mismatch though `speculative_generate` is right. `VerdictIsEosFree` says exactly when: the
  verdict is "match" if and only if no speculative output holds an EOS id.
- `kernel_contract`: the header of the optimized kernel says "Same interface contract as the
  naive kernel". With K not a multiple of 8, which `check_inputs` accepts, the last columns
  of every row are not multiplied (K = 6: none is), and where K/2 is not a multiple of 4 the
  second row begins off a word boundary. `StoredIsVectorPart` says exactly what is computed.
  Phi-3's shapes (3072, 8192) are not affected; the kernel's comment knows only those.
- `validate_claim`: `std::max(max_abs_diff, NaN)` is `max_abs_diff`, so NaN outputs pass, in
  `validate_plugin_engine`, `run_single` and `bench_cublas_baseline`. `PlanIsValidated` and
  `SinglePassMeansMatch` hold for plugins that compute numbers, and say so.

Noticed while modelling, beside the runs:

- The size check of `run_single` is weaker than its message: a `down_proj` reference goes
  through against an `o_proj` engine, and an x of `qkv_proj` not only goes through but is the
  same data, so `run_single` passes on the x a stopped generation of another layer left.
  `SinglePassMeansMatch` says what a PASS still means: plan and reference are of one
  generation, and x holds that generation's numbers.
- Neither launcher looks at the launch error. `ImplementsGemm` of both kernels and
  `CompleteUnlessRefused` say which shapes leave the output unwritten.
- `restore_all` loops over `list(iter_phi3_linears(model))`, which holds every INT4 module until
  the loop ends; while the fp16 layers move back nothing is freed, and at the end all 128
  layers are on the GPU in both forms, which is what the comment on `substitute_all` sets out
  to avoid. `RestoreHoldsBoth` says so; `SubstituteFrees` shows that `substitute_all` does
  avoid it, `BetweenIsOriginal` that the memory is free afterwards.
- A plan that cannot be opened for writing goes unnoticed: the plugin rung passes and the
  engine rung runs an earlier plan. `LadderMeansMatch` says how far that goes: that plan has
  the same weights, or the engine rung fails.
- The rows of `benchmark_table.py` are said to run on identical input, but `run_concurrent`
  fills its own with 0.01 and does not read the vectors. The table is not modelled.

## 6. What is proved

Every safety property a passing run checks is also proved, for every value of the constants.
The assumptions are named, stand in the modules that declare the constants, and are evaluated
by the runs:

| Assumption | What it says, and why the code has it |
|---|---|
| `VocabAssumption`, `PickAssumption`, `CallAssumption` (`Models`) | vocabularies, models and calls have their types; a prompt and its budget fit the models' window |
| `SuppressAssumption`, `PromptAssumption` (`VerifyCorrectness`) | `min_new_tokens` suppresses EOS ids and nothing else; the list of prompts is not empty and asks without `eos_token_id`, as `main()` does |
| `ScriptAssumption` (`SpecBenchmark`) | literals of `benchmark.py`: some ids to measure, distinct ids in the catalogue, `MAX_NEW_TOKENS` above 0 |
| `ShapesAssumption`, `NoValueAssumption` (`Layout`) | shapes `check_inputs` accepts; uninitialised memory is told apart from a sum (it is a device of the model) |
| `GridAssumption`, `WarpAssumption` (`OptimizedKernel`) | sizes are positive; a warp can be halved down to one lane (`kWarpSize` is 32) |
| `BlockAssumption` (`NaiveKernel`), `WidthAssumption`, `MatricesAssumption`, `ElementAssumption` (`DequantOnly`) | blocks (and the limit of a grid), ints and matrices are positive; uninitialised memory is no stored element |
| `RowAssumption`, `WeightAssumption`, `ScaleAssumption`, `PrecisionAssumption` (`Int4`) | the asserts of `quant.py`; the format of the scale has digits and does not overflow |
| `ArgumentAssumption` (`StreamHarness`), `ValuesAssumption` (`PluginLifetime`), `SwapAssumption`, `ArtifactAssumption` | argument counts, distinct names, types; the layers of generations are those of the table, which is no constant |

The prover cannot use the library's induction theorems, which take an operator. Where a proof
needs induction over numbers, over the positions of a sequence or over a recursive function, it
is done with sets: `LeastNatural` takes the least element of a set of naturals from the
well-foundedness of inclusion of finite sets (`FS_StrictSubsetOrderingWellFounded`,
`WFMin`), and `InductiveSet`, that a set with 0 and all successors is `Nat`, follows. A
recursive function is shown to exist (`RecursionOver`) and to be the only solution of its
equations (`OneUnrolling`) before anything is said of what it computes.

### The decoder (`SpecDecode_proofs`)

`IndInv` is the inductive invariant: at each label, what control relies on. Between rounds the
caches hold the output; while drafting the draft's cache is the output followed by its guesses
(`DraftAhead`); while accepting, `predictions[j+1]` is the target's pick after the output and
the first j guesses, and the first `accepted` guesses are confirmed; before the fold both caches
lack exactly the extra token. `OutputIsGreedy` and the rest are not inductive by themselves:
that the next token is right depends on caches filled rounds earlier. The step lemmas follow
the actions; `EmitIsEmitting` reduces both ways a round ends to one description (a non-empty
prefix of the round's tokens), so that the hard step is proved once (`EmittingStep`). From
`IndInv`: `TypeCorrect`, `OutputGreedy`, `CachesExact`, `AcceptanceMeasuresAgreement`,
`ReturnsAsPromised`, `NeverPastBudget`, and `RefinesGreedyDecode`: initial states and steps map
to those of `GreedyDecode`, where a round is one `Extend`. `StatsExact` adds the fold over the
acceptance lengths: the counters agree with what was emitted over any number of rounds.

### The two scripts (`Scripts_proofs`)

Both rest on `OutputGreedy`, so on what a call returns and not on how. If every emitted token
is what `pick` says after those before it, output and continuation agree (`OutputUnrolls`).
For `verify_correctness.py` that compares plain and speculative generation position by
position (`ComparisonTells`): they part exactly at the first EOS id, hence
`VerdictMeansEosFree`, by the invariant `VerifyInv`. For `benchmark.py`, `RunInv` says while a
call runs that the counters so far and the cost of what is still missing add up to `Cost`,
which is defined from the models' picks alone (`Accounted`); `BenchInv` says of the rows that
each is the cost of its own prompt and that rows and prompts left make up the plan
(`Measuring`). `RowsReportTheirPrompts`, `SameWork` and `ResultsWhole` follow, and `ScriptTypes`
for both scripts side by side.

### The kernels and the INT4 scheme (`Layer_proofs`, `NaiveKernel_proofs`)

*Optimized kernel.* `StagedBeforeRead` is not inductive: that a thread at the barrier finds a
full row is because an element not yet staged is still ahead of some thread, a whole number of
strides away (`NothingSkipped`); `StageInv` is the two with the types. On top of it `KernelInv`
follows every partial sum. In the loop a lane holds the products of the words it has read
(`Share`, with the warp as width); in the reduction, of width 32, 16, ... 1, a lane below the
width holds those of all lanes that are congruent to it, and the others hold what nobody reads
again, which is why a source beyond the warp does no harm. A lane's cell is unstored until it
returns, and a launch that is trapped has a thread stuck before a word off its boundary
(`StatusInv`). `StoresVectorPart` and `OnlyRefusedIncomplete` follow for every accepted shape,
and `ComputesGemm`, the steps of `Gemm`, for shapes whose K is a multiple of 8; without that
hypothesis it is false, which is what `kernel_contract` shows. The bags of products need that
sums over disjoint sets of columns add up and that different columns give different products.

*Dequantize-only.* `DequantInv` says exactly which elements are stored (`Stored`); the
arithmetic is that `Wrap` is the identity below the limit, and that if the rounded size
reaches it, either N K as an int or the grid is too small, whatever it wraps to.
`StoresInsideMatrix` and `WholeUpToIntLimit` hold for every width.

*INT4.* Everything about rounding follows from one fact, that a code is a nearest integer to
7 w / absmax (`RoundedIsNearest`), and everything about the stored scale from the same of
`half`. `CodesFit`, `PackedIsReadBack` (with `UnpackInvertsPack`), `ErrorIsBounded`,
`OrderSurvives` and `NothingOnlyOfTiny` hold for every row, group size and precision of the
scale. `LayerTypes` combines the types of the three.

*Naive kernel.* A thread's sum is, at every turn of its loop, the bag of the reference's first
k products (`Sums`; `OneMore` is the lemma, and rests on products of different columns being
different), its cell is unstored until it returns (`Unstored`), and threads run only in a grid
the device has started (`Started`). Hence `TypesHold`, with the arithmetic of row-major offsets
in `RowMajor` and `PartOf`, and `RefinesGemm`, for every limit of the grid: what a launch that
fits stores, and that one too tall stores nothing.

### The runner (`StreamHarness_proofs`)

`PhaseInv`: main submits only before t0, the threads only after it, and a thread only for its
own worker; hence `ContextsExclusive`. `LeftInv` and `SubmittedInv` count the requests,
`QueueInv` bounds what a stream holds. As long as nothing is refused, the operations executed,
those in the stream and those an agent still owes are, in this order, all the operations of the
worker's requests (`PipelineInv`, by their `Rank`); from it each buffer holds the request it
should. `TypesHold`, `ResultsOrdered` and `TimedWorkExact` follow, for any number of workers,
requests and refusals.

### The plugin, the swap and the artifacts

- `PluginLifetime_proofs`. `StorageIsHeld` needs that a creation in use is not the one under
  construction (`UploadUnderWay`, `Storage`), `KernelReadsLive` that every creation in flight
  is held by a live object (`KernelsHeld`), and the refinement that fields point into their
  own object (`OwnFields`) and objects name storage of their own layer (`OwnStorage`); from
  these `ObjectsAreValues`, the refinement of `PluginWeights` (which states no fairness, so
  all of it).
- `ModuleSwap_proofs`. The invariant says, for each position of the loop, exactly what the
  slots hold, which originals are put aside and what is on the GPU; the theorems, `PeakMemory`
  among them, follow for any number of layers and prompts. `RowsInv` adds that a
  configuration's rows are the first of its prompts and that the configurations before it are
  complete: `ZipLeavesNoneOut`.
- `ArtifactPipeline_proofs`. One lemma about a comparison (`PassMeansOneGeneration`) and one
  about files. The first rests on the table: no two layers have as many weights, so the run of
  numbers the weights are gives layer, M and seed away (`WeightsTellGeneration`), and an output
  that is the reference's comes from the reference's generation. The second: what of the ladder's generation is not on disk yet is still to be written
  (`FilesAreOwn`). The plan outlives the files it was compared with, which is why
  `PlanIsValidated` speaks of the plan alone.

### Only model-checked

Every liveness property, because fairness and ENABLED are out of the prover's reach:
`Terminates` of the decoder and of the runner, and the fairness part of
`ImplementsGreedyDecode` and of both `ImplementsGemm`, whose safety parts are
`RefinesGreedyDecode`, `ComputesGemm` and `RefinesGemm`.

## 7. Not modelled

- Floating point: a sum of products is a bag, so the order of additions, rounding and the
  tolerances of the tests are below the models.
- Batch size, attention masks, embeddings: a model is its argmax. Ties of the argmax are
  broken one way, and batched and incremental passes of a model are assumed to agree.
- Dtypes and devices in the torch binding; failing constructors in the runner (they exit).
- Time: medians, throughput figures, confidence intervals, plots. The drivers
  `bench_naive.cu`, `bench_optimized.cu`, `bench_cublas_baseline.cu` and `phase5b_plot.py`
  measure, print or draw what other parts do and keep no state of their own;
  `benchmark_table.py` starts the programs one after another and prints their figures.
- `Int4` takes weights in fp16, as the models' are. The test vectors are generated from fp32
  weights, of which some may lie so near a tie that float32 rounds them the other way; the
  bound on the error holds for them up to that last place.
- The plugin's stateless answers (formats, shapes, types, `configurePlugin`, `onShapeChange`),
  the builder's and the runtime's objects inside the validator, and the harness's once-only
  registration of the creator, which both programs reach from one thread.
- Lengths of `packed` and `scale`: `createPlugin` does not compare them with N, K and
  group_size, and what a kernel reads beyond an upload is undefined. The properties of
  `ArtifactPipeline` assume that they fit (`fit`, `WeightsFit`), so none of them covers that
  hazard. A comparison with any other file that does not fit may end any way.
- The logger and the build files, which have no behaviour.

## 8. What the plan has left

Model: torn vector files, once it is decided what the readers make of them. Proofs: none of the
plan's is open; a property added to a run is to be proved with it.
