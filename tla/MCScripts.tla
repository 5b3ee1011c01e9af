------------------------------ MODULE MCScripts ------------------------------
(***************************************************************************)
(* The two scripts that drive the decoder, verify_correctness.py and       *)
(* benchmark.py, with the table models of MCSpecDecode.  They are separate *)
(* processes: a behaviour is a run of one of them.                         *)
(*                                                                         *)
(* verify_correctness.py: two prompts, the same models, budget and window; *)
(* EOS id 2 of three ids, instead of which plain generation takes a second *)
(* best id.  benchmark.py: a catalogue of three prompts of which two are   *)
(* measured, and one that lacks a measured prompt.                         *)
(***************************************************************************)
EXTENDS VerifyCorrectness, SpecBenchmark

CONSTANTS Budgets, Windows, BenchWindows, TargetTable, DraftTable

VARIABLE running

MCNoEos == -1

Hash(c, n) == 1 + (FoldLeft(LAMBDA h, id : (3 * h + id + 1) % 17, 0, c) % n)

MCTargetModels == [1 .. TargetTable -> 0 .. TargetVocab - 1]
MCDraftModels == [1 .. DraftTable -> 0 .. DraftVocab - 1]
MCTargetPick(m, c) == m[Hash(c, TargetTable)]
MCDraftPick(m, c) == m[Hash(c, DraftTable)]

MCEosIds == {2}
MCTargetPickNotEos(m, c) ==
    IF MCTargetPick(m, c) = 2 THEN Len(c) % 2 ELSE MCTargetPick(m, c)

MCCall(t, d, ids, n, v) ==
    [target |-> t, draft |-> d, input_ids |-> ids, max_new_tokens |-> n,
     k |-> v, eos_token_id |-> MCNoEos]

MCPromptLists ==
    {<<MCCall(t, d, <<2>>, n, v), MCCall(t, d, <<0, 1>>, n, v)>> :
       t \in MCTargetModels, d \in MCDraftModels, n \in Budgets, v \in Windows}

MCIds == {"s1", "l1"}

Prompt(id, ids) == [id |-> id, ids |-> ids]

MCScripts ==
    [target : MCTargetModels, draft : MCDraftModels, n : Budgets, k : BenchWindows,
     warmup : {<<1>>},
     all : {<<Prompt("s1", <<2>>), Prompt("m1", <<1, 1>>), Prompt("l1", <<0, 1>>)>>,
            <<Prompt("s1", <<2>>), Prompt("m1", <<1, 1>>)>>}]

MCCalls ==
    [target : MCTargetModels, draft : MCDraftModels,
     input_ids : {<<1>>, <<2>>, <<0, 1>>, <<1, 1>>}, max_new_tokens : Budgets,
     k : Windows \cup BenchWindows, eos_token_id : {MCNoEos, 2}]

-----------------------------------------------------------------------------
\* The variables of the script that does not run.
NoVerification ==
    /\ prompts = << >> /\ step = "plain" /\ plain_new = << >>
    /\ all_match = TRUE /\ exit_status = -1 /\ eos_picked = FALSE

NoBenchmark ==
    /\ script = CHOOSE s \in Scripts : TRUE
    /\ stage = "select" /\ todo = << >> /\ rows = << >>
    /\ results = [is |-> "earlier", rows |-> << >>]

MCInit ==
    \/ running = "verify_correctness" /\ VerifyInit /\ NoBenchmark
    \/ running = "benchmark" /\ BenchInit /\ NoVerification

MCNext ==
    \/ running = "verify_correctness" /\ VerifyNext /\ UNCHANGED <<running, bench>>
    \/ running = "benchmark" /\ BenchNext /\ UNCHANGED <<running, harness>>

MCSpec == MCInit /\ [][MCNext]_<<running, vars, harness, bench>>

(* Types of both scripts: plain generation never holds an EOS id (it is    *)
(* suppressed), rates are fractions of at most one.                        *)
ScriptTypesOK == VerifyTypeOK /\ BenchTypeOK
=============================================================================
