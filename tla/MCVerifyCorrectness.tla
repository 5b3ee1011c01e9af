------------------------- MODULE MCVerifyCorrectness -------------------------
(***************************************************************************)
(* The table models of MCSpecDecode with EOS id 2 of three ids; when the   *)
(* table says 2, plain generation takes the second best id.                *)
(***************************************************************************)
EXTENDS VerifyCorrectness

CONSTANTS Budgets, Windows, TargetTable, DraftTable

MCNoEos == -1

Hash(c, n) == 1 + (FoldLeft(LAMBDA h, id : (3 * h + id + 1) % 17, 0, c) % n)

MCTargetModels == [1 .. TargetTable -> 0 .. TargetVocab - 1]
MCDraftModels == [1 .. DraftTable -> 0 .. DraftVocab - 1]
MCTargetPick(m, c) == m[Hash(c, TargetTable)]
MCDraftPick(m, c) == m[Hash(c, DraftTable)]

MCEosIds == {2}
MCTargetPickNotEos(m, c) ==
    IF MCTargetPick(m, c) = 2 THEN Len(c) % 2 ELSE MCTargetPick(m, c)

MCCall(t, d, ids, n, w) ==
    [target |-> t, draft |-> d, input_ids |-> ids, max_new_tokens |-> n,
     k |-> w, eos_token_id |-> MCNoEos]

\* One script run: two prompts, the same models, budget and window.
MCPromptLists ==
    {<<MCCall(t, d, <<2>>, n, w), MCCall(t, d, <<0, 1>>, n, w)>> :
       t \in MCTargetModels, d \in MCDraftModels, n \in Budgets, w \in Windows}

MCCalls ==
    [target : MCTargetModels, draft : MCDraftModels,
     input_ids : {<<2>>, <<0, 1>>}, max_new_tokens : Budgets, k : Windows,
     eos_token_id : {MCNoEos}]
=============================================================================
