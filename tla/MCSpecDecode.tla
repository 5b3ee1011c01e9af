---------------------------- MODULE MCSpecDecode ----------------------------
(***************************************************************************)
(* Small models for SpecDecode: a model is a short table of picks, and a   *)
(* context selects an entry by a hash that depends on every id, its place  *)
(* and the length, so that a stale, missing or misplaced id in a cache     *)
(* changes the pick.  One run explores every pair of tables and every      *)
(* call: the rigid variable call is chosen in Init.                        *)
(***************************************************************************)
EXTENDS SpecDecode

CONSTANTS Budgets, Windows, TargetTable, DraftTable

MCNoEos == -1

Hash(c, n) == 1 + (FoldLeft(LAMBDA h, id : (3 * h + id + 1) % 17, 0, c) % n)

\* Tables of TargetTable (DraftTable) entries over the vocabulary.
MCTargetModels == [1 .. TargetTable -> 0 .. TargetVocab - 1]
MCDraftModels == [1 .. DraftTable -> 0 .. DraftVocab - 1]
MCTargetPick(m, c) == m[Hash(c, TargetTable)]
MCDraftPick(m, c) == m[Hash(c, DraftTable)]

\* The first prompt begins with an id foreign to the draft.
MCPrompts == {<<2>>, <<0, 1>>}

\* EOS absent, an id both models know, an id only the target knows.
MCEos == {MCNoEos, 1, 2}

MCCalls ==
    [target : MCTargetModels, draft : MCDraftModels, input_ids : MCPrompts,
     max_new_tokens : Budgets, k : Windows, eos_token_id : MCEos]
=============================================================================
