------------------------------- MODULE Models -------------------------------
(***************************************************************************)
(* What python/speculative/ takes from outside src/: the target and the    *)
(* draft language model, and the calls that speculative_generate answers.  *)
(* A model is the function from the token ids it has been fed to the       *)
(* argmax of its logits for the next id; the code uses nothing else of it. *)
(* Batching, embeddings and floating point are below this level.           *)
(***************************************************************************)
EXTENDS Integers, SequencesExt

CONSTANTS
    TargetVocab,       \* target_model.config.vocab_size
    DraftVocab,        \* draft_model.config.vocab_size
    TargetModels,      \* names of the target models considered
    DraftModels,       \* names of the draft models considered
    TargetPick(_, _),  \* argmax of a target's logits after a context
    DraftPick(_, _),   \* argmax of a draft's logits after a context
    NoEos,             \* eos_token_id = None
    MaxContext,        \* the longest context a model is ever asked about
    Calls              \* the argument lists of speculative_generate

TargetToken == 0 .. TargetVocab - 1
DraftToken  == 0 .. DraftVocab - 1

TargetContext == BoundedSeq(TargetToken, MaxContext)
DraftContext  == BoundedSeq(DraftToken, MaxContext)

CallType ==
    [target : TargetModels, draft : DraftModels, input_ids : Seq(TargetToken),
     max_new_tokens : Nat, k : Nat, eos_token_id : TargetToken \cup {NoEos}]

(* Drafted ids are fed to the target as they are, so the draft's ids must  *)
(* be ids of the target: spec_decode.py's vocab mismatch note assumes the  *)
(* target's vocabulary is the larger one.                                  *)
ASSUME VocabAssumption ==
    /\ TargetVocab \in Nat
    /\ DraftVocab \in 1 .. TargetVocab
    /\ NoEos \notin TargetToken
    /\ MaxContext \in Nat

ASSUME PickAssumption ==
    /\ \A m \in TargetModels : \A c \in TargetContext :
         TargetPick(m, c) \in TargetToken
    /\ \A m \in DraftModels : \A c \in DraftContext :
         DraftPick(m, c) \in DraftToken

(* The prompt has a last token to take logits after, and prompt and budget *)
(* fit in the window of both models.                                       *)
ASSUME CallAssumption ==
    \A c \in Calls :
      /\ c \in CallType
      /\ Len(c.input_ids) > 0
      /\ Len(c.input_ids) + c.max_new_tokens <= MaxContext
=============================================================================
