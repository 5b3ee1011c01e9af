----------------------------- MODULE SpecDecode -----------------------------
(***************************************************************************)
(* speculative_generate of python/speculative/spec_decode.py, statement    *)
(* group by statement group.                                               *)
(*                                                                         *)
(* A KV cache is the sequence of ids its model has been fed, and logits    *)
(* are the argmax the code takes of them.  HF caches are updated and       *)
(* cropped in place, so target_cache and target_cache_extended are one     *)
(* object and one variable.  Sequences are indexed from 1: predictions[j]  *)
(* of the code is predictions[j + 1] here.                                 *)
(*                                                                         *)
(* A definition named Bug... is what the definition after it would be with *)
(* a plausible mistake; nothing uses it, and PROJECT.json says which       *)
(* property notices the mistake.                                           *)
(***************************************************************************)
EXTENDS Models

VARIABLES
    call,          \* the arguments: target_model, draft_model, input_ids, ...
    pc,            \* where in the function control is
    generated,     \* prompt and emitted tokens
    n_new,         \* tokens emitted so far
    hit_eos,       \* an emitted token was eos_token_id
    target_cache,  \* ids in the target's KV cache
    target_next,   \* argmax of target_next_logits
    draft_cache,   \* ids in the draft's KV cache
    draft_next,    \* argmax of draft_next_logits
    this_k,        \* size of this round's window
    drafted,       \* this round's drafted ids
    predictions,   \* this round's target picks, one more than drafted
    accepted,      \* drafted ids found equal to the target's pick
    stats          \* SpecDecodeStats

round == <<this_k, drafted, predictions, accepted>>
caches == <<target_cache, target_next, draft_cache, draft_next>>
output == <<generated, n_new, hit_eos>>
vars == <<call, pc, output, caches, round, stats>>

-----------------------------------------------------------------------------
TargetArgmax(context) == TargetPick(call.target, context)
DraftArgmax(context) == DraftPick(call.draft, context)

\* An id the draft's embedding table cannot index becomes 0.
DraftSafe(ids) ==
    [i \in DOMAIN ids |-> IF ids[i] < DraftVocab THEN ids[i] ELSE 0]

\* The first n elements: a slice [:n] and Cache.crop(n), a no-op when short.
Take(s, n) == IF Len(s) <= n THEN s ELSE SubSeq(s, 1, n)

remaining == call.max_new_tokens - n_new

\* Mistake: the window ignores the budget.
BugFullWindow == call.k

\* Mistake: the window leaves room for the bonus token.
BugRoomForBonus == IF call.k < remaining THEN call.k ELSE remaining - 1

\* Never draft past the budget.
Window == IF call.k < remaining THEN call.k ELSE remaining

\* The correction or bonus token of the round.
ExtraToken == predictions[accepted + 1]

\* Mistake: the bonus token may overshoot the budget.
BugUntrimmed == Append(Take(drafted, accepted), ExtraToken)

\* What the round found, trimmed to the budget, before EOS is looked for.
NewTokens == Take(Append(Take(drafted, accepted), ExtraToken), remaining)

-----------------------------------------------------------------------------
NoStats ==
    [rounds |-> 0, tokens_generated |-> 0, tokens_proposed |-> 0,
     tokens_accepted_from_draft |-> 0, accepted_per_round |-> << >>]

Init ==
    /\ call \in Calls
    /\ pc = "prefill"
    /\ generated = << >> /\ n_new = 0 /\ hit_eos = FALSE
    /\ target_cache = << >> /\ target_next = 0
    /\ draft_cache = << >> /\ draft_next = 0
    /\ this_k = 0 /\ drafted = << >> /\ predictions = << >> /\ accepted = 0
    /\ stats = NoStats

\* Another call of the function: everything but stats starts over.
Restart(c) ==
    /\ call' = c
    /\ pc' = "prefill"
    /\ generated' = << >> /\ n_new' = 0 /\ hit_eos' = FALSE
    /\ target_cache' = << >> /\ target_next' = 0
    /\ draft_cache' = << >> /\ draft_next' = 0
    /\ this_k' = 0 /\ drafted' = << >> /\ predictions' = << >> /\ accepted' = 0

\* Mistake: one stats object serves all calls, as a default argument would.
BugStatsKept(c) == Restart(c) /\ UNCHANGED stats

Enter(c) == Restart(c) /\ stats' = NoStats

\* Both models read the prompt; the draft reads it with foreign ids clamped.
Prefill ==
    /\ pc = "prefill"
    /\ target_cache' = call.input_ids
    /\ target_next' = TargetArgmax(target_cache')
    /\ draft_cache' = DraftSafe(call.input_ids)
    /\ draft_next' = DraftArgmax(draft_cache')
    /\ generated' = call.input_ids
    /\ pc' = "head"
    /\ UNCHANGED <<call, n_new, hit_eos, round, stats>>

\* Mistake: the round feeds the draft the last token again, already cached.
BugLastTokenAgain ==
    /\ pc = "head"
    /\ n_new < call.max_new_tokens /\ ~ hit_eos
    /\ this_k' = Window
    /\ drafted' = << >>
    /\ draft_cache' = draft_cache \o DraftSafe(<<Last(generated)>>)
    /\ draft_next' = DraftArgmax(draft_cache')
    /\ pc' = "draft"
    /\ UNCHANGED <<call, output, target_cache, target_next, predictions,
                   accepted, stats>>

StartRound ==
    /\ pc = "head"
    /\ n_new < call.max_new_tokens /\ ~ hit_eos
    /\ this_k' = Window
    /\ drafted' = << >>
    /\ pc' = "draft"
    /\ UNCHANGED <<call, output, caches, predictions, accepted, stats>>

ExitLoop ==
    /\ pc = "head"
    /\ ~ (n_new < call.max_new_tokens /\ ~ hit_eos)
    /\ pc' = "returned"
    /\ UNCHANGED <<call, output, caches, round, stats>>

\* One iteration of the draft loop: guess, then feed the guess back.
DraftOne ==
    /\ pc = "draft"
    /\ Len(drafted) < this_k
    /\ drafted' = Append(drafted, draft_next)
    /\ draft_cache' = Append(draft_cache, draft_next)
    /\ draft_next' = DraftArgmax(draft_cache')
    /\ UNCHANGED <<call, pc, output, target_cache, target_next,
                   this_k, predictions, accepted, stats>>

\* torch.cat of an empty list raises.
CatOfNothing ==
    /\ pc = "draft"
    /\ this_k = 0
    /\ pc' = "raised"
    /\ UNCHANGED <<call, output, caches, round, stats>>

\* One batched forward pass of the target over the whole window.
Verify ==
    /\ pc = "draft"
    /\ this_k > 0 /\ Len(drafted) = this_k
    /\ predictions' =
         <<target_next>> \o
         [j \in 1 .. this_k |->
            TargetArgmax(target_cache \o SubSeq(drafted, 1, j))]
    /\ target_cache' = target_cache \o drafted
    /\ accepted' = 0
    /\ pc' = "accept"
    /\ UNCHANGED <<call, output, target_next, draft_cache, draft_next,
                   this_k, drafted, stats>>

\* Mistake: the carried logits are left out, so picks are one ahead.
BugPicksShifted ==
    accepted < this_k /\ predictions[accepted + 2] = drafted[accepted + 1]

DraftConfirmed ==
    accepted < this_k /\ predictions[accepted + 1] = drafted[accepted + 1]

AcceptOne ==
    /\ pc = "accept"
    /\ DraftConfirmed
    /\ accepted' = accepted + 1
    /\ UNCHANGED <<call, pc, output, caches, this_k, drafted, predictions,
                   stats>>

\* Mistake: only the target's cache is rolled back.
BugDraftNotRolledBack ==
    /\ target_cache' = Take(target_cache, Len(generated) + accepted)
    /\ draft_cache' = draft_cache

\* Rejected drafted tokens leave both caches.
RollBack ==
    /\ target_cache' = Take(target_cache, Len(generated) + accepted)
    /\ draft_cache' = Take(draft_cache, Len(generated) + accepted)

\* Mistake: the extra token is counted as accepted from the draft.
BugExtraCounted(new) ==
    [rounds |-> stats.rounds + 1,
     tokens_generated |-> n_new + Len(new),
     tokens_proposed |-> stats.tokens_proposed + this_k,
     tokens_accepted_from_draft |->
        stats.tokens_accepted_from_draft + accepted + 1,
     accepted_per_round |-> Append(stats.accepted_per_round, accepted)]

CountRound(new) ==
    [rounds |-> stats.rounds + 1,
     tokens_generated |-> n_new + Len(new),
     tokens_proposed |-> stats.tokens_proposed + this_k,
     tokens_accepted_from_draft |->
        stats.tokens_accepted_from_draft + accepted,
     accepted_per_round |-> Append(stats.accepted_per_round, accepted)]

\* The rest of the loop body up to the break: the round's tokens become new.
Emit(new, eos) ==
    /\ stats' = CountRound(new)
    /\ RollBack
    /\ generated' = generated \o new
    /\ n_new' = n_new + Len(new)
    /\ hit_eos' = eos
    /\ pc' = IF eos \/ n_new + Len(new) >= call.max_new_tokens
             THEN "returned" ELSE "fold"
    /\ UNCHANGED <<call, target_next, draft_next, round>>

EmitAll ==
    /\ pc = "accept"
    /\ ~ DraftConfirmed
    /\ \A i \in 1 .. Len(NewTokens) : NewTokens[i] # call.eos_token_id
    /\ Emit(NewTokens, FALSE)

\* Mistake: EOS is noticed, what follows it in the round is not cut off.
BugNotCutAtEos ==
    /\ pc = "accept"
    /\ ~ DraftConfirmed
    /\ \E i \in 1 .. Len(NewTokens) : NewTokens[i] = call.eos_token_id
    /\ Emit(NewTokens, TRUE)

EmitThroughEos ==
    /\ pc = "accept"
    /\ ~ DraftConfirmed
    /\ \E i \in 1 .. Len(NewTokens) :
         /\ NewTokens[i] = call.eos_token_id
         /\ \A j \in 1 .. i - 1 : NewTokens[j] # call.eos_token_id
         /\ Emit(SubSeq(NewTokens, 1, i), TRUE)

\* The extra token was predicted, never fed: feed it to both models.
Fold ==
    /\ pc = "fold"
    /\ target_cache' = Append(target_cache, ExtraToken)
    /\ target_next' = TargetArgmax(target_cache')
    /\ draft_cache' = draft_cache \o DraftSafe(<<ExtraToken>>)
    /\ draft_next' = DraftArgmax(draft_cache')
    /\ pc' = "head"
    /\ UNCHANGED <<call, output, round, stats>>

Finished == pc \in {"returned", "raised"} /\ UNCHANGED vars

Next ==
    \/ Prefill \/ StartRound \/ ExitLoop
    \/ DraftOne \/ CatOfNothing \/ Verify
    \/ AcceptOne \/ EmitAll \/ EmitThroughEos \/ Fold
    \/ Finished

(* The function is one thread of straight-line loops: it keeps going until *)
(* it returns or raises, hence weak fairness of every step that changes    *)
(* something.                                                              *)
Spec == Init /\ [][Next]_vars /\ WF_vars(Next)

-----------------------------------------------------------------------------
StatsType ==
    [rounds : Nat, tokens_generated : Nat, tokens_proposed : Nat,
     tokens_accepted_from_draft : Nat, accepted_per_round : Seq(Nat)]

(* Types.  The one that could really fail is draft_cache: no id the        *)
(* draft's embedding table cannot index is ever fed to the draft           *)
(* (_draft_safe at both places where target ids reach it).                 *)
TypeOK ==
    /\ call \in Calls
    /\ pc \in {"prefill", "head", "draft", "accept", "fold", "returned",
               "raised"}
    /\ generated \in Seq(TargetToken)
    /\ n_new \in Nat
    /\ hit_eos \in BOOLEAN
    /\ target_cache \in Seq(TargetToken)
    /\ target_next \in TargetToken
    /\ draft_cache \in Seq(DraftToken)
    /\ draft_next \in DraftToken
    /\ this_k \in Nat
    /\ drafted \in Seq(DraftToken)
    /\ predictions \in Seq(TargetToken)
    /\ accepted \in Nat
    /\ stats \in StatsType

(* The docstring's "hard, checkable correctness property": every token     *)
(* after the prompt is the target's own greedy pick given everything       *)
(* before it, whatever the draft guessed, however the caches were cropped. *)
OutputIsGreedy ==
    \A i \in Len(call.input_ids) + 1 .. Len(generated) :
      generated[i] = TargetArgmax(SubSeq(generated, 1, i - 1))

(* Between rounds both caches hold exactly the output, no drafted token    *)
(* that was rejected and none missing, and the carried logits are those    *)
(* after it.  A stale draft cache would leave the output right and only    *)
(* the acceptance rate wrong, which no comparison of outputs shows.        *)
CachesTrackOutput ==
    pc = "head" =>
      /\ target_cache = generated
      /\ draft_cache = DraftSafe(generated)
      /\ target_next = TargetArgmax(generated)
      /\ draft_next = DraftArgmax(DraftSafe(generated))

(* Acceptance counts what it says: of the round just emitted, a token was  *)
(* accepted from the draft exactly when the draft, asked afresh after the  *)
(* same output, agrees with the target.  Hence a draft that always agrees  *)
(* is never rejected, and clamping costs guesses, never output.            *)
AcceptanceIsAgreement ==
    pc = "fold" =>
      LET start == Len(generated) - accepted - 1
          Agrees(j) == generated[start + j] =
                       DraftArgmax(DraftSafe(SubSeq(generated, 1, start + j - 1)))
      IN  /\ \A j \in 1 .. accepted : Agrees(j)
          /\ accepted < this_k => ~ Agrees(accepted + 1)

(* The docstring's contract of the result: at most max_new_tokens tokens,  *)
(* fewer only if eos_token_id was emitted, and nothing after the first     *)
(* eos_token_id, also when it was found in the middle of a round or in     *)
(* what the budget trimmed away.                                           *)
ReturnContract ==
    LET prompt_len == Len(call.input_ids)
        new == SubSeq(generated, prompt_len + 1, Len(generated))
    IN  pc = "returned" =>
          /\ IsPrefix(call.input_ids, generated)
          /\ Len(new) = n_new /\ n_new <= call.max_new_tokens
          /\ \A i \in 1 .. Len(new) - 1 : new[i] # call.eos_token_id
          /\ n_new < call.max_new_tokens =>
               n_new > 0 /\ Last(new) = call.eos_token_id

Total(s) == FoldSeq(LAMBDA a, b : a + b, 0, s)

(* The numbers benchmark.py reports: every round emits what it accepted    *)
(* and one token more, except that the last round may lose tokens to the   *)
(* budget (one, and only after a fully accepted window) or to EOS.         *)
StatsAddUp ==
    LET found == stats.tokens_accepted_from_draft + stats.rounds
    IN  /\ stats.tokens_generated = n_new
        /\ Len(stats.accepted_per_round) = stats.rounds
        /\ stats.tokens_accepted_from_draft <= stats.tokens_proposed
        /\ stats.tokens_accepted_from_draft = Total(stats.accepted_per_round)
        /\ n_new <= found
        /\ pc # "returned" => n_new = found
        /\ pc = "returned" /\ ~ hit_eos =>
             n_new = found \/ (n_new = found - 1 /\ accepted = this_k)

(* No forward pass reaches past prompt + max_new_tokens positions: the     *)
(* comment "never draft past the fixed generation budget".                 *)
WithinBudget ==
    LET limit == Len(call.input_ids) + call.max_new_tokens
    IN  Len(target_cache) <= limit /\ Len(draft_cache) <= limit

(* Every call ends, with an answer unless it asks for tokens with an empty *)
(* window: each round emits at least one token.                            *)
Terminates ==
    <>(pc = IF call.k = 0 /\ call.max_new_tokens > 0
            THEN "raised" ELSE "returned")

-----------------------------------------------------------------------------
(* The inductive invariant: what control relies on at each label.          *)

prompt_len == Len(call.input_ids)

\* The draft's cache while it guesses: the output, then its own guesses.
DraftAhead ==
    /\ draft_cache = DraftSafe(generated) \o drafted
    /\ \A j \in 1 .. Len(drafted) :
         drafted[j] =
           DraftArgmax(DraftSafe(generated) \o SubSeq(drafted, 1, j - 1))

\* The loop condition held when the round began.
RoundOpen ==
    /\ n_new < call.max_new_tokens
    /\ this_k <= remaining /\ this_k <= call.k
    /\ Len(drafted) <= this_k
    /\ this_k = 0 => call.k = 0

AtHead ==
    pc = "head" =>
      /\ target_cache = generated
      /\ draft_cache = DraftSafe(generated)
      /\ target_next = TargetArgmax(generated)
      /\ draft_next = DraftArgmax(DraftSafe(generated))

AtDraft ==
    pc = "draft" =>
      /\ RoundOpen /\ DraftAhead
      /\ target_cache = generated
      /\ target_next = TargetArgmax(generated)
      /\ draft_next = DraftArgmax(draft_cache)

AtAccept ==
    pc = "accept" =>
      /\ RoundOpen /\ DraftAhead
      /\ this_k > 0 /\ Len(drafted) = this_k
      /\ target_cache = generated \o drafted
      /\ Len(predictions) = this_k + 1
      /\ \A j \in 1 .. this_k + 1 :
           predictions[j] = TargetArgmax(generated \o SubSeq(drafted, 1, j - 1))
      /\ accepted <= this_k
      /\ \A j \in 1 .. accepted : predictions[j] = drafted[j]

AtFold ==
    pc = "fold" =>
      LET fed == SubSeq(generated, 1, Len(generated) - 1)
      IN  /\ n_new < call.max_new_tokens
          /\ accepted < Len(predictions)
          /\ prompt_len + accepted + 1 <= Len(generated)
          /\ generated = Append(fed, ExtraToken)
          /\ target_cache = fed
          /\ draft_cache = DraftSafe(fed)

\* Prompt, then n_new tokens, of which only the last may be EOS.
OutputShape ==
    IF pc = "prefill"
    THEN generated = << >> /\ n_new = 0
    ELSE /\ Len(generated) = prompt_len + n_new
         /\ n_new <= call.max_new_tokens
         /\ \A i \in 1 .. prompt_len : generated[i] = call.input_ids[i]
         /\ \A i \in prompt_len + 1 .. Len(generated) - 1 :
              generated[i] # call.eos_token_id

\* hit_eos is set by the round that returns, and says what it found.
EosShape ==
    /\ hit_eos => pc = "returned"
    /\ hit_eos <=> n_new > 0 /\ Last(generated) = call.eos_token_id
    /\ pc = "returned" => hit_eos \/ n_new = call.max_new_tokens

(* The output so far is greedy and of its promised shape, and at each     *)
(* label caches, carried logits and the round's locals are what the code   *)
(* that follows relies on: predictions are the target's picks, drafted the *)
(* draft's own, accepted a prefix on which they agree.                     *)
IndInv ==
    /\ TypeOK
    /\ OutputIsGreedy /\ AcceptanceIsAgreement
    /\ OutputShape /\ EosShape
    /\ AtHead /\ AtDraft /\ AtAccept /\ AtFold

-----------------------------------------------------------------------------
(* speculative_generate implements greedy decoding.  The prompt counts as  *)
(* output from the start.                                                  *)
Decode == INSTANCE GreedyDecode WITH
    generated <- IF pc = "prefill" THEN call.input_ids ELSE generated,
    outcome <- IF pc \in {"returned", "raised"} THEN pc ELSE "running"

ImplementsGreedyDecode == Decode!Spec
=============================================================================
