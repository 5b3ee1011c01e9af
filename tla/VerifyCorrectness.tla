-------------------------- MODULE VerifyCorrectness --------------------------
(***************************************************************************)
(* main() of python/speculative/verify_correctness.py: for each prompt, in *)
(* order, plain generation by the target, then speculative_generate (all   *)
(* of SpecDecode), then the comparison; the exit status is the verdict.    *)
(*                                                                         *)
(* Plain generation is the library's: with min_new_tokens equal to         *)
(* max_new_tokens it never picks one of the target's EOS ids but takes the *)
(* best other id instead.  speculative_generate is called without          *)
(* eos_token_id and suppresses nothing.                                    *)
(***************************************************************************)
EXTENDS SpecDecode

CONSTANTS
    EosIds,               \* eos_token_id of the target's generation config
    TargetPickNotEos(_, _), \* argmax over the ids outside EosIds
    PromptLists           \* the lists of prompts the script may hold

ASSUME SuppressAssumption ==
    /\ EosIds \subseteq TargetToken
    /\ \A m \in TargetModels : \A c \in TargetContext :
         /\ TargetPickNotEos(m, c) \in TargetToken \ EosIds
         /\ TargetPick(m, c) \notin EosIds =>
              TargetPickNotEos(m, c) = TargetPick(m, c)

\* The script asks without EOS; every prompt of every list is such a call.
ASSUME PromptAssumption ==
    \A ps \in PromptLists :
      /\ ps \in Seq(Calls) /\ Len(ps) > 0
      /\ \A i \in 1 .. Len(ps) : ps[i].eos_token_id = NoEos

VARIABLES
    prompts,      \* the calls still to be made, the current one first
    step,         \* "plain", "speculative", "exited"
    plain_new,    \* the new tokens of plain generation
    all_match,
    exit_status,
    eos_picked    \* history: a speculative output held an EOS id

harness == <<prompts, step, plain_new, all_match, exit_status, eos_picked>>
allvars == <<vars, harness>>

Current == Head(prompts)

VerifyInit ==
    /\ prompts \in PromptLists
    /\ step = "plain"
    /\ plain_new = << >> /\ all_match = TRUE
    /\ exit_status = -1 /\ eos_picked = FALSE
    /\ call = Current /\ Init

\* Mistake: min_new_tokens is left out, and with it the stop at EOS.
BugEosNotSuppressed(c) ==
    LET new[i \in 0 .. c.max_new_tokens] ==
          IF i = 0 THEN << >>
          ELSE Append(new[i - 1],
                      TargetPick(c.target, c.input_ids \o new[i - 1]))
    IN  new[c.max_new_tokens]

\* target.generate(do_sample=False, min_new_tokens=max_new_tokens).
PlainContinuation(c) ==
    LET new[i \in 0 .. c.max_new_tokens] ==
          IF i = 0 THEN << >>
          ELSE Append(new[i - 1],
                      TargetPickNotEos(c.target, c.input_ids \o new[i - 1]))
    IN  new[c.max_new_tokens]

PlainGenerate ==
    /\ step = "plain"
    /\ plain_new' = PlainContinuation(Current)
    /\ step' = "speculative"
    /\ UNCHANGED <<vars, prompts, all_match, exit_status, eos_picked>>

Speculate ==
    /\ step = "speculative"
    /\ pc \notin {"returned", "raised"}
    /\ Next
    /\ UNCHANGED harness

spec_new == SubSeq(generated, Len(call.input_ids) + 1, Len(generated))

\* Mistake: only the last comparison counts.
BugLastVerdict == plain_new = spec_new

\* all_match &= (plain_new == spec_new).
Verdict == all_match /\ plain_new = spec_new

\* Compare, then go on to the next prompt or exit with the verdict.
Compare ==
    /\ step = "speculative" /\ pc = "returned"
    /\ all_match' = Verdict
    /\ eos_picked' = (eos_picked \/ \E i \in 1 .. Len(spec_new) : spec_new[i] \in EosIds)
    /\ prompts' = Tail(prompts)
    /\ IF Len(prompts) > 1
       THEN step' = "plain" /\ exit_status' = exit_status /\ Enter(prompts[2])
       ELSE /\ step' = "exited" /\ exit_status' = (IF Verdict THEN 0 ELSE 1)
            /\ UNCHANGED vars
    /\ UNCHANGED plain_new

\* An exception of speculative_generate ends the script with status 1.
Crash ==
    /\ step = "speculative" /\ pc = "raised"
    /\ step' = "exited" /\ exit_status' = 1
    /\ UNCHANGED <<vars, prompts, plain_new, all_match, eos_picked>>

Exited == step = "exited" /\ UNCHANGED allvars

VerifyNext == PlainGenerate \/ Speculate \/ Compare \/ Crash \/ Exited

VerifySpec == VerifyInit /\ [][VerifyNext]_allvars /\ WF_allvars(VerifyNext)

-----------------------------------------------------------------------------
VerifyTypeOK ==
    /\ step \in {"plain", "speculative", "exited"}
    /\ plain_new \in Seq(TargetToken \ EosIds)
    /\ all_match \in BOOLEAN /\ eos_picked \in BOOLEAN
    /\ exit_status \in {-1, 0, 1}

(* What the comparison can tell: the script exits with 0 exactly when all  *)
(* speculative outputs are free of EOS ids.  As long as the target picks   *)
(* none before the budget, plain and speculative generation agree on every *)
(* prompt; the first one it picks makes the verdict a mismatch, though the *)
(* decoder made no mistake.                                                *)
VerdictIsEosFree ==
    exit_status # -1 /\ pc = "returned" =>
      (exit_status = 0 <=> ~ eos_picked)

(* The script's docstring: speculative output is "mathematically required" *)
(* to be byte-identical to plain greedy generation.                        *)
AlwaysMatches == pc # "raised" => exit_status # 1
=============================================================================
