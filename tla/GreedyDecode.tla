---------------------------- MODULE GreedyDecode ----------------------------
(***************************************************************************)
(* What speculative_generate promises its caller (spec_decode.py's module  *)
(* docstring and the docstring of the function): the returned sequence is  *)
(* the prompt followed by the target's own greedy picks, at most           *)
(* max_new_tokens of them, fewer only because one of them was              *)
(* eos_token_id, which is then the last.  How many picks are found per     *)
(* step is left open: that is where speculation lives.                     *)
(***************************************************************************)
EXTENDS Models

VARIABLES
    call,       \* the arguments, chosen once
    generated,  \* the sequence so far, prompt included
    outcome     \* "running", "returned", or "raised"

vars == <<call, generated, outcome>>

Budget == call.max_new_tokens - (Len(generated) - Len(call.input_ids))

\* A window of no tokens leaves nothing to concatenate: the one call refused.
Unanswerable == call.max_new_tokens > 0 /\ call.k = 0

Init ==
    /\ call \in Calls
    /\ generated = call.input_ids
    /\ outcome = "running"

\* new is what the target picks, token by token, after generated.
Greedy(new) ==
    \A i \in 1 .. Len(new) :
      new[i] = TargetPick(call.target, generated \o SubSeq(new, 1, i - 1))

\* eos_token_id occurs in new at most as the last token.
StopsAtEos(new) ==
    \A i \in 1 .. Len(new) - 1 : new[i] # call.eos_token_id

Extend ==
    /\ outcome = "running"
    /\ ~ Unanswerable
    /\ \E new \in BoundedSeq(TargetToken, Budget) :
         /\ new # << >>
         /\ Greedy(new)
         /\ StopsAtEos(new)
         /\ generated' = generated \o new
         /\ outcome' = IF Last(new) = call.eos_token_id \/ Len(new) = Budget
                       THEN "returned" ELSE "running"
    /\ UNCHANGED call

ReturnPrompt ==
    /\ outcome = "running"
    /\ Budget = 0
    /\ outcome' = "returned"
    /\ UNCHANGED <<call, generated>>

Refuse ==
    /\ outcome = "running"
    /\ Unanswerable
    /\ outcome' = "raised"
    /\ UNCHANGED <<call, generated>>

Next == Extend \/ ReturnPrompt \/ Refuse

Spec == Init /\ [][Next]_vars /\ WF_vars(Next)
=============================================================================
