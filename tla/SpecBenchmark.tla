---------------------------- MODULE SpecBenchmark ----------------------------
(***************************************************************************)
(* main() of python/speculative/benchmark.py: two warm-up generations,     *)
(* then for each prompt a plain and a speculative one (all of SpecDecode)  *)
(* and a row of statistics, then results.json.  Either model may run out   *)
(* of memory in any generation (the script's docstring on VRAM), and       *)
(* writing the file may fail half-way.  Wall-clock times are left out; the *)
(* tokens they are divided into are kept.                                  *)
(***************************************************************************)
EXTENDS SpecDecode

CONSTANTS
    BENCH_PROMPT_IDS,
    Scripts   \* models, MAX_NEW_TOKENS, K, ALL_PROMPTS and WARMUP_PROMPT

\* The call timed_speculative makes for a prompt: no eos_token_id.
CallBy(s, ids) ==
    [target |-> s.target, draft |-> s.draft, input_ids |-> ids,
     max_new_tokens |-> s.n, k |-> s.k, eos_token_id |-> NoEos]

(* Both lists are literals of the scripts: the ids to measure are some,    *)
(* those of the catalogue distinct, tokens are asked for (MAX_NEW_TOKENS   *)
(* is 64), and every prompt fits in the models' windows.                   *)
ASSUME ScriptAssumption ==
    /\ IsFiniteSet(BENCH_PROMPT_IDS) /\ BENCH_PROMPT_IDS # {}
    /\ \A s \in Scripts :
         /\ s.n > 0
         /\ s.all \in Seq(Range(s.all))
         /\ \A i, j \in 1 .. Len(s.all) : s.all[i].id = s.all[j].id => i = j
         /\ CallBy(s, s.warmup) \in Calls
         /\ \A p \in Range(s.all) : CallBy(s, p.ids) \in Calls

VARIABLES
    script,   \* the constants of this run of the script
    stage,    \* where main() is
    todo,     \* the prompts of the loop still to measure
    rows,     \* results
    results   \* results.json: "earlier", "torn" or "whole", and its rows

bench == <<script, stage, todo, rows, results>>
bench_vars == <<vars, bench>>

\* Mistake: generation stops at an EOS id, as it would in a chat.
BugStopsAtEos(ids) ==
    [target |-> script.target, draft |-> script.draft, input_ids |-> ids,
     max_new_tokens |-> script.n, k |-> script.k,
     eos_token_id |-> TargetVocab - 1]

CallOf(ids) == CallBy(script, ids)

\* Mistake: the length of the selection is not asserted.
BugNotAsserted(chosen) == TRUE

Asserted(chosen) == Len(chosen) = Cardinality(BENCH_PROMPT_IDS)

BenchInit ==
    /\ script \in Scripts
    /\ stage = "select" /\ todo = << >> /\ rows = << >> /\ results = [is |-> "earlier", rows |-> << >>]
    /\ call = CallOf(script.warmup) /\ Init

\* The prompts of BENCH_PROMPT_IDS, in the order of the catalogue all.
Chosen(all) ==
    LET kept[i \in 0 .. Len(all)] ==
          IF i = 0 THEN << >>
          ELSE IF all[i].id \in BENCH_PROMPT_IDS
               THEN Append(kept[i - 1], all[i])
               ELSE kept[i - 1]
    IN  kept[Len(all)]

\* Select them or give up.
Select ==
    /\ stage = "select"
    /\ todo' = Chosen(script.all)
    /\ stage' = IF Asserted(Chosen(script.all)) THEN "warm_plain" ELSE "failed"
    /\ UNCHANGED <<vars, script, rows, results>>

\* timed_plain: min_new_tokens makes it generate max_new_tokens tokens.
TimedPlain ==
    /\ \/ stage = "warm_plain" /\ stage' = "warm_speculative"
       \/ stage = "plain" /\ stage' = "speculative"
    /\ UNCHANGED <<vars, script, todo, rows, results>>

TimedSpeculative ==
    /\ stage \in {"warm_speculative", "speculative"}
    /\ pc \notin {"returned", "raised"}
    /\ Next
    /\ UNCHANGED bench

\* After the warm-up its statistics are dropped and the loop begins.
WarmedUp ==
    /\ stage = "warm_speculative" /\ pc = "returned"
    /\ stage' = "plain"
    /\ Enter(CallOf(Head(todo).ids))
    /\ UNCHANGED <<script, todo, rows, results>>

\* acceptance_rate, as numerator and denominator.
AcceptanceRate(s) ==
    <<s.tokens_accepted_from_draft, IF s.tokens_proposed > 1
                                    THEN s.tokens_proposed ELSE 1>>

Row(id) ==
    [id |-> id, acceptance_rate |-> AcceptanceRate(stats),
     rounds |-> stats.rounds, tokens_generated |-> stats.tokens_generated]

\* One row, then the next prompt or the file.
AppendRow ==
    /\ stage = "speculative" /\ pc = "returned"
    /\ rows' = Append(rows, Row(Head(todo).id))
    /\ todo' = Tail(todo)
    /\ IF Len(todo) > 1
       THEN stage' = "plain" /\ Enter(CallOf(todo[2].ids))
       ELSE stage' = "open" /\ UNCHANGED vars
    /\ UNCHANGED <<script, results>>

\* An exception of a generation ends the script; nothing was written.
RunOutOfMemory ==
    /\ stage \in {"warm_plain", "plain", "warm_speculative", "speculative"}
    /\ stage \in {"warm_speculative", "speculative"} => pc # "returned"
    /\ stage' = "failed"
    /\ UNCHANGED <<vars, script, todo, rows, results>>

\* open(out_path, "w") truncates what an earlier run left.
OpenResults ==
    /\ stage = "open"
    /\ results' = [is |-> "torn", rows |-> << >>] /\ stage' = "dump"
    /\ UNCHANGED <<vars, script, todo, rows>>

\* json.dump of the rows and their means.
Dump ==
    /\ stage = "dump"
    /\ \/ results' = [is |-> "whole", rows |-> rows] /\ stage' = "done"
       \/ results' = results /\ stage' = "failed"
    /\ UNCHANGED <<vars, script, todo, rows>>

BenchEnded == stage \in {"done", "failed"} /\ UNCHANGED bench_vars

BenchNext ==
    \/ Select \/ TimedPlain \/ TimedSpeculative \/ WarmedUp \/ AppendRow
    \/ RunOutOfMemory \/ OpenResults \/ Dump \/ BenchEnded

BenchSpec == BenchInit /\ [][BenchNext]_bench_vars

-----------------------------------------------------------------------------
\* The first n tokens the target alone would say after ids.
Alone(ids, n) ==
    LET new[i \in 0 .. n] ==
          IF i = 0 THEN << >>
          ELSE Append(new[i - 1], TargetPick(script.target, ids \o new[i - 1]))
    IN  new[n]

\* How much of a window of w the draft guesses right after said of all.
Guessed(ids, all, said, w) ==
    CHOOSE a \in 0 .. w :
      LET right(j) ==
            LET before == ids \o SubSeq(all, 1, said + j - 1)
                safe == [i \in 1 .. Len(before) |->
                           IF before[i] < DraftVocab THEN before[i] ELSE 0]
            IN  DraftPick(script.draft, safe) = all[said + j]
      IN  (\A j \in 1 .. a : right(j)) /\ (a < w => ~ right(a + 1))

\* What decoding this one prompt costs, from the models' picks alone.
Cost(ids) ==
    LET all == Alone(ids, script.n)
        cost[said \in 0 .. script.n] ==
          IF said = script.n THEN [rounds |-> 0, proposed |-> 0, accepted |-> 0]
          ELSE LET left == script.n - said
                   w == IF script.k < left THEN script.k ELSE left
                   a == Guessed(ids, all, said, w)
                   rest == cost[IF a + 1 < left THEN said + a + 1 ELSE script.n]
               IN  [rounds |-> rest.rounds + 1, proposed |-> rest.proposed + w,
                    accepted |-> rest.accepted + a]
    IN  cost[0]

BenchTypeOK ==
    /\ stage \in {"select", "warm_plain", "warm_speculative", "plain",
                 "speculative", "open", "dump", "done", "failed"}
    /\ \A i \in 1 .. Len(rows) :
         /\ rows[i].id \in BENCH_PROMPT_IDS
         /\ rows[i].acceptance_rate[1] \in 0 .. rows[i].acceptance_rate[2]
         /\ rows[i].acceptance_rate[2] > 0

(* Each row reports what decoding its own prompt with these models costs,  *)
(* as the picks of the two models define it: nothing of the warm-up or of  *)
(* the prompts before leaks in, and the rounds and the acceptance rate do  *)
(* not depend on how the caches were carried along (row of main(),         *)
(* SpecDecodeStats).                                                       *)
RowsAreOwn ==
    \A i \in 1 .. Len(rows) :
      LET asked == CHOOSE p \in Range(script.all) : p.id = rows[i].id
          cost == Cost(asked.ids)
      IN  /\ rows[i].rounds = cost.rounds
          /\ rows[i].acceptance_rate = <<cost.accepted, cost.proposed>>

(* speedup divides the speculative tokens per second by the plain ones.    *)
(* The library makes plain generation MAX_NEW_TOKENS long                  *)
(* (min_new_tokens, benchmark.py:45); nothing makes the speculative one so *)
(* but that it is called without eos_token_id (line 59), and so it is.     *)
EqualWork == \A i \in 1 .. Len(rows) : rows[i].tokens_generated = script.n

(* results.json is an earlier run's, or visibly torn, or holds a row for   *)
(* every id of BENCH_PROMPT_IDS and one only; the script ends normally in  *)
(* the last case alone.                                                    *)
ResultsAreWhole ==
    /\ results.is = "whole" <=> stage = "done"
    /\ results.is = "whole" =>
         /\ {results.rows[i].id : i \in 1 .. Len(results.rows)} = BENCH_PROMPT_IDS
         /\ Len(results.rows) = Cardinality(BENCH_PROMPT_IDS)
=============================================================================
