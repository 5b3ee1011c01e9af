---------------------------- MODULE StreamHarness ----------------------------
(***************************************************************************)
(* main() of src/harness/run_concurrent.cpp: a solo worker measured one    *)
(* request at a time, then num_workers workers warmed up by main and       *)
(* driven by a thread each, all requests submitted before one wait.        *)
(*                                                                         *)
(* A worker owns a context, a stream and buffers.  A stream is the queue   *)
(* of the operations submitted to it; the device takes them in order       *)
(* within a stream and in any order across streams.  A buffer holds the    *)
(* number of the request whose data it holds (0: none yet).  No return     *)
(* value of a submission is looked at: an operation that is refused is     *)
(* just not in the stream.                                                 *)
(*                                                                         *)
(* A definition named Bug... is what the definition after it would be with *)
(* a plausible mistake; PROJECT.json says which property notices it.       *)
(***************************************************************************)
EXTENDS Integers, SequencesExt

CONSTANTS
    num_workers,          \* argv[2]
    requests_per_worker,  \* argv[3]
    solo_requests,        \* n_warmup + n_runs of medianOfTimedRuns
    MaxRefused            \* bound on the operations refused in one run

ASSUME ArgumentAssumption ==
    /\ num_workers \in Nat /\ requests_per_worker \in Nat
    /\ solo_requests \in Nat \ {0} /\ MaxRefused \in Nat

Solo == 0
Workers == 1 .. num_workers
Main == 0   \* the agent; agent a # Main is the a-th jthread

VARIABLES
    stage,      \* main: "solo", "warmup", "spawn", "exited"
    i,          \* main's loop index
    pc,         \* per agent: where in submitOnce, sync or between them
    left,       \* per agent: requests still to be submitted
    submitted,  \* per worker: requests submitted so far
    stream,     \* per worker: operations not yet executed
    d_x, d_out, h_out,
    finished,   \* per worker: copies to h_out executed
    at_t0,      \* per worker: finished when the clock was read for t0
    refused     \* operations refused so far

host == <<stage, i, pc, left>>
buffers == <<d_x, d_out, h_out>>
vars == <<host, submitted, stream, buffers, finished, at_t0, refused>>

AllWorkers == {Solo} \cup Workers
Agents == {Main} \cup Workers

-----------------------------------------------------------------------------
\* Mistake: the lambda captures i by reference.
BugByReference(a) == IF i \in Workers THEN i ELSE num_workers

\* The worker the a-th thread drives: i is captured by value.
Captured(a) == a

\* The worker an agent is working with.
WorkerOf(a) ==
    IF a # Main THEN Captured(a) ELSE IF stage = "solo" THEN Solo ELSE i

\* Mistake: inference is enqueued on one stream for all workers.
BugSharedStream(w) == Solo

\* The stream enqueueV3 is given.
InferenceStream(w) == w

\* Mistake: there is no wait.
BugNoWait(w) == TRUE

\* What cudaStreamSynchronize waits for.
Drained(w) == stream[w] = << >>

-----------------------------------------------------------------------------
Init ==
    /\ stage = "solo" /\ i = 0
    /\ pc = [a \in Agents |-> IF a = Main THEN "copy_in" ELSE "absent"]
    /\ left = [a \in Agents |-> IF a = Main THEN solo_requests
                                ELSE requests_per_worker]
    /\ submitted = [w \in AllWorkers |-> 0]
    /\ stream = [w \in AllWorkers |-> << >>]
    /\ d_x = [w \in AllWorkers |-> 0]
    /\ d_out = [w \in AllWorkers |-> 0]
    /\ h_out = [w \in AllWorkers |-> 0]
    /\ finished = [w \in AllWorkers |-> 0]
    /\ at_t0 = [w \in AllWorkers |-> 0]
    /\ refused = 0

\* Operation op of request number id of worker w goes to stream s, or is lost.
Submit(s, op, w, id) ==
    \/ /\ stream' = [stream EXCEPT ![s] =
                       Append(@, [op |-> op, worker |-> w, id |-> id])]
       /\ UNCHANGED refused
    \/ /\ refused < MaxRefused
       /\ refused' = refused + 1
       /\ UNCHANGED stream

CopyIn(a) ==
    LET w == WorkerOf(a)
    IN  /\ pc[a] = "copy_in"
        /\ Submit(w, "copy_in", w, submitted[w] + 1)
        /\ submitted' = [submitted EXCEPT ![w] = @ + 1]
        /\ left' = [left EXCEPT ![a] = @ - 1]
        /\ pc' = [pc EXCEPT ![a] = "enqueue"]
        /\ UNCHANGED <<stage, i, buffers, finished, at_t0>>

\* The agent is inside enqueueV3 of the worker's context.
EnterEnqueue(a) ==
    /\ pc[a] = "enqueue"
    /\ pc' = [pc EXCEPT ![a] = "enqueuing"]
    /\ UNCHANGED <<stage, i, left, submitted, stream, buffers, finished,
                   at_t0, refused>>

LeaveEnqueue(a) ==
    LET w == WorkerOf(a)
    IN  /\ pc[a] = "enqueuing"
        /\ Submit(InferenceStream(w), "infer", w, submitted[w])
        /\ pc' = [pc EXCEPT ![a] = "copy_out"]
        /\ UNCHANGED <<stage, i, left, submitted, buffers, finished, at_t0>>

\* main waits after every request, a thread after its last.
CopyOut(a) ==
    LET w == WorkerOf(a)
    IN  /\ pc[a] = "copy_out"
        /\ Submit(w, "copy_out", w, submitted[w])
        /\ pc' = [pc EXCEPT ![a] =
                    IF a # Main /\ left[a] > 0 THEN "copy_in" ELSE "sync"]
        /\ UNCHANGED <<stage, i, left, submitted, buffers, finished, at_t0>>

\* Mistake: the wait spins until the result of the last request is there.
BugPollResult(a) ==
    LET w == WorkerOf(a)
    IN  /\ pc[a] = "sync"
        /\ pc' = [pc EXCEPT ![a] =
                    IF h_out[w] # submitted[w] THEN "sync"
                    ELSE IF a # Main THEN "done"
                    ELSE IF left[a] > 0 THEN "copy_in" ELSE "between"]
        /\ UNCHANGED <<stage, i, left, submitted, stream, buffers, finished,
                       at_t0, refused>>

\* The wait is over: main goes on with its loop, a thread ends.
Sync(a) ==
    /\ pc[a] = "sync"
    /\ Drained(WorkerOf(a))
    /\ pc' = [pc EXCEPT ![a] = IF a # Main THEN "done"
                               ELSE IF left[a] > 0 THEN "copy_in" ELSE "between"]
    /\ UNCHANGED <<stage, i, left, submitted, stream, buffers, finished,
                   at_t0, refused>>

-----------------------------------------------------------------------------
\* The next worker is warmed up with one request, or the clock is read for t0.
NextWarmup ==
    /\ stage \in {"solo", "warmup"}
    /\ pc[Main] = "between"
    /\ IF i < num_workers
       THEN /\ stage' = "warmup" /\ i' = i + 1
            /\ left' = [left EXCEPT ![Main] = 1]
            /\ pc' = [pc EXCEPT ![Main] = "copy_in"]
            /\ UNCHANGED at_t0
       ELSE /\ stage' = "spawn" /\ i' = 1
            /\ at_t0' = finished
            /\ UNCHANGED <<left, pc>>
    /\ UNCHANGED <<submitted, stream, buffers, finished, refused>>

\* A thread without requests goes straight to its wait.
Spawn ==
    /\ stage = "spawn"
    /\ i \in Workers
    /\ pc' = [pc EXCEPT ![i] =
                IF requests_per_worker > 0 THEN "copy_in" ELSE "sync"]
    /\ i' = i + 1
    /\ UNCHANGED <<stage, left, submitted, stream, buffers, finished, at_t0,
                   refused>>

\* The jthreads go out of scope: main joins them, reads the clock, reports.
Join ==
    /\ stage = "spawn"
    /\ i \notin Workers
    /\ \A a \in Workers : pc[a] = "done"
    /\ stage' = "exited"
    /\ UNCHANGED <<i, pc, left, submitted, stream, buffers, finished, at_t0,
                   refused>>

-----------------------------------------------------------------------------
\* The device executes the operation at the head of a stream.
Execute(s) ==
    /\ stream[s] # << >>
    /\ LET o == Head(stream[s])
           w == o.worker
       IN  /\ d_x' = IF o.op = "copy_in" THEN [d_x EXCEPT ![w] = o.id] ELSE d_x
           /\ d_out' = IF o.op = "infer" THEN [d_out EXCEPT ![w] = d_x[w]]
                       ELSE d_out
           /\ h_out' = IF o.op = "copy_out" THEN [h_out EXCEPT ![w] = d_out[w]]
                       ELSE h_out
           /\ finished' = IF o.op = "copy_out"
                          THEN [finished EXCEPT ![w] = @ + 1] ELSE finished
    /\ stream' = [stream EXCEPT ![s] = Tail(@)]
    /\ UNCHANGED <<host, submitted, at_t0, refused>>

Agent(a) ==
    \/ CopyIn(a) \/ EnterEnqueue(a) \/ LeaveEnqueue(a) \/ CopyOut(a)
    \/ Sync(a)

Exited == stage = "exited" /\ UNCHANGED vars

Next ==
    \/ NextWarmup \/ Spawn \/ Join
    \/ \E a \in Agents : Agent(a)
    \/ \E s \in AllWorkers : Execute(s)
    \/ Exited

(* Every thread is scheduled, and the device goes on with every stream     *)
(* that holds work.                                                        *)
Spec ==
    /\ Init /\ [][Next]_vars
    /\ WF_vars(NextWarmup \/ Spawn \/ Join)
    /\ \A a \in Agents : WF_vars(Agent(a))
    /\ \A s \in AllWorkers : WF_vars(Execute(s))

-----------------------------------------------------------------------------
(* Types; also that a stream holds at most the requests between two waits. *)
TypeOK ==
    LET Operation == [op : {"copy_in", "infer", "copy_out"},
                      worker : AllWorkers, id : Nat \ {0}]
    IN  /\ stage \in {"solo", "warmup", "spawn", "exited"}
        /\ i \in 0 .. num_workers + 1
        /\ pc \in [Agents -> {"absent", "copy_in", "enqueue", "enqueuing",
                              "copy_out", "sync", "between", "done"}]
        /\ left \in [Agents -> Nat]
        /\ stream \in [AllWorkers -> Seq(Operation)]
        /\ \A f \in {submitted, d_x, d_out, h_out, finished, at_t0} :
             f \in [AllWorkers -> Nat]
        /\ refused \in 0 .. MaxRefused
        /\ \A w \in AllWorkers :
             Len(stream[w]) <= 3 * (IF stage = "spawn" THEN requests_per_worker
                                    ELSE 1)

(* The file's opening comment: a context is never inside two enqueueV3     *)
(* calls at once, though main and the threads all call it.                 *)
ContextExclusive ==
    \A a, b \in Agents :
      a # b /\ pc[a] = "enqueuing" /\ pc[b] = "enqueuing" =>
        WorkerOf(a) # WorkerOf(b)

\* Some agent is between the first and the last submission of a request.
MidRequest(w) ==
    \E a \in Agents :
      pc[a] \in {"enqueue", "enqueuing", "copy_out"} /\ WorkerOf(a) = w

(* With many requests outstanding on a stream and the buffers reused by    *)
(* every one of them, each stage of a request still works on that          *)
(* request's data, unless an operation was refused.                        *)
ResultsInOrder ==
    refused = 0 =>
      \A w \in AllWorkers :
        /\ \A j \in 1 .. Len(stream[w]) - 1 :
             stream[w][j].id <= stream[w][j + 1].id
        /\ h_out[w] = finished[w]
        /\ stream[w] = << >> /\ ~MidRequest(w) => h_out[w] = submitted[w]

(* What the throughput figure rests on: nothing submitted before t0 is     *)
(* still running at t0, and when the clock is read again total_requests    *)
(* requests have run to their end since; total_requests is computed, not   *)
(* counted, so this is lost as soon as a submission is refused.            *)
TimedWorkIsExact ==
    refused = 0 =>
      /\ stage = "spawn" \/ stage = "exited" =>
           \A w \in Workers : at_t0[w] = 1 /\ h_out[w] >= 1
      /\ stage = "exited" =>
           \A w \in Workers :
             finished[w] - at_t0[w] = requests_per_worker
             /\ stream[w] = << >>

(* The program ends, also when operations are refused: a wait is for the   *)
(* stream to be empty, not for a result.                                   *)
Terminates == <>(stage = "exited")
=============================================================================
