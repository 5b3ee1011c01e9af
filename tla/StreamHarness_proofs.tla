------------------------ MODULE StreamHarness_proofs ------------------------
(***************************************************************************)
(* Proofs that run_concurrent.cpp keeps TensorRT's rule for contexts, that *)
(* each result is its own request's, and that the timed work is the work   *)
(* reported, for any number of workers, requests and refused operations.   *)
(***************************************************************************)
EXTENDS StreamHarness, SequenceTheorems, TLAPS

PCs == {"absent", "copy_in", "enqueue", "enqueuing", "copy_out", "sync",
        "between", "done"}

Operation == [op : {"copy_in", "infer", "copy_out"},
              worker : AllWorkers, id : Nat \ {0}]

Warming == stage \in {"solo", "warmup"}

\* The agent that submits requests to worker w in this phase, if any does.
Driver(w) == IF ~ Warming /\ w \in Workers THEN w ELSE Main

\* Operations of the current request of w that are not submitted yet.
Owes(w) ==
    IF WorkerOf(Driver(w)) # w THEN 0
    ELSE IF pc[Driver(w)] \in {"enqueue", "enqueuing"} THEN 2
    ELSE IF pc[Driver(w)] = "copy_out" THEN 1
    ELSE 0

\* The most that may be in the stream of w: what was submitted since a wait.
Pending(w) ==
    IF Driver(w) # Main
    THEN IF pc[w] = "done" THEN 0 ELSE 3 * (requests_per_worker - left[w]) - Owes(w)
    ELSE IF WorkerOf(Main) # w \/ pc[Main] \in {"copy_in", "between"} THEN 0
    ELSE 3 - Owes(w)

-----------------------------------------------------------------------------
Types ==
    /\ stage \in {"solo", "warmup", "spawn", "exited"}
    /\ i \in 0 .. num_workers + 1
    /\ pc \in [Agents -> PCs]
    /\ left \in [Agents -> Nat]
    /\ submitted \in [AllWorkers -> Nat]
    /\ stream \in [AllWorkers -> Seq(Operation)]
    /\ d_x \in [AllWorkers -> Nat] /\ d_out \in [AllWorkers -> Nat]
    /\ h_out \in [AllWorkers -> Nat] /\ finished \in [AllWorkers -> Nat]
    /\ at_t0 \in [AllWorkers -> Nat]
    /\ refused \in 0 .. MaxRefused

(* Two phases that main's own requests and the threads never share: main   *)
(* submits only before t0, a thread only after it, and only for its own    *)
(* worker.                                                                 *)
PhaseInv ==
    /\ stage = "solo" => i = 0
    /\ stage = "warmup" => i \in Workers
    /\ stage = "spawn" => i \in 1 .. num_workers + 1
    /\ stage = "exited" => i = num_workers + 1 /\ \A a \in Workers : pc[a] = "done"
    /\ Warming => /\ pc[Main] \notin {"absent", "done"}
                  /\ \A a \in Workers : pc[a] = "absent"
    /\ ~ Warming => /\ pc[Main] = "between"
                    /\ \A a \in Workers : pc[a] # "between" /\ (pc[a] = "absent" <=> a >= i)

(* How many requests an agent has left, at each point of its loop.         *)
LeftInv ==
    /\ pc[Main] = "copy_in" => left[Main] > 0
    /\ stage = "warmup" => left[Main] = IF pc[Main] = "copy_in" THEN 1 ELSE 0
    /\ \A a \in Workers :
         /\ left[a] <= requests_per_worker
         /\ pc[a] = "absent" => left[a] = requests_per_worker
         /\ pc[a] = "copy_in" => left[a] > 0
         /\ pc[a] \in {"sync", "done"} => left[a] = 0

(* Main has warmed up each worker with one request; a thread adds its own. *)
SubmittedInv ==
    /\ \A w \in Workers :
         submitted[w] = IF ~ Warming THEN 1 + requests_per_worker - left[w]
                        ELSE IF w > i THEN 0 ELSE IF w < i THEN 1 ELSE 1 - left[Main]
    /\ stage = "solo" /\ pc[Main] \in {"enqueue", "enqueuing", "copy_out"} =>
         submitted[Solo] > 0

(* A stream holds its worker's operations only, and no more than were      *)
(* submitted since the last wait.                                          *)
QueueInv ==
    \A w \in AllWorkers :
      /\ Len(stream[w]) <= Pending(w)
      /\ \A j \in 1 .. Len(stream[w]) : stream[w][j].worker = w

ControlInv == Types /\ PhaseInv /\ LeftInv /\ SubmittedInv /\ QueueInv

-----------------------------------------------------------------------------
\* The place of an operation among all those of its worker.
Rank(o) ==
    3 * o.id - (IF o.op = "copy_in" THEN 2 ELSE IF o.op = "infer" THEN 1 ELSE 0)

\* As long as nothing is refused: the operations of w that were executed.
Executed(w) == d_x[w] + d_out[w] + finished[w]

(* As long as nothing is refused, the executed operations of a worker, the *)
(* ones in its stream and the ones it owes are, in this order, all the     *)
(* operations of its requests; and buffers hold the request they say.      *)
PipelineInv ==
    \A w \in AllWorkers :
      /\ h_out[w] = finished[w]
      /\ finished[w] <= d_out[w] /\ d_out[w] <= d_x[w] /\ d_x[w] <= finished[w] + 1
      /\ Executed(w) + Len(stream[w]) = 3 * submitted[w] - Owes(w)
      /\ \A j \in 1 .. Len(stream[w]) : Rank(stream[w][j]) = Executed(w) + j

TimedInv == ~ Warming => \A w \in Workers : at_t0[w] = 1 /\ finished[w] >= 1

DataInv == refused = 0 => PipelineInv /\ TimedInv

IndInv == ControlInv /\ DataInv
-----------------------------------------------------------------------------
LEMMA MainIsNoWorker ==
    Main \notin Workers /\ Agents = {Main} \cup Workers /\ Main = 0 /\ Solo = 0
    /\ AllWorkers = {Solo} \cup Workers /\ \A w \in Workers : w \in Nat \ {0}
BY ArgumentAssumption DEF Main, Workers, Agents, Solo, AllWorkers

(* An agent in the middle of its work drives the worker it works with, and *)
(* only one phase has it at work.                                          *)
LEMMA AtWork ==
    ASSUME Types, PhaseInv, NEW a \in Agents,
           pc[a] \notin {"absent", "between", "done"}
    PROVE  /\ WorkerOf(a) \in AllWorkers /\ Driver(WorkerOf(a)) = a
           /\ \/ a = Main /\ Warming
              \/ a \in Workers /\ ~ Warming /\ stage = "spawn" /\ WorkerOf(a) = a
<1>1. CASE a = Main
  <2>1. Warming
    BY <1>1 DEF PhaseInv
  <2>2. WorkerOf(a) \in AllWorkers
    BY <1>1, <2>1, MainIsNoWorker DEF WorkerOf, PhaseInv, Warming
  <2> QED BY <1>1, <2>1, <2>2 DEF Driver
<1>2. CASE a # Main
  <2>1. a \in Workers /\ WorkerOf(a) = a
    BY <1>2, MainIsNoWorker DEF WorkerOf, Captured
  <2>2. ~ Warming
    BY <2>1 DEF PhaseInv
  <2>3. stage = "spawn"
    BY <2>1, <2>2 DEF PhaseInv, Types, Warming
  <2> QED BY <2>1, <2>2, <2>3, MainIsNoWorker DEF Driver
<1> QED BY <1>1, <1>2

(* One operation of worker w is submitted to its own stream, or refused.   *)
LEMMA SubmitAppends ==
    ASSUME Types, NEW w \in AllWorkers, NEW op \in {"copy_in", "infer", "copy_out"},
           NEW id \in Nat \ {0}, Submit(w, op, w, id)
    PROVE  /\ stream' \in [AllWorkers -> Seq(Operation)]
           /\ refused' \in 0 .. MaxRefused
           /\ \A v \in AllWorkers \ {w} : stream'[v] = stream[v]
           /\ Len(stream'[w]) <= Len(stream[w]) + 1
           /\ \A j \in 1 .. Len(stream'[w]) :
                 IF j <= Len(stream[w]) THEN stream'[w][j] = stream[w][j]
                 ELSE j = Len(stream[w]) + 1
                      /\ stream'[w][j] = [op |-> op, worker |-> w, id |-> id]
           /\ refused' = 0 => refused = 0 /\ Len(stream'[w]) = Len(stream[w]) + 1
<1> DEFINE o == [op |-> op, worker |-> w, id |-> id]
<1>1. o \in Operation
  BY DEF Operation
<1>2. stream[w] \in Seq(Operation) /\ Len(stream[w]) \in Nat
  BY DEF Types
<1>3. CASE stream' = [stream EXCEPT ![w] = Append(@, o)] /\ UNCHANGED refused
  <2>1. stream'[w] = Append(stream[w], o) /\ \A v \in AllWorkers \ {w} : stream'[v] = stream[v]
    BY <1>3 DEF Types
  <2>2. /\ Append(stream[w], o) \in Seq(Operation)
        /\ Len(Append(stream[w], o)) = Len(stream[w]) + 1
        /\ \A j \in 1 .. Len(stream[w]) : Append(stream[w], o)[j] = stream[w][j]
        /\ Append(stream[w], o)[Len(stream[w]) + 1] = o
    BY <1>1, <1>2
  <2>3. stream' \in [AllWorkers -> Seq(Operation)]
    BY <1>3, <2>2 DEF Types
  <2> HIDE DEF o
  <2> QED BY <1>2, <1>3, <2>1, <2>2, <2>3 DEF Types, o
<1>4. CASE refused < MaxRefused /\ refused' = refused + 1 /\ UNCHANGED stream
  BY <1>2, <1>4, ArgumentAssumption DEF Types
<1> QED BY <1>3, <1>4 DEF Submit

(* A step of an agent moves its own program counter only, never from where *)
(* it waits to be started nor to there.                                    *)
LEMMA AgentMoves ==
    ASSUME Types, NEW a \in Agents, Agent(a)
    PROVE  /\ stage' = stage /\ i' = i /\ at_t0' = at_t0
           /\ d_x' = d_x /\ d_out' = d_out /\ h_out' = h_out /\ finished' = finished
           /\ pc[a] \notin {"absent", "between", "done"}
           /\ pc' \in [Agents -> PCs] /\ \A c \in Agents \ {a} : pc'[c] = pc[c]
           /\ pc'[a] # "absent"
           /\ pc'[a] # IF a = Main THEN "done" ELSE "between"
<1>1. /\ stage' = stage /\ i' = i /\ at_t0' = at_t0
      /\ d_x' = d_x /\ d_out' = d_out /\ h_out' = h_out /\ finished' = finished
  BY DEF Agent, CopyIn, EnterEnqueue, LeaveEnqueue, CopyOut, Sync, buffers
<1>2. pc[a] \in {"copy_in", "enqueue", "enqueuing", "copy_out", "sync"}
  BY DEF Agent, CopyIn, EnterEnqueue, LeaveEnqueue, CopyOut, Sync
<1>3. PICK to : pc' = [pc EXCEPT ![a] = to]
  BY DEF Agent, CopyIn, EnterEnqueue, LeaveEnqueue, CopyOut, Sync
<1>4. pc'[a] \in PCs /\ pc'[a] # "absent" /\ pc'[a] # IF a = Main THEN "done" ELSE "between"
  <2>1. CASE CopyIn(a)
    BY <2>1 DEF CopyIn, PCs, Types
  <2>2. CASE EnterEnqueue(a)
    BY <2>2 DEF EnterEnqueue, PCs, Types
  <2>3. CASE LeaveEnqueue(a)
    BY <2>3 DEF LeaveEnqueue, PCs, Types
  <2>4. CASE CopyOut(a)
    BY <2>4 DEF CopyOut, PCs, Types
  <2>5. CASE Sync(a)
    BY <2>5 DEF Sync, PCs, Types
  <2> QED BY <2>1, <2>2, <2>3, <2>4, <2>5 DEF Agent
<1>5. pc' \in [Agents -> PCs] /\ \A c \in Agents \ {a} : pc'[c] = pc[c]
  BY <1>3, <1>4 DEF Types
<1> QED BY <1>1, <1>2, <1>4, <1>5

LEMMA AgentKeepsPhase ==
    ASSUME Types, PhaseInv, NEW a \in Agents, Agent(a)
    PROVE  PhaseInv'
<1>2. /\ stage' = stage /\ i' = i /\ pc[a] \notin {"absent", "between", "done"}
      /\ pc'[a] # "absent" /\ pc'[a] # IF a = Main THEN "done" ELSE "between"
      /\ \A c \in Agents \ {a} : pc'[c] = pc[c]
  BY AgentMoves
<1>4. CASE a = Main /\ Warming
  BY <1>2, <1>4, MainIsNoWorker DEF PhaseInv, Warming
<1>5. CASE a \in Workers /\ ~ Warming /\ stage = "spawn"
  BY <1>2, <1>5, MainIsNoWorker DEF PhaseInv, Warming
<1> QED BY <1>2, <1>4, <1>5, AtWork

(* The other workers owe what they owed, and the most that may be in their *)
(* streams is what it was.                                                 *)
LEMMA OthersUnmoved ==
    ASSUME Types, PhaseInv, NEW a \in Agents, Agent(a), NEW v \in AllWorkers
    PROVE  /\ Driver(v)' = Driver(v)
           /\ v # WorkerOf(a) => Owes(v)' = Owes(v) /\ Pending(v)' = Pending(v)
<1>1. /\ stage' = stage /\ i' = i /\ \A c \in Agents \ {a} : pc'[c] = pc[c]
  BY AgentMoves
<1>2. \A c \in Agents \ {a} : left'[c] = left[c]
  BY DEF Agent, CopyIn, EnterEnqueue, LeaveEnqueue, CopyOut, Sync, Types
<1>3. Driver(v)' = Driver(v) /\ \A c \in Agents : WorkerOf(c)' = WorkerOf(c)
  BY <1>1 DEF Driver, WorkerOf, Captured, Warming
<1>4. Driver(v) \in Agents /\ (Driver(v) # Main => Driver(v) = v)
  BY MainIsNoWorker DEF Driver
<1>5. CASE Driver(v) = a
  <2>1. v # WorkerOf(a) => WorkerOf(Driver(v)) # v /\ a = Main
    BY <1>4, <1>5, MainIsNoWorker DEF WorkerOf, Captured
  <2> QED BY <1>3, <1>4, <1>5, <2>1 DEF Owes, Pending
<1>6. CASE Driver(v) # a
  <2>1. pc'[Driver(v)] = pc[Driver(v)]
    BY <1>1, <1>4, <1>6
  <2>2. Owes(v)' = Owes(v)
    BY <1>3, <1>4, <2>1 DEF Owes
  <2>3. CASE Driver(v) # Main
    BY <1>1, <1>2, <1>3, <1>4, <1>6, <2>1, <2>2, <2>3 DEF Pending
  <2>4. CASE Driver(v) = Main
    BY <1>3, <1>4, <2>1, <2>2, <2>4 DEF Pending
  <2> QED BY <1>3, <2>2, <2>3, <2>4
<1> QED BY <1>3, <1>5, <1>6
(* An operation submitted by a is the next of its worker, if none was      *)
(* refused, and there is room for it.                                      *)
LEMMA SubmitKeepsOrder ==
    ASSUME IndInv, NEW a \in Agents, Agent(a), NEW w \in AllWorkers, w = WorkerOf(a),
           NEW op \in {"copy_in", "infer", "copy_out"}, NEW id \in Nat \ {0},
           Submit(w, op, w, id),
           \A v \in AllWorkers \ {w} : submitted'[v] = submitted[v],
           submitted'[w] \in Nat, Owes(w) \in Nat, Owes(w)' \in Nat,
           Pending(w) \in Int, Pending(w)' = Pending(w) + 1,
           Rank([op |-> op, worker |-> w, id |-> id]) = 3 * submitted[w] - Owes(w) + 1,
           3 * submitted'[w] - Owes(w)' = 3 * submitted[w] - Owes(w) + 1
    PROVE  QueueInv' /\ DataInv'
<1> DEFINE o == [op |-> op, worker |-> w, id |-> id]
<1>0. Types /\ PhaseInv /\ QueueInv
  BY DEF IndInv, ControlInv
<1>1. /\ stream' \in [AllWorkers -> Seq(Operation)]
      /\ \A v \in AllWorkers \ {w} : stream'[v] = stream[v]
      /\ Len(stream'[w]) <= Len(stream[w]) + 1
      /\ \A j \in 1 .. Len(stream'[w]) :
            IF j <= Len(stream[w]) THEN stream'[w][j] = stream[w][j]
            ELSE j = Len(stream[w]) + 1 /\ stream'[w][j] = o
      /\ refused' = 0 => refused = 0 /\ Len(stream'[w]) = Len(stream[w]) + 1
  BY <1>0, SubmitAppends
<1>2. /\ stage' = stage /\ i' = i /\ at_t0' = at_t0
      /\ d_x' = d_x /\ d_out' = d_out /\ h_out' = h_out /\ finished' = finished
  BY <1>0, AgentMoves
<1>3. \A v \in AllWorkers \ {w} : Owes(v)' = Owes(v) /\ Pending(v)' = Pending(v)
  BY <1>0, OthersUnmoved
<1>4. \A v \in AllWorkers : Len(stream[v]) \in Nat /\ Len(stream'[v]) \in Nat
  <2>1. stream \in [AllWorkers -> Seq(Operation)]
    BY <1>0 DEF Types
  <2> QED BY <1>1, <2>1, LenProperties
<1>5. o.worker = w /\ Rank(o) = 3 * submitted[w] - Owes(w) + 1
  OBVIOUS
<1> HIDE DEF o
<1>6. QueueInv'
  <2> SUFFICES ASSUME NEW v \in AllWorkers
               PROVE  /\ Len(stream'[v]) <= Pending(v)'
                      /\ \A j \in 1 .. Len(stream'[v]) : stream'[v][j].worker = v
    BY DEF QueueInv
  <2>1. CASE v = w
    <3>1. Len(stream'[w]) <= Pending(w)'
      <4>1. Len(stream[w]) <= Pending(w)
        BY <1>0 DEF QueueInv
      <4> QED BY <1>1, <1>4, <4>1
    <3>2. ASSUME NEW j \in 1 .. Len(stream'[w]) PROVE stream'[w][j].worker = w
      <4>1. CASE j <= Len(stream[w])
        <5>1. stream'[w][j] = stream[w][j] /\ j \in 1 .. Len(stream[w])
          BY <1>1, <1>4, <4>1
        <5> QED BY <1>0, <5>1 DEF QueueInv
      <4>2. CASE ~ (j <= Len(stream[w]))
        BY <1>1, <1>5, <4>2
      <4> QED BY <4>1, <4>2
    <3> QED BY <2>1, <3>1, <3>2
  <2>2. CASE v # w
    BY <1>0, <1>1, <1>3, <2>2 DEF QueueInv
  <2> QED BY <2>1, <2>2
<1>7. ASSUME refused' = 0 PROVE PipelineInv' /\ TimedInv'
  <2>1. refused = 0 /\ PipelineInv /\ TimedInv
    BY <1>1, <1>7 DEF IndInv, DataInv
  <2>2. TimedInv'
    BY <1>2, <2>1 DEF TimedInv, Warming
  <2>3. ASSUME NEW v \in AllWorkers
        PROVE  /\ Executed(v)' + Len(stream'[v]) = 3 * submitted'[v] - Owes(v)'
               /\ \A j \in 1 .. Len(stream'[v]) : Rank(stream'[v][j]) = Executed(v)' + j
    <3>1. Executed(v)' = Executed(v) /\ Executed(v) \in Nat /\ submitted[v] \in Nat
      <4>1. d_x[v] \in Nat /\ d_out[v] \in Nat /\ finished[v] \in Nat /\ submitted[v] \in Nat
        BY <1>0 DEF Types
      <4> QED BY <1>2, <4>1 DEF Executed
    <3>2. /\ Executed(v) + Len(stream[v]) = 3 * submitted[v] - Owes(v)
          /\ \A j \in 1 .. Len(stream[v]) : Rank(stream[v][j]) = Executed(v) + j
      BY <2>1 DEF PipelineInv
    <3>3. CASE v = w
      <4>1. Len(stream'[w]) = Len(stream[w]) + 1
        BY <1>1, <1>7
      <4>2. Executed(v)' + Len(stream'[v]) = 3 * submitted'[v] - Owes(v)'
        BY <1>4, <3>1, <3>2, <3>3, <4>1
      <4>3. Rank(o) = Executed(w) + Len(stream[w]) + 1
        BY <1>4, <1>5, <3>1, <3>2, <3>3
      <4>4. ASSUME NEW j \in 1 .. Len(stream'[w])
            PROVE  Rank(stream'[w][j]) = Executed(w)' + j
        <5>1. CASE j <= Len(stream[w])
          <6>1. stream'[w][j] = stream[w][j] /\ j \in 1 .. Len(stream[w])
            BY <1>1, <1>4, <5>1
          <6> QED BY <3>1, <3>2, <3>3, <6>1
        <5>2. CASE ~ (j <= Len(stream[w]))
          <6>1. stream'[w][j] = o /\ j = Len(stream[w]) + 1
            BY <1>1, <5>2
          <6> QED BY <1>4, <3>1, <3>3, <4>3, <6>1
        <5> QED BY <5>1, <5>2
      <4> QED BY <3>3, <4>2, <4>4
    <3>4. CASE v # w
      BY <1>1, <1>3, <3>1, <3>2, <3>4
    <3> QED BY <3>3, <3>4
  <2> QED BY <1>2, <2>1, <2>2, <2>3 DEF PipelineInv
<1> QED BY <1>6, <1>7 DEF DataInv

LEMMA CopyInKeeps ==
    ASSUME IndInv, NEW a \in Agents, CopyIn(a) PROVE IndInv'
<1>0. Types /\ PhaseInv /\ LeftInv /\ SubmittedInv /\ Agent(a)
  BY DEF IndInv, ControlInv, Agent
<1>1. PICK w : w = WorkerOf(a)
  OBVIOUS
<1>2. /\ pc[a] = "copy_in" /\ pc' = [pc EXCEPT ![a] = "enqueue"]
      /\ submitted' = [submitted EXCEPT ![w] = @ + 1]
      /\ left' = [left EXCEPT ![a] = @ - 1]
      /\ Submit(w, "copy_in", w, submitted[w] + 1)
  BY <1>1 DEF CopyIn
<1>3. /\ w \in AllWorkers /\ Driver(w) = a
      /\ \/ a = Main /\ Warming
         \/ a \in Workers /\ ~ Warming /\ stage = "spawn" /\ w = a
  BY <1>0, <1>1, <1>2, AtWork
<1>4. /\ stage' = stage /\ i' = i /\ at_t0' = at_t0
      /\ d_x' = d_x /\ d_out' = d_out /\ h_out' = h_out /\ finished' = finished
      /\ pc' \in [Agents -> PCs] /\ \A c \in Agents \ {a} : pc'[c] = pc[c]
      /\ pc'[a] = "enqueue"
  BY <1>0, <1>2, AgentMoves DEF Types
<1>5. left[a] > 0 /\ left'[a] = left[a] - 1 /\ left[a] \in Nat /\ left' \in [Agents -> Nat]
  <2>1. left[a] > 0
    BY <1>0, <1>2, <1>3 DEF LeftInv
  <2>2. left \in [Agents -> Nat] /\ left[a] \in Nat
    BY <1>0 DEF Types
  <2> QED BY <1>2, <2>1, <2>2
<1>6. \A c \in Agents \ {a} : left'[c] = left[c]
  BY <1>0, <1>2 DEF Types
<1>7. /\ submitted[w] \in Nat /\ submitted'[w] = submitted[w] + 1
      /\ \A v \in AllWorkers \ {w} : submitted'[v] = submitted[v]
      /\ submitted' \in [AllWorkers -> Nat]
  BY <1>0, <1>2, <1>3 DEF Types
<1>8. stream' \in [AllWorkers -> Seq(Operation)] /\ refused' \in 0 .. MaxRefused
  <2>1. submitted[w] + 1 \in Nat \ {0}
    BY <1>7
  <2> QED BY <1>0, <1>2, <1>3, <2>1, SubmitAppends
<1>9. Types' /\ PhaseInv'
  BY <1>0, <1>4, <1>5, <1>7, <1>8, AgentKeepsPhase DEF Types
<1>10. LeftInv'
  <2>1. CASE a = Main
    BY <1>0, <1>2, <1>4, <1>5, <1>6, <2>1, MainIsNoWorker DEF LeftInv
  <2>2. CASE a \in Workers /\ stage = "spawn"
    <3>1. left'[a] <= requests_per_worker
      BY <1>0, <1>5, <2>2, ArgumentAssumption DEF LeftInv
    <3> QED BY <1>0, <1>4, <1>6, <2>2, <3>1, MainIsNoWorker DEF LeftInv
  <2> QED BY <1>3, <2>1, <2>2
<1>11. SubmittedInv'
  <2>1. CASE a = Main /\ stage = "solo"
    BY <1>0, <1>1, <1>4, <1>7, <2>1, MainIsNoWorker
    DEF SubmittedInv, PhaseInv, Warming, WorkerOf
  <2>2. CASE a = Main /\ stage = "warmup"
    BY <1>0, <1>1, <1>2, <1>4, <1>5, <1>7, <2>2, MainIsNoWorker
    DEF SubmittedInv, LeftInv, PhaseInv, Warming, WorkerOf
  <2>3. CASE a \in Workers /\ stage = "spawn"
    <3>1. ASSUME NEW v \in Workers
          PROVE  submitted'[v] = 1 + requests_per_worker - left'[v]
      <4>1. submitted[v] = 1 + requests_per_worker - left[v] /\ v \in AllWorkers
        BY <1>0, <2>3, MainIsNoWorker DEF SubmittedInv, Warming
      <4>2. CASE v = a
        BY <1>3, <1>5, <1>7, <2>3, <4>1, <4>2, MainIsNoWorker, ArgumentAssumption
      <4>3. CASE v # a
        BY <1>3, <1>6, <1>7, <2>3, <4>1, <4>3, MainIsNoWorker
      <4> QED BY <4>2, <4>3
    <3> QED BY <1>4, <2>3, <3>1 DEF SubmittedInv, Warming
  <2> QED BY <1>3, <2>1, <2>2, <2>3 DEF Warming
<1>12. Driver(w)' = a /\ WorkerOf(a)' = w
  BY <1>0, <1>1, <1>3, <1>4, OthersUnmoved DEF WorkerOf, Captured
<1>13. Owes(w) = 0 /\ Owes(w)' = 2
  BY <1>1, <1>2, <1>3, <1>4, <1>12 DEF Owes
<1>14. Pending(w) \in Int /\ Pending(w)' = Pending(w) + 1
  <2>1. CASE a = Main
    BY <1>1, <1>2, <1>3, <1>4, <1>12, <1>13, <2>1 DEF Pending
  <2>2. CASE a # Main
    BY <1>2, <1>3, <1>4, <1>5, <1>12, <1>13, <2>2, ArgumentAssumption DEF Pending
  <2> QED BY <2>1, <2>2
<1>15. Rank([op |-> "copy_in", worker |-> w, id |-> submitted[w] + 1]) = 3 * submitted[w] + 1
  BY <1>7 DEF Rank
<1>16. QueueInv' /\ DataInv'
  BY <1>0, <1>1, <1>2, <1>3, <1>7, <1>13, <1>14, <1>15, SubmitKeepsOrder
<1> QED BY <1>9, <1>10, <1>11, <1>16 DEF IndInv, ControlInv
(* Only CopyIn counts a request; the other steps of an agent keep both     *)
(* counts, and the loop conditions say where they go.                      *)
LEMMA CountsKept ==
    ASSUME IndInv, NEW a \in Agents, Agent(a), left' = left, submitted' = submitted,
           pc[a] # "copy_in",
           pc'[a] = "copy_in" => left[a] > 0,
           a # Main /\ pc'[a] \in {"sync", "done"} => left[a] = 0,
           pc'[a] \in {"enqueue", "enqueuing", "copy_out"} =>
             pc[a] \in {"enqueue", "enqueuing"}
    PROVE  LeftInv' /\ SubmittedInv'
<1>0. Types /\ PhaseInv /\ LeftInv /\ SubmittedInv
  BY DEF IndInv, ControlInv
<1>1. /\ stage' = stage /\ i' = i /\ pc[a] \notin {"absent", "between", "done"}
      /\ pc'[a] # "absent" /\ pc'[a] # IF a = Main THEN "done" ELSE "between"
      /\ \A c \in Agents \ {a} : pc'[c] = pc[c]
  BY <1>0, AgentMoves
<1>2. (a = Main /\ Warming) \/ (a \in Workers /\ ~ Warming /\ stage = "spawn")
  BY <1>0, <1>1, AtWork
<1>3. LeftInv'
  <2>1. CASE a = Main
    BY <1>0, <1>1, <2>1, MainIsNoWorker DEF LeftInv
  <2>2. CASE a \in Workers
    BY <1>0, <1>1, <2>2, MainIsNoWorker DEF LeftInv
  <2> QED BY <1>2, <2>1, <2>2
<1>4. SubmittedInv'
  <2>1. \A v \in Workers :
          submitted'[v] = IF ~ Warming' THEN 1 + requests_per_worker - left'[v]
                          ELSE IF v > i' THEN 0 ELSE IF v < i' THEN 1 ELSE 1 - left'[Main]
    BY <1>0, <1>1 DEF SubmittedInv, Warming
  <2>2. stage' = "solo" /\ pc'[Main] \in {"enqueue", "enqueuing", "copy_out"} =>
          submitted'[Solo] > 0
    BY <1>0, <1>1, MainIsNoWorker DEF SubmittedInv
  <2> QED BY <2>1, <2>2 DEF SubmittedInv
<1> QED BY <1>3, <1>4

(* What a submission is about: a worker that has a request under way.      *)
LEMMA RequestUnderWay ==
    ASSUME IndInv, NEW a \in Agents, pc[a] \in {"enqueue", "enqueuing", "copy_out"}
    PROVE  submitted[WorkerOf(a)] \in Nat \ {0}
<1>0. Types /\ PhaseInv /\ LeftInv /\ SubmittedInv
  BY DEF IndInv, ControlInv
<1>1. /\ WorkerOf(a) \in AllWorkers
      /\ \/ a = Main /\ Warming
         \/ a \in Workers /\ ~ Warming /\ stage = "spawn" /\ WorkerOf(a) = a
  BY <1>0, AtWork
<1>2. submitted[WorkerOf(a)] \in Nat
  BY <1>0, <1>1 DEF Types
<1>3. CASE a = Main /\ stage = "solo"
  BY <1>0, <1>2, <1>3 DEF SubmittedInv, WorkerOf
<1>4. CASE a = Main /\ stage = "warmup"
  <2>1. WorkerOf(a) = i /\ i \in Workers /\ left[Main] = 0 /\ Warming
    BY <1>0, <1>4 DEF WorkerOf, PhaseInv, LeftInv, Warming
  <2> QED BY <1>0, <2>1, MainIsNoWorker DEF SubmittedInv
<1>5. CASE a \in Workers /\ ~ Warming /\ WorkerOf(a) = a
  <2>1. left[a] <= requests_per_worker /\ left[a] \in Nat
    BY <1>0, <1>5 DEF LeftInv, Types
  <2> QED BY <1>0, <1>5, <2>1, ArgumentAssumption DEF SubmittedInv
<1> QED BY <1>1, <1>3, <1>4, <1>5 DEF Warming

LEMMA LeaveEnqueueKeeps ==
    ASSUME IndInv, NEW a \in Agents, LeaveEnqueue(a) PROVE IndInv'
<1>0. Types /\ PhaseInv /\ Agent(a)
  BY DEF IndInv, ControlInv, Agent
<1>1. PICK w : w = WorkerOf(a)
  OBVIOUS
<1>2. /\ pc[a] = "enqueuing" /\ pc' = [pc EXCEPT ![a] = "copy_out"]
      /\ submitted' = submitted /\ left' = left
      /\ Submit(w, "infer", w, submitted[w])
  BY <1>1 DEF LeaveEnqueue, InferenceStream
<1>3. /\ w \in AllWorkers /\ Driver(w) = a /\ submitted[w] \in Nat \ {0}
      /\ \/ a = Main /\ Warming
         \/ a \in Workers /\ ~ Warming /\ stage = "spawn" /\ w = a
  BY <1>0, <1>1, <1>2, AtWork, RequestUnderWay
<1>4. /\ stage' = stage /\ i' = i /\ at_t0' = at_t0
      /\ d_x' = d_x /\ d_out' = d_out /\ h_out' = h_out /\ finished' = finished
      /\ pc' \in [Agents -> PCs] /\ pc'[a] = "copy_out"
  BY <1>0, <1>2, AgentMoves DEF Types
<1>5. stream' \in [AllWorkers -> Seq(Operation)] /\ refused' \in 0 .. MaxRefused
  BY <1>0, <1>2, <1>3, SubmitAppends
<1>6. Types' /\ PhaseInv'
  BY <1>0, <1>2, <1>4, <1>5, AgentKeepsPhase DEF Types
<1>7. LeftInv' /\ SubmittedInv'
  BY <1>0, <1>2, <1>4, CountsKept
<1>8. Driver(w)' = a /\ WorkerOf(a)' = w
  BY <1>0, <1>1, <1>3, <1>4, OthersUnmoved DEF WorkerOf, Captured
<1>9. Owes(w) = 2 /\ Owes(w)' = 1
  BY <1>1, <1>2, <1>3, <1>4, <1>8 DEF Owes
<1>10. Pending(w) \in Int /\ Pending(w)' = Pending(w) + 1
  <2>1. CASE a = Main
    BY <1>1, <1>2, <1>3, <1>4, <1>8, <1>9, <2>1 DEF Pending
  <2>2. CASE a # Main
    <3>1. left[a] \in Nat /\ left'[a] = left[a]
      BY <1>0, <1>2 DEF Types
    <3> QED BY <1>2, <1>3, <1>4, <1>8, <1>9, <2>2, <3>1, ArgumentAssumption DEF Pending
  <2> QED BY <2>1, <2>2
<1>11. Rank([op |-> "infer", worker |-> w, id |-> submitted[w]]) = 3 * submitted[w] - 1
  BY <1>3 DEF Rank
<1>12. QueueInv' /\ DataInv'
  BY <1>0, <1>1, <1>2, <1>3, <1>9, <1>10, <1>11, SubmitKeepsOrder
<1> QED BY <1>6, <1>7, <1>12 DEF IndInv, ControlInv

LEMMA CopyOutKeeps ==
    ASSUME IndInv, NEW a \in Agents, CopyOut(a) PROVE IndInv'
<1>0. Types /\ PhaseInv /\ LeftInv /\ Agent(a)
  BY DEF IndInv, ControlInv, Agent
<1>1. PICK w : w = WorkerOf(a)
  OBVIOUS
<1>2. /\ pc[a] = "copy_out"
      /\ pc' = [pc EXCEPT ![a] = IF a # Main /\ left[a] > 0 THEN "copy_in" ELSE "sync"]
      /\ submitted' = submitted /\ left' = left
      /\ Submit(w, "copy_out", w, submitted[w])
  BY <1>1 DEF CopyOut
<1>3. /\ w \in AllWorkers /\ Driver(w) = a /\ submitted[w] \in Nat \ {0}
      /\ \/ a = Main /\ Warming
         \/ a \in Workers /\ ~ Warming /\ stage = "spawn" /\ w = a
  BY <1>0, <1>1, <1>2, AtWork, RequestUnderWay
<1>4. /\ stage' = stage /\ i' = i /\ at_t0' = at_t0
      /\ d_x' = d_x /\ d_out' = d_out /\ h_out' = h_out /\ finished' = finished
      /\ pc' \in [Agents -> PCs]
      /\ pc'[a] = IF a # Main /\ left[a] > 0 THEN "copy_in" ELSE "sync"
  BY <1>0, <1>2, AgentMoves DEF Types
<1>5. stream' \in [AllWorkers -> Seq(Operation)] /\ refused' \in 0 .. MaxRefused
  BY <1>0, <1>2, <1>3, SubmitAppends
<1>6. Types' /\ PhaseInv'
  BY <1>0, <1>2, <1>4, <1>5, AgentKeepsPhase DEF Types
<1>7. LeftInv' /\ SubmittedInv'
  <2>1. left[a] \in Nat
    BY <1>0 DEF Types
  <2> QED BY <1>0, <1>2, <1>4, <2>1, CountsKept
<1>8. Driver(w)' = a /\ WorkerOf(a)' = w
  BY <1>0, <1>1, <1>3, <1>4, OthersUnmoved DEF WorkerOf, Captured
<1>9. Owes(w) = 1 /\ Owes(w)' = 0
  BY <1>1, <1>2, <1>3, <1>4, <1>8 DEF Owes
<1>10. Pending(w) \in Int /\ Pending(w)' = Pending(w) + 1
  <2>1. CASE a = Main
    BY <1>1, <1>2, <1>3, <1>4, <1>8, <1>9, <2>1 DEF Pending
  <2>2. CASE a # Main
    <3>1. left[a] \in Nat /\ left'[a] = left[a]
      BY <1>0, <1>2 DEF Types
    <3> QED BY <1>2, <1>3, <1>4, <1>8, <1>9, <2>2, <3>1, ArgumentAssumption DEF Pending
  <2> QED BY <2>1, <2>2
<1>11. Rank([op |-> "copy_out", worker |-> w, id |-> submitted[w]]) = 3 * submitted[w]
  BY <1>3 DEF Rank
<1>12. QueueInv' /\ DataInv'
  BY <1>0, <1>1, <1>2, <1>3, <1>9, <1>10, <1>11, SubmitKeepsOrder
<1> QED BY <1>6, <1>7, <1>12 DEF IndInv, ControlInv
(* A step that submits nothing and counts nothing leaves the streams as    *)
(* they are; the worker of the agent owes what it owed.                    *)
LEMMA QuietStepKeeps ==
    ASSUME IndInv, NEW a \in Agents, Agent(a), NEW w \in AllWorkers, w = WorkerOf(a),
           stream' = stream, submitted' = submitted, refused' = refused,
           Owes(w)' = Owes(w), Len(stream[w]) <= Pending(w)'
    PROVE  QueueInv' /\ DataInv'
<1>0. Types /\ PhaseInv /\ QueueInv
  BY DEF IndInv, ControlInv
<1>1. /\ stage' = stage /\ at_t0' = at_t0
      /\ d_x' = d_x /\ d_out' = d_out /\ h_out' = h_out /\ finished' = finished
  BY <1>0, AgentMoves
<1>2. \A v \in AllWorkers \ {w} : Owes(v)' = Owes(v) /\ Pending(v)' = Pending(v)
  BY <1>0, OthersUnmoved
<1>3. QueueInv'
  <2> SUFFICES ASSUME NEW v \in AllWorkers
               PROVE  /\ Len(stream'[v]) <= Pending(v)'
                      /\ \A j \in 1 .. Len(stream'[v]) : stream'[v][j].worker = v
    BY DEF QueueInv
  <2>1. CASE v = w
    BY <1>0, <2>1 DEF QueueInv
  <2>2. CASE v # w
    BY <1>0, <1>2, <2>2 DEF QueueInv
  <2> QED BY <2>1, <2>2
<1>4. ASSUME refused' = 0 PROVE PipelineInv' /\ TimedInv'
  <2>1. PipelineInv /\ TimedInv
    BY <1>4 DEF IndInv, DataInv
  <2>2. TimedInv'
    BY <1>1, <2>1 DEF TimedInv, Warming
  <2>3. ASSUME NEW v \in AllWorkers
        PROVE  /\ Executed(v)' + Len(stream'[v]) = 3 * submitted'[v] - Owes(v)'
               /\ \A j \in 1 .. Len(stream'[v]) : Rank(stream'[v][j]) = Executed(v)' + j
    <3>1. Executed(v)' = Executed(v) /\ Owes(v)' = Owes(v)
      BY <1>1, <1>2 DEF Executed
    <3> QED BY <2>1, <3>1 DEF PipelineInv
  <2> QED BY <1>1, <2>1, <2>2, <2>3 DEF PipelineInv
<1> QED BY <1>3, <1>4 DEF DataInv

LEMMA EnterEnqueueKeeps ==
    ASSUME IndInv, NEW a \in Agents, EnterEnqueue(a) PROVE IndInv'
<1>0. Types /\ PhaseInv /\ QueueInv /\ Agent(a)
  BY DEF IndInv, ControlInv, Agent
<1>1. PICK w : w = WorkerOf(a)
  OBVIOUS
<1>2. /\ pc[a] = "enqueue" /\ pc' = [pc EXCEPT ![a] = "enqueuing"]
      /\ submitted' = submitted /\ left' = left /\ stream' = stream /\ refused' = refused
  BY DEF EnterEnqueue
<1>3. /\ w \in AllWorkers /\ Driver(w) = a
      /\ \/ a = Main /\ Warming
         \/ a \in Workers /\ ~ Warming /\ stage = "spawn" /\ w = a
  BY <1>0, <1>1, <1>2, AtWork
<1>4. /\ stage' = stage /\ i' = i /\ at_t0' = at_t0
      /\ d_x' = d_x /\ d_out' = d_out /\ h_out' = h_out /\ finished' = finished
      /\ pc' \in [Agents -> PCs] /\ pc'[a] = "enqueuing"
  BY <1>0, <1>2, AgentMoves DEF Types
<1>5. Types' /\ PhaseInv'
  BY <1>0, <1>2, <1>4, AgentKeepsPhase DEF Types
<1>6. LeftInv' /\ SubmittedInv'
  BY <1>0, <1>2, <1>4, CountsKept
<1>7. Driver(w)' = a /\ WorkerOf(a)' = w
  BY <1>0, <1>1, <1>3, <1>4, OthersUnmoved DEF WorkerOf, Captured
<1>8. Owes(w) = 2 /\ Owes(w)' = 2
  BY <1>1, <1>2, <1>3, <1>4, <1>7 DEF Owes
<1>9. Pending(w)' = Pending(w)
  <2>1. CASE a = Main
    BY <1>1, <1>2, <1>3, <1>4, <1>7, <1>8, <2>1 DEF Pending
  <2>2. CASE a # Main
    BY <1>2, <1>3, <1>4, <1>7, <1>8, <2>2 DEF Pending
  <2> QED BY <2>1, <2>2
<1>10. Len(stream[w]) <= Pending(w)
  BY <1>0, <1>3 DEF QueueInv
<1>11. QueueInv' /\ DataInv'
  BY <1>0, <1>1, <1>2, <1>3, <1>8, <1>9, <1>10, QuietStepKeeps
<1> QED BY <1>5, <1>6, <1>11 DEF IndInv, ControlInv

LEMMA SyncKeeps ==
    ASSUME IndInv, NEW a \in Agents, Sync(a) PROVE IndInv'
<1>0. Types /\ PhaseInv /\ LeftInv /\ QueueInv /\ Agent(a)
  BY DEF IndInv, ControlInv, Agent
<1>1. PICK w : w = WorkerOf(a)
  OBVIOUS
<1>2. /\ pc[a] = "sync" /\ stream[w] = << >>
      /\ pc' = [pc EXCEPT ![a] = IF a # Main THEN "done"
                                ELSE IF left[a] > 0 THEN "copy_in" ELSE "between"]
      /\ submitted' = submitted /\ left' = left /\ stream' = stream /\ refused' = refused
  BY <1>1 DEF Sync, Drained
<1>3. /\ w \in AllWorkers /\ Driver(w) = a
      /\ \/ a = Main /\ Warming
         \/ a \in Workers /\ ~ Warming /\ stage = "spawn" /\ w = a
  BY <1>0, <1>1, <1>2, AtWork
<1>4. /\ stage' = stage /\ i' = i /\ at_t0' = at_t0
      /\ d_x' = d_x /\ d_out' = d_out /\ h_out' = h_out /\ finished' = finished
      /\ pc' \in [Agents -> PCs]
      /\ pc'[a] = IF a # Main THEN "done"
                  ELSE IF left[a] > 0 THEN "copy_in" ELSE "between"
  BY <1>0, <1>2, AgentMoves DEF Types
<1>5. Types' /\ PhaseInv'
  BY <1>0, <1>2, <1>4, AgentKeepsPhase DEF Types
<1>6. LeftInv' /\ SubmittedInv'
  <2>1. a # Main => left[a] = 0
    BY <1>0, <1>2, <1>3, MainIsNoWorker DEF LeftInv
  <2> QED BY <1>0, <1>2, <1>4, <2>1, CountsKept
<1>7. Driver(w)' = a /\ WorkerOf(a)' = w
  BY <1>0, <1>1, <1>3, <1>4, OthersUnmoved DEF WorkerOf, Captured
<1>8. Owes(w) = 0 /\ Owes(w)' = 0
  BY <1>1, <1>2, <1>3, <1>4, <1>7 DEF Owes
<1>9. Pending(w)' = 0
  <2>1. CASE a = Main
    BY <1>1, <1>3, <1>4, <1>7, <2>1 DEF Pending
  <2>2. CASE a # Main
    BY <1>3, <1>4, <1>7, <2>2 DEF Pending
  <2> QED BY <2>1, <2>2
<1>10. QueueInv' /\ DataInv'
  BY <1>0, <1>1, <1>2, <1>3, <1>8, <1>9, QuietStepKeeps
<1> QED BY <1>5, <1>6, <1>10 DEF IndInv, ControlInv

-----------------------------------------------------------------------------
(* When main moves on, no agent is in the middle of a request.             *)
LEMMA NobodyOwes ==
    ASSUME Types, PhaseInv, NEW w \in AllWorkers,
           pc[Main] \notin {"enqueue", "enqueuing", "copy_out"},
           Warming \/ w = Solo \/ pc[w] \notin {"enqueue", "enqueuing", "copy_out"}
    PROVE  Owes(w) = 0
BY MainIsNoWorker DEF Owes, Driver
(* The next worker's warm-up request: the last one's wait is over, and     *)
(* every stream is empty.                                                  *)
LEMMA NextWarmupKeeps == ASSUME IndInv, NextWarmup PROVE IndInv'
<1>0. Types /\ PhaseInv /\ LeftInv /\ SubmittedInv /\ QueueInv
  BY DEF IndInv, ControlInv
<1>1. /\ Warming /\ pc[Main] = "between"
      /\ submitted' = submitted /\ stream' = stream /\ finished' = finished
      /\ refused' = refused /\ d_x' = d_x /\ d_out' = d_out /\ h_out' = h_out
  BY DEF NextWarmup, Warming, buffers
<1>2. \A v \in AllWorkers : Owes(v) = 0 /\ Pending(v) = 0
  <2> SUFFICES ASSUME NEW v \in AllWorkers PROVE Owes(v) = 0 /\ Pending(v) = 0
    OBVIOUS
  <2>1. Driver(v) = Main
    BY <1>1 DEF Driver
  <2> QED BY <1>0, <1>1, <2>1, NobodyOwes DEF Pending
<1>3. \A v \in AllWorkers : stream[v] = << >> /\ Len(stream[v]) = 0
  <2>1. stream \in [AllWorkers -> Seq(Operation)]
    BY <1>0 DEF Types
  <2>2. \A v \in AllWorkers : Len(stream[v]) <= 0
    BY <1>0, <1>2 DEF QueueInv
  <2> QED BY <2>1, <2>2, EmptySeq, LenProperties
<1>4. CASE i < num_workers
  <2>1. /\ stage' = "warmup" /\ i' = i + 1 /\ left' = [left EXCEPT ![Main] = 1]
        /\ pc' = [pc EXCEPT ![Main] = "copy_in"] /\ at_t0' = at_t0
    BY <1>4 DEF NextWarmup
  <2>2. i \in Nat /\ i + 1 \in Workers /\ i + 1 \in 0 .. num_workers + 1
    BY <1>0, <1>4, ArgumentAssumption DEF Types, Workers
  <2>3. pc'[Main] = "copy_in" /\ \A c \in Workers : pc'[c] = pc[c]
    BY <1>0, <2>1, MainIsNoWorker DEF Types
  <2>4. left'[Main] = 1 /\ \A c \in Workers : left'[c] = left[c]
    BY <1>0, <2>1, MainIsNoWorker DEF Types
  <2>5. Types'
    BY <1>0, <1>1, <2>1, <2>2, MainIsNoWorker DEF Types, PCs
  <2>6. PhaseInv'
    BY <1>0, <1>1, <2>1, <2>2, <2>3 DEF PhaseInv, Warming
  <2>7. LeftInv'
    BY <1>0, <1>1, <2>1, <2>3, <2>4, MainIsNoWorker DEF LeftInv, PhaseInv
  <2>8. SubmittedInv'
    <3>1. ASSUME NEW v \in Workers
          PROVE  submitted'[v] = IF v > i' THEN 0 ELSE IF v < i' THEN 1 ELSE 0
      <4>1. submitted[v] = IF v > i THEN 0 ELSE IF v < i THEN 1 ELSE 1 - left[Main]
        BY <1>0, <1>1 DEF SubmittedInv
      <4>2. v = i => left[Main] = 0
        BY <1>0, <1>1, MainIsNoWorker DEF LeftInv, PhaseInv, Warming
      <4> QED BY <1>1, <2>1, <2>2, <4>1, <4>2, MainIsNoWorker
    <3> QED BY <2>1, <2>4, <3>1 DEF SubmittedInv, Warming
  <2>9. \A v \in AllWorkers : Owes(v)' = 0 /\ Pending(v)' = 0
    <3> SUFFICES ASSUME NEW v \in AllWorkers PROVE Owes(v)' = 0 /\ Pending(v)' = 0
      OBVIOUS
    <3>1. Driver(v)' = Main
      BY <2>1 DEF Driver, Warming
    <3> QED BY <2>3, <3>1 DEF Owes, Pending
  <2>10. QueueInv'
    BY <1>0, <1>1, <1>3, <2>9 DEF QueueInv
  <2>11. DataInv'
    <3>1. ASSUME refused' = 0 PROVE PipelineInv' /\ TimedInv'
      <4>1. PipelineInv
        BY <1>1, <3>1 DEF IndInv, DataInv
      <4>2. \A v \in AllWorkers : Executed(v)' = Executed(v)
        BY <1>1 DEF Executed
      <4> QED BY <1>1, <1>2, <2>1, <2>9, <4>1, <4>2 DEF PipelineInv, TimedInv, Warming
    <3> QED BY <3>1 DEF DataInv
  <2> QED BY <2>5, <2>6, <2>7, <2>8, <2>10, <2>11 DEF IndInv, ControlInv
<1>5. CASE ~ (i < num_workers)
  <2>1. /\ stage' = "spawn" /\ i' = 1 /\ at_t0' = finished /\ left' = left /\ pc' = pc
    BY <1>5 DEF NextWarmup
  <2>2. i = num_workers \/ i = num_workers + 1
    BY <1>0, <1>5, ArgumentAssumption DEF Types
  <2>3. Types'
    BY <1>0, <1>1, <2>1, ArgumentAssumption DEF Types
  <2>4. PhaseInv'
    BY <1>0, <1>1, <2>1, ArgumentAssumption, MainIsNoWorker DEF PhaseInv, Warming
  <2>5. LeftInv'
    BY <1>0, <1>1, <2>1 DEF LeftInv
  <2>6. \A v \in Workers : submitted[v] = 1 /\ left[v] = requests_per_worker
    <3> SUFFICES ASSUME NEW v \in Workers
                 PROVE  submitted[v] = 1 /\ left[v] = requests_per_worker
      OBVIOUS
    <3>1. left[v] = requests_per_worker
      BY <1>0, <1>1 DEF LeftInv, PhaseInv
    <3>2. v \in Nat \ {0} /\ v <= num_workers /\ i \in Workers /\ v <= i
      BY <1>0, <1>1, <2>2, ArgumentAssumption DEF PhaseInv, Warming, Workers
    <3>3. stage = "warmup" /\ left[Main] = 0
      BY <1>0, <1>1, <3>2, MainIsNoWorker DEF PhaseInv, LeftInv, Warming
    <3> QED BY <1>0, <1>1, <3>1, <3>2, <3>3, MainIsNoWorker DEF SubmittedInv
  <2>7. SubmittedInv'
    BY <1>1, <2>1, <2>6, ArgumentAssumption DEF SubmittedInv, Warming
  <2>8. \A v \in AllWorkers : Owes(v)' = 0 /\ Pending(v)' = 0
    <3> SUFFICES ASSUME NEW v \in AllWorkers PROVE Owes(v)' = 0 /\ Pending(v)' = 0
      OBVIOUS
    <3>1. CASE v \in Workers
      <4>1. Driver(v)' = v /\ v # Main /\ pc'[v] = "absent" /\ left'[v] = requests_per_worker
        BY <1>0, <1>1, <2>1, <2>6, <3>1, MainIsNoWorker DEF Driver, Warming, PhaseInv
      <4>2. Owes(v)' = 0
        BY <4>1 DEF Owes
      <4> QED BY <4>1, <4>2, ArgumentAssumption DEF Pending
    <3>2. CASE v = Solo /\ v \notin Workers
      <4>1. Driver(v)' = Main /\ pc'[Main] = "between"
        BY <1>1, <2>1, <3>2 DEF Driver
      <4> QED BY <4>1 DEF Owes, Pending
    <3> QED BY <3>1, <3>2, MainIsNoWorker
  <2>9. QueueInv'
    BY <1>0, <1>1, <1>3, <2>8 DEF QueueInv
  <2>10. DataInv'
    <3>1. ASSUME refused' = 0 PROVE PipelineInv' /\ TimedInv'
      <4>1. PipelineInv
        BY <1>1, <3>1 DEF IndInv, DataInv
      <4>2. \A v \in AllWorkers : Executed(v)' = Executed(v)
        BY <1>1 DEF Executed
      <4>3. PipelineInv'
        BY <1>1, <1>2, <2>1, <2>8, <4>1, <4>2 DEF PipelineInv
      <4>4. ASSUME NEW v \in Workers PROVE finished[v] = 1
        <5>1. v \in AllWorkers /\ submitted[v] = 1
          BY <2>6, MainIsNoWorker
        <5>2. d_x[v] \in Nat /\ d_out[v] \in Nat /\ finished[v] \in Nat
          BY <1>0, <5>1 DEF Types
        <5>3. d_x[v] + d_out[v] + finished[v] = 3
          BY <1>2, <1>3, <4>1, <5>1, <5>2 DEF PipelineInv, Executed
        <5> QED BY <4>1, <5>1, <5>2, <5>3 DEF PipelineInv
      <4> QED BY <1>1, <2>1, <4>3, <4>4 DEF TimedInv
    <3> QED BY <3>1 DEF DataInv
  <2> QED BY <2>3, <2>4, <2>5, <2>7, <2>9, <2>10 DEF IndInv, ControlInv
<1> QED BY <1>4, <1>5
(* The thread of the next worker starts; nothing else moves.               *)
LEMMA SpawnKeeps == ASSUME IndInv, Spawn PROVE IndInv'
<1>0. Types /\ PhaseInv /\ LeftInv /\ SubmittedInv /\ QueueInv
  BY DEF IndInv, ControlInv
<1>1. /\ stage = "spawn" /\ stage' = "spawn" /\ i \in Workers /\ i' = i + 1
      /\ pc' = [pc EXCEPT ![i] = IF requests_per_worker > 0 THEN "copy_in" ELSE "sync"]
      /\ left' = left /\ submitted' = submitted /\ stream' = stream /\ at_t0' = at_t0
      /\ refused' = refused /\ d_x' = d_x /\ d_out' = d_out /\ h_out' = h_out
      /\ finished' = finished /\ ~ Warming /\ ~ Warming'
  BY DEF Spawn, buffers, Warming
<1>2. i \in Nat /\ i >= 1 /\ i <= num_workers /\ i \in Agents
  BY <1>1, ArgumentAssumption DEF Workers, Agents
<1>3. /\ pc'[i] = IF requests_per_worker > 0 THEN "copy_in" ELSE "sync"
      /\ \A c \in Agents \ {i} : pc'[c] = pc[c]
      /\ pc' \in [Agents -> PCs]
  BY <1>0, <1>1, <1>2 DEF Types, PCs
<1>4. pc[i] = "absent" /\ left[i] = requests_per_worker
  BY <1>0, <1>1, <1>2 DEF PhaseInv, LeftInv
<1>5. Types'
  BY <1>0, <1>1, <1>2, <1>3, ArgumentAssumption DEF Types
<1>6. PhaseInv'
  <2>1. pc'[Main] = "between"
    BY <1>0, <1>1, <1>3, MainIsNoWorker DEF PhaseInv
  <2>2. ASSUME NEW c \in Workers PROVE pc'[c] # "between" /\ (pc'[c] = "absent" <=> c >= i')
    <3>1. CASE c = i
      BY <1>1, <1>2, <1>3, <3>1
    <3>2. CASE c # i
      BY <1>0, <1>1, <1>2, <1>3, <3>2, MainIsNoWorker DEF PhaseInv
    <3> QED BY <3>1, <3>2
  <2> QED BY <1>1, <1>2, <2>1, <2>2, ArgumentAssumption DEF PhaseInv
<1>7. LeftInv'
  <2>1. ASSUME NEW c \in Workers
        PROVE  /\ left'[c] <= requests_per_worker
               /\ pc'[c] = "absent" => left'[c] = requests_per_worker
               /\ pc'[c] = "copy_in" => left'[c] > 0
               /\ pc'[c] \in {"sync", "done"} => left'[c] = 0
    <3>1. CASE c = i
      BY <1>1, <1>3, <1>4, <3>1, ArgumentAssumption
    <3>2. CASE c # i
      BY <1>0, <1>1, <1>3, <3>2, MainIsNoWorker DEF LeftInv
    <3> QED BY <3>1, <3>2
  <2>2. pc'[Main] = pc[Main]
    BY <1>1, <1>3, MainIsNoWorker
  <2> QED BY <1>0, <1>1, <2>1, <2>2 DEF LeftInv
<1>8. SubmittedInv'
  BY <1>0, <1>1 DEF SubmittedInv
<1>9. \A v \in AllWorkers : Owes(v)' = Owes(v) /\ Pending(v)' = Pending(v)
  <2> SUFFICES ASSUME NEW v \in AllWorkers
               PROVE  Owes(v)' = Owes(v) /\ Pending(v)' = Pending(v)
    OBVIOUS
  <2>1. CASE v \in Workers
    <3>1. Driver(v) = v /\ Driver(v)' = v /\ WorkerOf(v) = v /\ WorkerOf(v)' = v /\ v # Main
      BY <1>1, <2>1, MainIsNoWorker DEF Driver, WorkerOf, Captured
    <3>2. CASE v = i
      BY <1>1, <1>3, <1>4, <3>1, <3>2 DEF Owes, Pending
    <3>3. CASE v # i
      BY <1>1, <1>3, <2>1, <3>1, <3>3, MainIsNoWorker DEF Owes, Pending
    <3> QED BY <3>2, <3>3
  <2>2. CASE v = Solo /\ v \notin Workers
    <3>1. Driver(v) = Main /\ Driver(v)' = Main /\ pc[Main] = "between" /\ pc'[Main] = "between"
      BY <1>0, <1>1, <1>3, <2>2, MainIsNoWorker DEF Driver, PhaseInv
    <3> QED BY <3>1 DEF Owes, Pending
  <2> QED BY <2>1, <2>2, MainIsNoWorker
<1>10. QueueInv'
  BY <1>0, <1>1, <1>9 DEF QueueInv
<1>11. DataInv'
  <2>1. ASSUME refused' = 0 PROVE PipelineInv' /\ TimedInv'
    <3>1. PipelineInv /\ TimedInv
      BY <1>1, <2>1 DEF IndInv, DataInv
    <3>2. \A v \in AllWorkers : Executed(v)' = Executed(v)
      BY <1>1 DEF Executed
    <3> QED BY <1>1, <1>9, <3>1, <3>2 DEF PipelineInv, TimedInv
  <2> QED BY <2>1 DEF DataInv
<1> QED BY <1>5, <1>6, <1>7, <1>8, <1>10, <1>11 DEF IndInv, ControlInv

LEMMA JoinKeeps == ASSUME IndInv, Join PROVE IndInv'
<1>0. Types /\ PhaseInv /\ LeftInv /\ SubmittedInv /\ QueueInv
  BY DEF IndInv, ControlInv
<1>1. /\ stage = "spawn" /\ stage' = "exited" /\ i \notin Workers
      /\ \A a \in Workers : pc[a] = "done"
      /\ UNCHANGED <<i, pc, left, submitted, stream, at_t0, refused, d_x, d_out, h_out, finished>>
      /\ ~ Warming /\ ~ Warming'
  BY DEF Join, buffers, Warming
<1>2. Types'
  BY <1>0, <1>1 DEF Types
<1>3. i = num_workers + 1
  BY <1>0, <1>1, ArgumentAssumption DEF PhaseInv, Workers
<1>4. PhaseInv'
  BY <1>0, <1>1, <1>3 DEF PhaseInv
<1>5. LeftInv'
  BY <1>0, <1>1 DEF LeftInv
<1>6. SubmittedInv'
  BY <1>0, <1>1 DEF SubmittedInv
<1>7. \A v \in AllWorkers : Owes(v)' = Owes(v) /\ Pending(v)' = Pending(v)
  <2> SUFFICES ASSUME NEW v \in AllWorkers
               PROVE  Owes(v)' = Owes(v) /\ Pending(v)' = Pending(v)
    OBVIOUS
  <2>1. Driver(v)' = Driver(v)
    BY <1>1 DEF Driver
  <2>2. \A a \in Agents : WorkerOf(a)' = WorkerOf(a)
    BY <1>1 DEF WorkerOf, Captured
  <2> QED BY <1>1, <2>1, <2>2, MainIsNoWorker DEF Owes, Pending, Driver
<1>8. QueueInv'
  BY <1>0, <1>1, <1>7 DEF QueueInv
<1>9. DataInv'
  <2>1. ASSUME refused' = 0 PROVE PipelineInv' /\ TimedInv'
    <3>1. PipelineInv /\ TimedInv
      BY <1>1, <2>1 DEF IndInv, DataInv
    <3>2. \A v \in AllWorkers : Executed(v)' = Executed(v)
      BY <1>1 DEF Executed
    <3> QED BY <1>1, <1>7, <3>1, <3>2 DEF PipelineInv, TimedInv
  <2> QED BY <2>1 DEF DataInv
<1> QED BY <1>2, <1>4, <1>5, <1>6, <1>8, <1>9 DEF IndInv, ControlInv

(* Which of the three operations of a request comes next, by how many were *)
(* executed.                                                               *)
LEMMA Thirds ==
    ASSUME NEW x \in Nat, NEW y \in Nat, NEW f \in Nat, NEW id \in Nat,
           f <= y, y <= x, x <= f + 1
    PROVE  /\ 3 * id - 2 = x + y + f + 1 => x = f /\ y = f /\ id = f + 1
           /\ 3 * id - 1 = x + y + f + 1 => x = f + 1 /\ y = f /\ id = f + 1
           /\ 3 * id - 0 = x + y + f + 1 => x = f + 1 /\ y = f + 1 /\ id = f + 1
<1>1. (x = f \/ x = f + 1) /\ (y = f \/ y = x)
  OBVIOUS
<1>2. CASE x = f /\ y = f
  <2>1. x + y + f + 1 = 3 * f + 1
    BY <1>2
  <2> QED BY <1>2, <2>1
<1>3. CASE x = f + 1 /\ y = f
  <2>1. x + y + f + 1 = 3 * f + 2
    BY <1>3
  <2> QED BY <1>3, <2>1
<1>4. CASE x = f + 1 /\ y = f + 1
  <2>1. x + y + f + 1 = 3 * f + 3
    BY <1>4
  <2> QED BY <1>4, <2>1
<1> QED BY <1>1, <1>2, <1>3, <1>4

(* The device takes the head of a stream: the next operation of a worker,  *)
(* whose buffers hold the data it needs.                                   *)
LEMMA ExecuteKeeps ==
    ASSUME IndInv, NEW s \in AllWorkers, Execute(s) PROVE IndInv'
<1>0. Types /\ PhaseInv /\ LeftInv /\ SubmittedInv /\ QueueInv
  BY DEF IndInv, ControlInv
<1>1. PICK o : o = Head(stream[s])
  OBVIOUS
<1>2. /\ stream[s] \in Seq(Operation) /\ stream[s] # << >> /\ o = stream[s][1] /\ o \in Operation
      /\ Len(stream[s]) \in Nat \ {0}
  <2>1. stream[s] \in Seq(Operation) /\ stream[s] # << >>
    BY <1>0 DEF Types, Execute
  <2> QED BY <1>1, <2>1
<1>3. o.worker = s
  BY <1>0, <1>2 DEF QueueInv
<1>4. /\ stage' = stage /\ i' = i /\ pc' = pc /\ left' = left
      /\ submitted' = submitted /\ at_t0' = at_t0 /\ refused' = refused
      /\ stream' = [stream EXCEPT ![s] = Tail(@)]
      /\ d_x' = IF o.op = "copy_in" THEN [d_x EXCEPT ![s] = o.id] ELSE d_x
      /\ d_out' = IF o.op = "infer" THEN [d_out EXCEPT ![s] = d_x[s]] ELSE d_out
      /\ h_out' = IF o.op = "copy_out" THEN [h_out EXCEPT ![s] = d_out[s]] ELSE h_out
      /\ finished' = IF o.op = "copy_out" THEN [finished EXCEPT ![s] = @ + 1] ELSE finished
  BY <1>1, <1>3 DEF Execute, host
<1>5. /\ stream'[s] = Tail(stream[s]) /\ Tail(stream[s]) \in Seq(Operation)
      /\ Len(stream'[s]) = Len(stream[s]) - 1
      /\ \A j \in 1 .. Len(stream'[s]) : stream'[s][j] = stream[s][j + 1] /\ j + 1 \in 1 .. Len(stream[s])
      /\ \A v \in AllWorkers \ {s} : stream'[v] = stream[v]
  <2>1. stream'[s] = Tail(stream[s]) /\ \A v \in AllWorkers \ {s} : stream'[v] = stream[v]
    BY <1>0, <1>4 DEF Types
  <2>2. /\ Tail(stream[s]) \in Seq(Operation) /\ Len(Tail(stream[s])) = Len(stream[s]) - 1
        /\ \A j \in 1 .. Len(Tail(stream[s])) : Tail(stream[s])[j] = stream[s][j + 1]
    BY <1>2, HeadTailProperties
  <2>3. \A j \in 1 .. Len(stream[s]) - 1 : j + 1 \in 1 .. Len(stream[s])
    BY <1>2
  <2> QED BY <2>1, <2>2, <2>3
<1>6. o.op \in {"copy_in", "infer", "copy_out"} /\ o.id \in Nat \ {0}
  BY <1>2 DEF Operation
<1>7. d_x[s] \in Nat /\ d_out[s] \in Nat /\ finished[s] \in Nat /\ h_out[s] \in Nat
  BY <1>0 DEF Types
<1>8. Types'
  <2>1. stream' \in [AllWorkers -> Seq(Operation)]
    BY <1>0, <1>4, <1>5 DEF Types
  <2>2. d_x' \in [AllWorkers -> Nat] /\ d_out' \in [AllWorkers -> Nat]
    BY <1>0, <1>4, <1>6, <1>7 DEF Types
  <2>3. h_out' \in [AllWorkers -> Nat] /\ finished' \in [AllWorkers -> Nat]
    BY <1>0, <1>4, <1>7 DEF Types
  <2> QED BY <1>0, <1>4, <2>1, <2>2, <2>3 DEF Types
<1>9. PhaseInv' /\ LeftInv' /\ SubmittedInv'
  BY <1>0, <1>4 DEF PhaseInv, LeftInv, SubmittedInv, Warming
<1>10. \A v \in AllWorkers : Owes(v)' = Owes(v) /\ Pending(v)' = Pending(v)
  BY <1>4 DEF Owes, Pending, Driver, Warming, WorkerOf, Captured
<1>11. QueueInv'
  <2> SUFFICES ASSUME NEW v \in AllWorkers
               PROVE  /\ Len(stream'[v]) <= Pending(v)'
                      /\ \A j \in 1 .. Len(stream'[v]) : stream'[v][j].worker = v
    BY DEF QueueInv
  <2>1. CASE v = s
    <3>1. Len(stream[s]) <= Pending(s) /\ Pending(s)' = Pending(s)
      BY <1>0, <1>10 DEF QueueInv
    <3>2. Pending(s) \in Int
      <4>1. left \in [Agents -> Nat] /\ requests_per_worker \in Nat /\ Owes(s) \in Nat
        BY <1>0, ArgumentAssumption DEF Types, Owes
      <4> QED BY <4>1, MainIsNoWorker DEF Pending, Driver
    <3>3. Len(stream'[s]) <= Pending(s)'
      BY <1>2, <1>5, <3>1, <3>2
    <3>4. \A j \in 1 .. Len(stream'[s]) : stream'[s][j].worker = s
      BY <1>0, <1>5 DEF QueueInv
    <3> QED BY <2>1, <3>3, <3>4
  <2>2. CASE v # s
    BY <1>0, <1>5, <1>10, <2>2 DEF QueueInv
  <2> QED BY <2>1, <2>2
<1>12. DataInv'
  <2> SUFFICES ASSUME refused' = 0 PROVE PipelineInv' /\ TimedInv'
    BY DEF DataInv
  <2>1. PipelineInv /\ TimedInv
    BY <1>4 DEF IndInv, DataInv
  <2>2. /\ h_out[s] = finished[s] /\ finished[s] <= d_out[s] /\ d_out[s] <= d_x[s]
        /\ d_x[s] <= finished[s] + 1
        /\ d_x[s] + d_out[s] + finished[s] + Len(stream[s]) = 3 * submitted[s] - Owes(s)
        /\ Rank(o) = d_x[s] + d_out[s] + finished[s] + 1
        /\ \A j \in 1 .. Len(stream[s]) :
              Rank(stream[s][j]) = d_x[s] + d_out[s] + finished[s] + j
    BY <1>2, <2>1 DEF PipelineInv, Executed
  <2>3. /\ h_out'[s] = finished'[s] /\ finished'[s] <= d_out'[s] /\ d_out'[s] <= d_x'[s]
        /\ d_x'[s] <= finished'[s] + 1
        /\ d_x'[s] + d_out'[s] + finished'[s] = d_x[s] + d_out[s] + finished[s] + 1
        /\ finished'[s] >= finished[s]
    <3>1. CASE o.op = "copy_in"
      <4>0. 3 * o.id - 2 = d_x[s] + d_out[s] + finished[s] + 1
        BY <2>2, <3>1 DEF Rank
      <4>3. \A x, y, f, id \in Nat :
              x = d_x[s] /\ y = d_out[s] /\ f = finished[s] /\ id = o.id =>
                x = f /\ y = f /\ id = f + 1
        <5>0. SUFFICES ASSUME NEW x \in Nat, NEW y \in Nat, NEW f \in Nat, NEW id \in Nat,
                              x = d_x[s], y = d_out[s], f = finished[s], id = o.id
                     PROVE x = f /\ y = f /\ id = f + 1
          OBVIOUS
        <5>1. f <= y /\ y <= x /\ x <= f + 1 /\ 3 * id - 2 = x + y + f + 1
          BY <2>2, <4>0, <5>0
        <5> QED BY <5>1, Thirds
      <4>1. d_x[s] = finished[s] /\ d_out[s] = finished[s] /\ o.id = finished[s] + 1
        BY <1>6, <1>7, <4>3
      <4>2. d_x'[s] = o.id /\ d_out' = d_out /\ h_out' = h_out /\ finished' = finished
        BY <1>0, <1>4, <3>1 DEF Types
      <4> QED BY <1>7, <2>2, <4>1, <4>2
    <3>2. CASE o.op = "infer"
      <4>0. 3 * o.id - 1 = d_x[s] + d_out[s] + finished[s] + 1
        BY <2>2, <3>2 DEF Rank
      <4>3. \A x, y, f, id \in Nat :
              x = d_x[s] /\ y = d_out[s] /\ f = finished[s] /\ id = o.id =>
                x = f + 1 /\ y = f /\ id = f + 1
        <5>0. SUFFICES ASSUME NEW x \in Nat, NEW y \in Nat, NEW f \in Nat, NEW id \in Nat,
                              x = d_x[s], y = d_out[s], f = finished[s], id = o.id
                     PROVE x = f + 1 /\ y = f /\ id = f + 1
          OBVIOUS
        <5>1. f <= y /\ y <= x /\ x <= f + 1 /\ 3 * id - 1 = x + y + f + 1
          BY <2>2, <4>0, <5>0
        <5> QED BY <5>1, Thirds
      <4>1. d_x[s] = finished[s] + 1 /\ d_out[s] = finished[s]
        BY <1>6, <1>7, <4>3
      <4>2. d_out'[s] = d_x[s] /\ d_x' = d_x /\ h_out' = h_out /\ finished' = finished
        BY <1>0, <1>4, <3>2 DEF Types
      <4> QED BY <1>7, <2>2, <4>1, <4>2
    <3>3. CASE o.op = "copy_out"
      <4>0. 3 * o.id - 0 = d_x[s] + d_out[s] + finished[s] + 1
        BY <2>2, <3>3 DEF Rank
      <4>3. \A x, y, f, id \in Nat :
              x = d_x[s] /\ y = d_out[s] /\ f = finished[s] /\ id = o.id =>
                x = f + 1 /\ y = f + 1 /\ id = f + 1
        <5>0. SUFFICES ASSUME NEW x \in Nat, NEW y \in Nat, NEW f \in Nat, NEW id \in Nat,
                              x = d_x[s], y = d_out[s], f = finished[s], id = o.id
                     PROVE x = f + 1 /\ y = f + 1 /\ id = f + 1
          OBVIOUS
        <5>1. f <= y /\ y <= x /\ x <= f + 1 /\ 3 * id - 0 = x + y + f + 1
          BY <2>2, <4>0, <5>0
        <5> QED BY <5>1, Thirds
      <4>1. d_x[s] = finished[s] + 1 /\ d_out[s] = finished[s] + 1
        BY <1>6, <1>7, <4>3
      <4>2. h_out'[s] = d_out[s] /\ finished'[s] = finished[s] + 1 /\ d_x' = d_x /\ d_out' = d_out
        BY <1>0, <1>4, <3>3 DEF Types
      <4> QED BY <1>7, <2>2, <4>1, <4>2
    <3> QED BY <1>6, <3>1, <3>2, <3>3
  <2>4. \A v \in AllWorkers \ {s} :
          /\ d_x'[v] = d_x[v] /\ d_out'[v] = d_out[v]
          /\ h_out'[v] = h_out[v] /\ finished'[v] = finished[v]
    BY <1>0, <1>4 DEF Types
  <2>5. PipelineInv'
    <3>1. /\ Executed(s) \in Int /\ Executed(s)' = Executed(s) + 1
          /\ Executed(s) + Len(stream[s]) = 3 * submitted[s] - Owes(s)
          /\ \A j \in 1 .. Len(stream[s]) : Rank(stream[s][j]) = Executed(s) + j
      <4>1. Executed(s) \in Int
        BY <1>7 DEF Executed
      <4>2. Executed(s)' = Executed(s) + 1
        BY <2>3 DEF Executed
      <4> QED BY <2>1, <4>1, <4>2 DEF PipelineInv
    <3>2. submitted'[s] = submitted[s] /\ Owes(s)' = Owes(s)
      BY <1>4, <1>10
    <3>3. Executed(s)' + Len(stream'[s]) = 3 * submitted'[s] - Owes(s)'
      BY <1>2, <1>5, <3>1, <3>2
    <3>4. ASSUME NEW j \in 1 .. Len(stream'[s])
          PROVE  Rank(stream'[s][j]) = Executed(s)' + j
      <4>1. stream'[s][j] = stream[s][j + 1] /\ j + 1 \in 1 .. Len(stream[s])
        BY <1>5
      <4>2. Rank(stream[s][j + 1]) = Executed(s) + (j + 1)
        BY <3>1, <4>1
      <4>3. j \in Int
        BY <1>2, <1>5
      <4> QED BY <3>1, <4>1, <4>2, <4>3
    <3>5. ASSUME NEW v \in AllWorkers \ {s}
          PROVE  Executed(v)' = Executed(v) /\ Owes(v)' = Owes(v)
                 /\ stream'[v] = stream[v] /\ submitted'[v] = submitted[v]
      BY <1>4, <1>5, <1>10, <2>4 DEF Executed
    <3> QED BY <2>1, <2>3, <2>4, <3>3, <3>4, <3>5 DEF PipelineInv
  <2>6. TimedInv'
    <3>1. ASSUME NEW v \in Workers, finished[v] >= 1 PROVE finished'[v] >= 1
      <4>1. CASE v = s
        BY <1>0, <1>4, <1>7, <3>1, <4>1 DEF Types
      <4>2. CASE v # s
        BY <2>4, <3>1, <4>2, MainIsNoWorker
      <4> QED BY <4>1, <4>2
    <3> QED BY <1>4, <2>1, <3>1 DEF TimedInv, Warming
  <2> QED BY <2>5, <2>6
<1> QED BY <1>8, <1>9, <1>11, <1>12 DEF IndInv, ControlInv

LEMMA InitKeeps == Init => IndInv
<1> SUFFICES ASSUME Init PROVE IndInv
  OBVIOUS
<1>1. \A w \in AllWorkers : Owes(w) = 0 /\ Pending(w) = 0
  BY MainIsNoWorker DEF Init, Owes, Pending, Driver, Warming, WorkerOf
<1>2. \A w \in AllWorkers : stream[w] = << >> /\ Len(stream[w]) = 0
  BY DEF Init
<1>3. Types
  <2>1. stream \in [AllWorkers -> Seq(Operation)]
    BY DEF Init
  <2>2. left \in [Agents -> Nat] /\ pc \in [Agents -> PCs] /\ refused \in 0 .. MaxRefused
        /\ i \in 0 .. num_workers + 1
    BY ArgumentAssumption DEF Init, PCs
  <2> QED BY <2>1, <2>2 DEF Init, Types
<1>4. PhaseInv
  BY MainIsNoWorker DEF Init, PhaseInv, Warming
<1>5. LeftInv
  BY MainIsNoWorker, ArgumentAssumption DEF Init, LeftInv
<1>6. SubmittedInv
  BY MainIsNoWorker DEF Init, SubmittedInv, Warming
<1>7. QueueInv
  BY <1>1, <1>2 DEF QueueInv
<1>8. PipelineInv /\ TimedInv
  BY <1>1, <1>2, MainIsNoWorker DEF Init, PipelineInv, Executed, TimedInv, Warming
<1> QED BY <1>3, <1>4, <1>5, <1>6, <1>7, <1>8 DEF IndInv, ControlInv, DataInv

LEMMA StutterKeeps == ASSUME IndInv, UNCHANGED vars PROVE IndInv'
<1>1. /\ stage' = stage /\ i' = i /\ pc' = pc /\ left' = left /\ submitted' = submitted
      /\ stream' = stream /\ d_x' = d_x /\ d_out' = d_out /\ h_out' = h_out
      /\ finished' = finished /\ at_t0' = at_t0 /\ refused' = refused
  BY DEF vars, host, buffers
<1>2. \A w : Owes(w)' = Owes(w) /\ Pending(w)' = Pending(w) /\ Executed(w)' = Executed(w)
  BY <1>1 DEF Owes, Pending, Executed, Driver, Warming, WorkerOf, Captured
<1>3. Types' /\ PhaseInv' /\ LeftInv' /\ SubmittedInv'
  BY <1>1 DEF IndInv, ControlInv, Types, PhaseInv, LeftInv, SubmittedInv, Warming
<1>4. QueueInv'
  BY <1>1, <1>2 DEF IndInv, ControlInv, QueueInv
<1>5. DataInv'
  BY <1>1, <1>2 DEF IndInv, DataInv, PipelineInv, TimedInv, Warming
<1> QED BY <1>3, <1>4, <1>5 DEF IndInv, ControlInv

LEMMA NextKeeps == IndInv /\ [Next]_vars => IndInv'
<1> SUFFICES ASSUME IndInv, [Next]_vars PROVE IndInv'
  OBVIOUS
<1>1. CASE NextWarmup
  BY <1>1, NextWarmupKeeps
<1>2. CASE Spawn
  BY <1>2, SpawnKeeps
<1>3. CASE Join
  BY <1>3, JoinKeeps
<1>4. ASSUME NEW a \in Agents, Agent(a) PROVE IndInv'
  BY <1>4, CopyInKeeps, EnterEnqueueKeeps, LeaveEnqueueKeeps, CopyOutKeeps, SyncKeeps DEF Agent
<1>5. ASSUME NEW s \in AllWorkers, Execute(s) PROVE IndInv'
  BY <1>5, ExecuteKeeps
<1>6. CASE UNCHANGED vars
  BY <1>6, StutterKeeps
<1> QED BY <1>1, <1>2, <1>3, <1>4, <1>5, <1>6 DEF Next, Exited

LEMMA Invariance == Spec => []IndInv
  BY InitKeeps, NextKeeps, PTL DEF Spec

(* The state has its types, and a stream never holds more than the         *)
(* operations of the requests between two waits: of one request while main *)
(* drives it, of all a thread's requests after t0.                         *)
THEOREM TypesHold == Spec => []TypeOK
<1>1. ASSUME IndInv PROVE TypeOK
  <2>1. Types /\ PhaseInv /\ LeftInv /\ QueueInv
    BY <1>1 DEF IndInv, ControlInv
  <2>2. ASSUME NEW w \in AllWorkers
        PROVE  Len(stream[w]) <= 3 * (IF stage = "spawn" THEN requests_per_worker ELSE 1)
    <3>1. Len(stream[w]) <= Pending(w) /\ Len(stream[w]) \in Nat /\ Owes(w) \in Nat
      BY <2>1 DEF QueueInv, Types, Owes
    <3>2. CASE Driver(w) # Main
      <4>1. w \in Workers /\ ~ Warming /\ left[w] \in Nat /\ requests_per_worker \in Nat
        BY <2>1, <3>2, MainIsNoWorker, ArgumentAssumption DEF Driver, Types
      <4>2. Pending(w) <= 3 * requests_per_worker
        BY <3>1, <3>2, <4>1 DEF Pending
      <4>3. stage = "spawn" \/ Pending(w) = 0
        BY <2>1, <3>2, <4>1 DEF Pending, PhaseInv, Types, Warming
      <4>4. Pending(w) \in Int
        BY <3>1, <3>2, <4>1 DEF Pending
      <4> QED BY <3>1, <4>1, <4>2, <4>3, <4>4
    <3>3. CASE Driver(w) = Main
      <4>1. Pending(w) \in Int /\ Pending(w) <= 3 /\ (~ Warming => Pending(w) = 0)
        BY <2>1, <3>1, <3>3 DEF Pending, PhaseInv
      <4>2. requests_per_worker \in Nat /\ (stage = "spawn" => ~ Warming)
        BY ArgumentAssumption DEF Warming
      <4> QED BY <3>1, <4>1, <4>2
    <3> QED BY <3>2, <3>3
  <2>3. \A f \in {submitted, d_x, d_out, h_out, finished, at_t0} : f \in [AllWorkers -> Nat]
    BY <2>1 DEF Types
  <2> QED BY <2>1, <2>2, <2>3 DEF Types, TypeOK, Operation, PCs
<1> QED BY <1>1, Invariance, PTL

(* Main and the threads never share a phase, and a thread has a worker of  *)
(* its own: a context is never inside two enqueueV3 calls at once.         *)
THEOREM ContextsExclusive == Spec => []ContextExclusive
<1>1. ASSUME IndInv PROVE ContextExclusive
  <2> SUFFICES ASSUME NEW a \in Agents, NEW b \in Agents, a # b,
                      pc[a] = "enqueuing", pc[b] = "enqueuing"
               PROVE  WorkerOf(a) # WorkerOf(b)
    BY DEF ContextExclusive
  <2> QED BY <1>1, AtWork DEF IndInv, ControlInv
<1> QED BY <1>1, Invariance, PTL

\* The executed operations of a worker that owes none and waits for none.
LEMMA AllExecuted ==
    ASSUME IndInv, refused = 0, NEW w \in AllWorkers, stream[w] = << >>, Owes(w) = 0
    PROVE  finished[w] = submitted[w]
<1>1. /\ d_x[w] \in Nat /\ d_out[w] \in Nat /\ finished[w] \in Nat /\ submitted[w] \in Nat
      /\ finished[w] <= d_out[w] /\ d_out[w] <= d_x[w] /\ d_x[w] <= finished[w] + 1
      /\ d_x[w] + d_out[w] + finished[w] + Len(stream[w]) = 3 * submitted[w] - Owes(w)
  BY DEF IndInv, ControlInv, DataInv, Types, PipelineInv, Executed
<1>2. PICK x \in Nat, y \in Nat, f \in Nat, n \in Nat :
        x = d_x[w] /\ y = d_out[w] /\ f = finished[w] /\ n = submitted[w]
  BY <1>1
<1>3. f <= y /\ y <= x /\ x <= f + 1 /\ x + y + f = 3 * n
  BY <1>1, <1>2
<1>4. 3 * (n + 1) - 2 = x + y + f + 1
  BY <1>3
<1>5. n + 1 = f + 1
  BY <1>3, <1>4, Thirds
<1> QED BY <1>2, <1>5

(* Every stage of a request works on that request's data, though the       *)
(* buffers are reused by every request outstanding on the stream; and a    *)
(* drained stream has produced every result asked for.                     *)
THEOREM ResultsOrdered == Spec => []ResultsInOrder
<1>1. ASSUME IndInv PROVE ResultsInOrder
  <2> SUFFICES ASSUME refused = 0, NEW w \in AllWorkers
               PROVE  /\ \A j \in 1 .. Len(stream[w]) - 1 :
                           stream[w][j].id <= stream[w][j + 1].id
                      /\ h_out[w] = finished[w]
                      /\ stream[w] = << >> /\ ~MidRequest(w) => h_out[w] = submitted[w]
    BY DEF ResultsInOrder
  <2>1. Types /\ PipelineInv
    BY <1>1 DEF IndInv, ControlInv, DataInv
  <2>2. ASSUME NEW j \in 1 .. Len(stream[w]) - 1
        PROVE  stream[w][j].id <= stream[w][j + 1].id
    <3>1. stream[w] \in Seq(Operation) /\ Executed(w) \in Int
      BY <2>1 DEF Types, Executed
    <3>2. j \in 1 .. Len(stream[w]) /\ j + 1 \in 1 .. Len(stream[w]) /\ j \in Int
      BY <3>1
    <3>3. stream[w][j] \in Operation /\ stream[w][j + 1] \in Operation
      BY <3>1, <3>2
    <3>4. PICK p \in Operation, q \in Operation : p = stream[w][j] /\ q = stream[w][j + 1]
      BY <3>3
    <3>5. Rank(p) = Executed(w) + j /\ Rank(q) = Executed(w) + (j + 1)
      BY <2>1, <3>2, <3>4 DEF PipelineInv
    <3>6. p.id \in Nat /\ q.id \in Nat
      BY DEF Operation
    <3>7. 3 * p.id <= Rank(p) + 2 /\ Rank(q) <= 3 * q.id
      BY <3>6 DEF Rank
    <3>8. p.id <= q.id
      BY <3>1, <3>2, <3>5, <3>6, <3>7
    <3> QED BY <3>4, <3>8
  <2>3. h_out[w] = finished[w]
    BY <2>1 DEF PipelineInv
  <2>4. ASSUME stream[w] = << >>, ~ MidRequest(w) PROVE h_out[w] = submitted[w]
    <3>1. Driver(w) \in Agents
      BY MainIsNoWorker DEF Driver
    <3>2. Owes(w) = 0
      BY <2>4, <3>1 DEF Owes, MidRequest
    <3> QED BY <1>1, <2>3, <2>4, <3>2, AllExecuted
  <2> QED BY <2>2, <2>3, <2>4
<1> QED BY <1>1, Invariance, PTL

(* What the throughput figure rests on: one request of each worker has run *)
(* to its end when t0 is read, and exactly requests_per_worker more have   *)
(* when the clock is read again.                                           *)
THEOREM TimedWorkExact == Spec => []TimedWorkIsExact
<1>1. ASSUME IndInv PROVE TimedWorkIsExact
  <2> SUFFICES ASSUME refused = 0
               PROVE  /\ stage = "spawn" \/ stage = "exited" =>
                           \A w \in Workers : at_t0[w] = 1 /\ h_out[w] >= 1
                      /\ stage = "exited" =>
                           \A w \in Workers :
                             finished[w] - at_t0[w] = requests_per_worker
                             /\ stream[w] = << >>
    BY DEF TimedWorkIsExact
  <2>1. Types /\ PhaseInv /\ LeftInv /\ SubmittedInv /\ QueueInv /\ PipelineInv /\ TimedInv
    BY <1>1 DEF IndInv, ControlInv, DataInv
  <2>2. ASSUME stage = "spawn" \/ stage = "exited", NEW w \in Workers
        PROVE  at_t0[w] = 1 /\ h_out[w] >= 1
    BY <2>1, <2>2, MainIsNoWorker DEF TimedInv, PipelineInv, Warming
  <2>3. ASSUME stage = "exited", NEW w \in Workers
        PROVE  finished[w] - at_t0[w] = requests_per_worker /\ stream[w] = << >>
    <3>1. ~ Warming /\ pc[w] = "done" /\ Driver(w) = w /\ w # Main /\ w \in AllWorkers
      BY <2>1, <2>3, MainIsNoWorker DEF PhaseInv, Warming, Driver
    <3>2. Owes(w) = 0 /\ Pending(w) = 0
      BY <3>1 DEF Owes, Pending
    <3>3. stream[w] \in Seq(Operation) /\ Len(stream[w]) <= 0
      BY <2>1, <3>1, <3>2 DEF Types, QueueInv
    <3>4. stream[w] = << >>
      BY <3>3
    <3>5. submitted[w] = 1 + requests_per_worker - 0
      BY <2>1, <3>1 DEF LeftInv, SubmittedInv
    <3>6. finished[w] = 1 + requests_per_worker
      BY <1>1, <3>1, <3>2, <3>4, <3>5, AllExecuted, ArgumentAssumption
    <3> QED BY <2>2, <2>3, <3>4, <3>6, ArgumentAssumption
  <2> QED BY <2>2, <2>3
<1> QED BY <1>1, Invariance, PTL
=============================================================================
