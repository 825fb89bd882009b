------------------------------ MODULE Encoder ------------------------------
(***************************************************************************)
(* The embedding model's forward pass over its pool of threads             *)
(* (engine/src/encoder.c), and the requests that want it                   *)
(* (embeddings_route, engine/src/api.c).  A pass is a row of stages, each a*)
(* run of tasks on the pool's threads and the caller's; what a stage reads,*)
(* the stages before it wrote, so none may begin while one of those still  *)
(* runs.  The pool knows one run at a time, and embed_lock lets one request*)
(* have it.                                                                *)
(*                                                                         *)
(* What a stage computes is left out: a vector is the text it is of.  The  *)
(* steps that are atomic are those made with the pool's lock held.         *)
(***************************************************************************)
EXTENDS Integers, Sequences

CONSTANTS
  NWorkers,    \* the threads the pool tries to start besides the caller
  Callers,     \* the connections' threads, each with one request
  Asks,        \* what they may ask, per caller: [shape, lens], lens the tokens of each text
  MaxInputs,   \* EMBED_MAX_INPUTS
  MaxTokens,   \* cfg.max_tokens
  MaxTotal,    \* EMBED_MAX_TOKENS
  PassRows,    \* PASS_ROWS
  RowChunk,    \* ROW_CHUNK
  Layers, Heads, HiddenTasks, MlpTasks,  \* the model's shape; a dense layer's tasks, of DENSE_CHUNK columns
  EncoderFaults,  \* some of "thread", "memory", "value"
  NoTask

Workers == 1 .. NWorkers
Threads == Workers \cup Callers

EncoderAssumption ==
  /\ NWorkers \in Nat /\ Callers \cap Workers = {}
  /\ {MaxInputs, MaxTokens, MaxTotal, PassRows, RowChunk, Layers, Heads, HiddenTasks, MlpTasks} \subseteq Nat \ {0}

VARIABLES
  workers,  \* how many threads the pool has
  run,      \* fn and ctx: the stage of a pass that is run, <<caller, stage>>
  tasks, next, finished, round, stop,   \* the pool's, by these names
  seen,     \* per worker: the round it saw last
  pc,       \* per thread
  doing,    \* per thread: <<run, task>>, or NoTask
  body,     \* per caller: what it asks
  owner,    \* embed_lock: who has it
  first,    \* per caller: t0, the first text of its pass; texts before it are done
  plan,     \* per caller: how many tasks each stage of its pass has
  stage,    \* per caller: the stage it is at
  ended,    \* per caller: history, the tasks of its pass that have ended, <<stage, task>>
  out,      \* per caller: the vectors
  reply     \* per caller: the status it was answered with, 0 until then

pool == <<workers, run, tasks, next, finished, round, stop, seen>>
requests == <<body, owner, first, plan, stage, ended, out, reply>>
vars == <<pool, pc, doing, requests>>

Total(s) == LET sum[k \in 0 .. Len(s)] == IF k = 0 THEN 0 ELSE sum[k - 1] + s[k] IN sum[Len(s)]

-----------------------------------------------------------------------------
(* Passes *)

\* The first text past the pass that begins at text t0: as many as fit, and one at least.
PassEnd(lens, t0) ==
  LET fits == {t \in t0 + 1 .. Len(lens) : Total(SubSeq(lens, t0, t)) <= PassRows}
  IN  IF fits = {} THEN t0 + 1 ELSE (CHOOSE t \in fits : \A u \in fits : u <= t) + 1

\* run_pass: how many tasks each stage has, for n texts of so many rows.
Layer(n, rows) ==
  LET row_tasks == (rows + RowChunk - 1) \div RowChunk
  IN  <<HiddenTasks, HiddenTasks, HiddenTasks,  \* q, k, v
        n * Heads,                              \* attention_task
        HiddenTasks, row_tasks,                 \* o, add_norm_attn_task
        MlpTasks, row_tasks,                    \* up, gelu_task
        HiddenTasks, row_tasks>>                \* down, add_norm_out_task
Stages(lens, t0) ==
  LET texts == SubSeq(lens, t0, PassEnd(lens, t0) - 1)
      layer == Layer(Len(texts), Total(texts))
  IN  [s \in 1 .. 1 + Layers * Len(layer) |-> IF s = 1 THEN Len(texts) ELSE layer[1 + ((s - 2) % Len(layer))]]

\* A text is a token at least (encoder.c:640).
PassAssumption == \A asked \in Asks, c \in Callers : asked[c].lens \in Seq(Nat \ {0})

-----------------------------------------------------------------------------
(* The pool *)

Wake(p, state, woken) == [t \in Threads |-> IF p[t] = state THEN woken ELSE p[t]]

\* Mutant: the caller goes on when there is no task left to draw.
TakeAndGo(t, p, r, k, n, f) ==
  IF k < n THEN [pc |-> [p EXCEPT ![t] = "runs"], doing |-> [doing EXCEPT ![t] = <<r, k>>], next |-> k + 1]
  ELSE [pc |-> [p EXCEPT ![t] = IF t \in Workers THEN "asleep" ELSE "over"], doing |-> [doing EXCEPT ![t] = NoTask], next |-> k]

\* take_tasks, with the lock held: the thread draws a task of run r if there is
\* one left of n, with k drawn; if not, a worker waits for the next run and the
\* caller until f, the tasks that have ended, is all of them.
Take(t, p, r, k, n, f) ==
  IF k < n THEN [pc |-> [p EXCEPT ![t] = "runs"], doing |-> [doing EXCEPT ![t] = <<r, k>>], next |-> k + 1]
  ELSE [pc |-> [p EXCEPT ![t] = IF t \in Workers THEN "asleep" ELSE IF f < n THEN "waits" ELSE "over"],
        doing |-> [doing EXCEPT ![t] = NoTask], next |-> k]

Taken(took) == pc' = took.pc /\ doing' = took.doing /\ next' = took.next

\* pool_worker: begun, or woken, it has the lock.
Look(w) ==
  /\ pc[w] \in {"begun", "woken"}
  /\ IF stop \/ round = seen[w]
     THEN pc' = [pc EXCEPT ![w] = IF stop THEN "gone" ELSE "asleep"] /\ UNCHANGED <<next, seen, doing>>
     ELSE seen' = [seen EXCEPT ![w] = round] /\ Taken(Take(w, pc, run, next, tasks, finished))
  /\ UNCHANGED <<workers, run, tasks, finished, round, stop, requests>>

\* Mutant: finished++ == tasks, the count compared before the task is in it.
LastUncounted == finished = tasks

\* ++finished == tasks
LastEnded == finished + 1 = tasks

\* A task ends and is counted, and the thread that ran it takes the next.
End(t) ==
  /\ pc[t] = "runs"
  /\ LET r == doing[t][1]
     IN  ended' = [ended EXCEPT ![r[1]] = @ \cup {<<r[2], doing[t][2]>>}]
  /\ finished' = finished + 1
  /\ Taken(Take(t, IF LastEnded THEN Wake(pc, "waits", "checks") ELSE pc, run, next, tasks, finished + 1))
  /\ UNCHANGED <<workers, run, tasks, round, stop, seen, body, owner, first, plan, stage, out, reply>>

Check(c) ==
  /\ pc[c] = "checks"
  /\ pc' = [pc EXCEPT ![c] = IF finished < tasks THEN "waits" ELSE "over"]
  /\ UNCHANGED <<pool, doing, requests>>

\* pool_run: with no thread to share it, or a task alone, the caller runs it in order.
PoolRun(c) ==
  /\ pc[c] = "stage"
  /\ LET n == plan[c][stage[c]]
         this == <<c, stage[c]>>
     IN  \/ /\ workers = 0 \/ n <= 1
            /\ doing' = [doing EXCEPT ![c] = <<this, 0>>]
            /\ pc' = [pc EXCEPT ![c] = "alone"]
            /\ UNCHANGED pool
         \/ /\ workers > 0 /\ n > 1
            /\ run' = this /\ tasks' = n /\ finished' = 0 /\ round' = round + 1
            /\ Taken(Take(c, Wake(pc, "asleep", "woken"), this, 0, n, 0))
            /\ UNCHANGED <<workers, stop, seen>>
  /\ UNCHANGED requests

EndAlone(c) ==
  /\ pc[c] = "alone"
  /\ LET n == plan[c][stage[c]]
         task == doing[c][2]
     IN  /\ ended' = [ended EXCEPT ![c] = @ \cup {<<stage[c], task>>}]
         /\ doing' = [doing EXCEPT ![c] = IF task + 1 < n THEN <<@[1], task + 1>> ELSE NoTask]
         /\ pc' = [pc EXCEPT ![c] = IF task + 1 < n THEN "alone" ELSE "over"]
  /\ UNCHANGED <<pool, body, owner, first, plan, stage, out, reply>>

-----------------------------------------------------------------------------
(* A request *)

\* embeddings_route up to the lock: the status a body is refused with, or 0.
Refusal(b) ==
  CASE b.shape = "other_model" -> 404
    [] b.shape \in {"not_object", "bad_field", "no_input", "not_text"} -> 400
    [] OTHER -> IF Len(b.lens) \notin 1 .. MaxInputs \/ (\E i \in DOMAIN b.lens : b.lens[i] > MaxTokens) \/ Total(b.lens) > MaxTotal
                THEN 400 ELSE 0

Answer(c, status) == reply' = [reply EXCEPT ![c] = status]

Ask(c) ==
  /\ pc[c] = "begin"
  /\ \/ Refusal(body[c]) # 0 /\ Answer(c, Refusal(body[c])) /\ pc' = [pc EXCEPT ![c] = "answered"]
     \/ Refusal(body[c]) = 0 /\ "memory" \in EncoderFaults /\ Answer(c, 500) /\ pc' = [pc EXCEPT ![c] = "answered"]
     \/ Refusal(body[c]) = 0 /\ pc' = [pc EXCEPT ![c] = "locks"] /\ UNCHANGED reply
  /\ UNCHANGED <<pool, doing, body, owner, first, plan, stage, ended, out>>

Lock(c) ==
  /\ pc[c] = "locks"
  /\ owner = {}
  /\ owner' = {c}
  /\ pc' = [pc EXCEPT ![c] = "pass"]
  /\ UNCHANGED <<pool, doing, body, first, plan, stage, ended, out, reply>>

\* vitna_encoder_embed: the next pass, unless all the texts are done; one
\* there is no memory for fails the request.
Pass(c) ==
  /\ pc[c] = "pass"
  /\ LET done == first[c] > Len(body[c].lens)
     IN  \/ /\ ~done
            /\ plan' = [plan EXCEPT ![c] = Stages(body[c].lens, first[c])]
            /\ stage' = [stage EXCEPT ![c] = 1] /\ ended' = [ended EXCEPT ![c] = {}]
            /\ pc' = [pc EXCEPT ![c] = "stage"]
            /\ UNCHANGED <<owner, reply>>
         \/ /\ done \/ "memory" \in EncoderFaults
            /\ owner' = {}
            /\ \/ done /\ Answer(c, 200)
               \/ (~done \/ "value" \in EncoderFaults) /\ Answer(c, 500)
            /\ pc' = [pc EXCEPT ![c] = "answered"]
            /\ UNCHANGED <<plan, stage, ended>>
  /\ UNCHANGED <<pool, doing, body, first, out>>

\* A stage is over: the next, or each text's vector is pooled from its rows.
Over(c) ==
  /\ pc[c] = "over"
  /\ LET end == PassEnd(body[c].lens, first[c])
     IN  IF stage[c] < Len(plan[c])
         THEN /\ stage' = [stage EXCEPT ![c] = @ + 1]
              /\ pc' = [pc EXCEPT ![c] = "stage"]
              /\ UNCHANGED <<first, out>>
         ELSE /\ out' = [out EXCEPT ![c] = @ \o [i \in 1 .. end - first[c] |-> <<c, first[c] + i - 1>>]]
              /\ first' = [first EXCEPT ![c] = end]
              /\ pc' = [pc EXCEPT ![c] = "pass"]
              /\ UNCHANGED stage
  /\ UNCHANGED <<pool, doing, body, owner, plan, ended, reply>>

\* pool_free, once the server has returned and so every request is answered.
Free ==
  /\ ~stop /\ \A c \in Callers : pc[c] = "answered"
  /\ stop' = TRUE
  /\ pc' = Wake(pc, "asleep", "woken")
  /\ UNCHANGED <<workers, run, tasks, next, finished, round, seen, doing, requests>>

-----------------------------------------------------------------------------
\* pool_create starts what threads it can.
Init ==
  /\ workers \in (IF "thread" \in EncoderFaults THEN 0 .. NWorkers ELSE {NWorkers})
  /\ run = <<>> /\ tasks = 0 /\ next = 0 /\ finished = 0 /\ round = 0 /\ stop = FALSE
  /\ seen = [w \in Workers |-> 0]
  /\ pc = [t \in Threads |-> IF t \in Callers THEN "begin" ELSE IF t <= workers THEN "begun" ELSE "gone"]
  /\ doing = [t \in Threads |-> NoTask]
  /\ body \in Asks
  /\ owner = {}
  /\ first = [c \in Callers |-> 1] /\ plan = [c \in Callers |-> <<>>] /\ stage = [c \in Callers |-> 0]
  /\ ended = [c \in Callers |-> {}] /\ out = [c \in Callers |-> <<>>] /\ reply = [c \in Callers |-> 0]

Freed == stop /\ \A w \in Workers : pc[w] = "gone"

Request(c) == Ask(c) \/ Lock(c) \/ Pass(c) \/ PoolRun(c) \/ EndAlone(c) \/ End(c) \/ Check(c) \/ Over(c)
Worker(w) == Look(w) \/ End(w)

Next ==
  \/ \E c \in Callers : Request(c)
  \/ \E w \in Workers : Worker(w)
  \/ Free
  \/ Freed /\ UNCHANGED vars

\* Every thread goes on, and every task ends.
Fairness == (\A c \in Callers : WF_vars(Request(c))) /\ (\A w \in Workers : WF_vars(Worker(w))) /\ WF_vars(Free)

Spec == Init /\ [][Next]_vars /\ Fairness

-----------------------------------------------------------------------------
(* Properties *)

\* Every task of the first n stages of c's pass has ended.
AllEnded(c, n) == \A s \in 1 .. n : \A i \in 0 .. plan[c][s] - 1 : <<s, i>> \in ended[c]

\* While a thread runs a task of a stage, every task of the stages before it has
\* ended, and what other threads run is of the same stage: no task of another
\* request, none twice.  When a pass's vectors are pooled all of it has been run,
\* and a request answered with vectors has its texts' in their order
\* (encoder.c pool_run, run_pass, vitna_encoder_embed; api.c embeddings_route).
StagesInOrder ==
  /\ \A t \in Threads : doing[t] # NoTask =>
       LET r == doing[t][1]
       IN  /\ AllEnded(r[1], r[2] - 1)
           /\ <<r[2], doing[t][2]>> \notin ended[r[1]]
           /\ \A u \in Threads \ {t} : doing[u] # NoTask => doing[u][1] = r /\ doing[u][2] # doing[t][2]
  /\ \A c \in Callers :
       /\ pc[c] = "pass" => AllEnded(c, Len(plan[c]))
       /\ reply[c] = 200 => out[c] = [i \in DOMAIN body[c].lens |-> <<c, i>>]

\* Every request is answered, and the pool's threads end once they all are.
EmbedsEnd == <>Freed
=============================================================================
