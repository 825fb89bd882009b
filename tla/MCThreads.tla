----------------------------- MODULE MCThreads -----------------------------
(* The four places where the engine's threads meet, each with a few threads:  *)
(* the pool that runs a job's tasks, the threads that take a round's tokens,  *)
(* the encoder's pool, and the connections of the server; and the sampler,    *)
(* which each thread that takes a token has to itself.  They share nothing,   *)
(* so one of them runs while the others are where they have ended.  Those with*)
(* a module of proofs are taken with it, for MCThreadsProofs to cite.         *)
EXTENDS ThreadPool, TLC

CONSTANTS Takers, MaxLive, MaxRounds, Clients, MaxConnections, Faults, EncoderFaults, a, b, c, d, e

VARIABLES
  t_started, t_n, t_next, t_pending, t_round, t_jobs, t_stop, t_seen, t_pc, t_mine, t_sampler, t_rng, t_due,
  active, lost, s_pc, s_mine, at,
  workers, run, tasks, e_next, e_finished, e_round, e_stop, e_seen, e_pc, e_doing, body, owner, first, plan, stage, ended, out, reply,
  probs, cfg, order, unit, keep, drawn

Take == INSTANCE TakePool WITH
  started <- t_started, n <- t_n, next <- t_next, pending <- t_pending, round <- t_round,
  pool_jobs <- t_jobs, stop <- t_stop, seen <- t_seen, pc <- t_pc, mine <- t_mine,
  sampler <- t_sampler, rng <- t_rng, due <- t_due

Connections == INSTANCE Server WITH pc <- s_pc, mine <- s_mine

Embed(lens) == [shape |-> "texts", lens |-> lens]
NoText(shape) == [shape |-> shape, lens |-> <<>>]

\* A request of two passes beside a short one; and some that are refused.
EncoderAsks ==
  {(a :> Embed(<<1, 2, 1>>) @@ b :> Embed(<<1>>)), (a :> NoText("other_model") @@ b :> Embed(<<4>>)),
   (a :> NoText("not_object") @@ b :> Embed(<<2, 2, 1>>)), (a :> NoText("texts") @@ b :> Embed(<<1, 1, 1, 1>>))}

Texts == INSTANCE EncoderProofs WITH
  NWorkers <- 2, Callers <- {a, b}, Asks <- EncoderAsks, MaxInputs <- 3, MaxTokens <- 3, MaxTotal <- 4, PassRows <- 3,
  RowChunk <- 2, Layers <- 1, Heads <- 1, HiddenTasks <- 1, MlpTasks <- 3,
  next <- e_next, finished <- e_finished, round <- e_round, stop <- e_stop, seen <- e_seen, pc <- e_pc, doing <- e_doing

\* Probabilities of five bits, sorted two bits at a time.
MCProbs == {0, 3, 4, 16, 31}
MCRows == {<<x, y, z>> : x \in MCProbs, y \in MCProbs, z \in MCProbs} \ {<<0, 0, 0>>}
Coldest == [hot |-> FALSE, top_k |-> 1, top_p |-> 5]
MCSettings == [hot : {TRUE}, top_k : 0 .. 3, top_p : {0, 1, 3, 5}] \cup {Coldest}

Sampling == INSTANCE SamplerProofs WITH KEYS <- 32, RADIX_SIZE <- 4, WHOLE <- 5, Rows <- MCRows, Settings <- MCSettings

ASSUME Assumptions ==
  /\ Texts!EncoderAssumption /\ Texts!PassAssumption /\ Take!TakeAssumption /\ Connections!ServerAssumption
  /\ Sampling!SamplerAssumption

takers == <<t_started, t_n, t_next, t_pending, t_round, t_jobs, t_stop, t_seen, t_pc, t_mine, t_sampler, t_rng, t_due>>
connections == <<active, lost, s_pc, s_mine, at>>
texts ==
  <<workers, run, tasks, e_next, e_finished, e_round, e_stop, e_seen, e_pc, e_doing, body, owner, first, plan, stage, ended, out, reply>>
draws == <<probs, cfg, order, unit, keep, drawn>>
MCvars == <<vars, takers, connections, texts, draws>>

PoolFreed ==
  /\ n_started = 0 /\ job = 0 /\ task = 0 /\ n = 0 /\ next = 0 /\ finished = 0 /\ stop = TRUE
  /\ seen = [h \in Helpers |-> 0] /\ pc = [t \in Threads |-> IF t = Caller THEN "freed" ELSE "unborn"]
  /\ i = [t \in Threads |-> 0] /\ doing = [t \in Threads |-> NoTask] /\ called = {}

TakersStopped ==
  /\ t_started = 0 /\ t_n = 0 /\ t_next = 0 /\ t_pending = 0 /\ t_round = 0 /\ t_stop = TRUE
  /\ t_jobs = [k \in Take!Jobs |-> Take!NoJob] /\ t_seen = [w \in Take!Workers |-> 0]
  /\ t_pc = [t \in Take!Threads |-> IF t = Take!Scheduler THEN "idle" ELSE "unborn"]
  /\ t_mine = [t \in Take!Threads |-> Take!NoJob] /\ t_sampler = [t \in Take!Threads |-> <<Take!NoJob, 0>>]
  /\ t_rng = [j \in Take!Jobs |-> <<j, 0>>] /\ t_due = [j \in Take!Jobs |-> 0]

ServerFreed ==
  active = 0 /\ lost = TRUE /\ s_pc = "freed" /\ s_mine = {} /\ at = [k \in Clients |-> "closed"]

EncoderFreed ==
  /\ workers = 0 /\ run = <<>> /\ tasks = 0 /\ e_next = 0 /\ e_finished = 0 /\ e_round = 0 /\ e_stop = TRUE
  /\ e_seen = [w \in Texts!Workers |-> 0] /\ e_pc = [t \in Texts!Threads |-> IF t \in {a, b} THEN "answered" ELSE "gone"]
  /\ e_doing = [t \in Texts!Threads |-> NoTask]
  /\ LET Each(v) == [t \in {a, b} |-> v]
     IN  /\ body = (a :> NoText("other_model") @@ b :> Embed(<<4>>)) /\ owner = {} /\ first = Each(1) /\ plan = Each(<<>>) /\ stage = Each(0)
         /\ ended = Each({}) /\ out = Each(<<>>) /\ reply = Each(400)

Sampled ==
  /\ probs = <<3, 0, 0>> /\ cfg = Coldest /\ order = <<1, 2, 3>> /\ unit = 1 /\ keep = 0
  /\ drawn = [u \in 1 .. 5 |-> 1]

MCInit ==
  \/ Init /\ TakersStopped /\ ServerFreed /\ EncoderFreed /\ Sampled
  \/ PoolFreed /\ Take!Init /\ ServerFreed /\ EncoderFreed /\ Sampled
  \/ PoolFreed /\ TakersStopped /\ Connections!Init /\ EncoderFreed /\ Sampled
  \/ PoolFreed /\ TakersStopped /\ ServerFreed /\ Texts!Init /\ Sampled
  \/ PoolFreed /\ TakersStopped /\ ServerFreed /\ EncoderFreed /\ Sampling!Init

MCNext ==
  \/ Next /\ UNCHANGED <<takers, connections, texts, draws>>
  \/ Take!Next /\ UNCHANGED <<vars, connections, texts, draws>>
  \/ Connections!Next /\ UNCHANGED <<vars, takers, texts, draws>>
  \/ Texts!Next /\ UNCHANGED <<vars, takers, connections, draws>>
  \/ Sampling!Next /\ UNCHANGED <<vars, takers, connections, texts>>

MCSpec ==
  /\ MCInit /\ [][MCNext]_MCvars
  /\ Fairness /\ Take!Fairness /\ Connections!Fairness /\ Texts!Fairness /\ Sampling!Fairness

\* The parts' properties, those on one question together.
DrawsAreOwn == Take!DrawsAreOwn /\ Take!ListedInQuiet
OpenIsCounted == Connections!OpenIsCounted /\ Connections!ReturnsQuiet
StagesInOrder == Texts!StagesInOrder
DrawnByShare == Sampling!DrawnByShare

\* Whatever threads there are, each run returns, each round of drawing ends,
\* each embedding request is answered and the encoder's pool freed, and each
\* call of the sampler draws.
WorkEnds == RunsReturn /\ Take!RoundsEnd /\ Texts!EmbedsEnd /\ Sampling!DrawEnds

\* Every connection is answered or refused, and a lost GPU stops the server.
ConnectionsEnd == Connections!EveryConnectionEnds /\ Connections!LostStops
=============================================================================
