------------------------------ MODULE TakePool ------------------------------
(***************************************************************************)
(* The threads a round's requests take their tokens on (engine/src/api.c,  *)
(* take_all and worker).  The scheduler, which is thread 0, hands a round's*)
(* jobs to the workers under pool_lock and takes jobs itself until none is *)
(* left, then waits for the last.  Each thread has a sampler, whose state  *)
(* is that of the request it is taking for: loaded, drawn from, and stored *)
(* with no lock.                                                           *)
(*                                                                         *)
(* A random stream's state is <<j, n>>: job j's own, n numbers into it.    *)
(***************************************************************************)
EXTENDS Integers, FiniteSets

CONSTANTS
  Takers,    \* takers: the threads, the scheduler's counted
  MaxLive,   \* the most requests of a round: the sequences of the cache
  MaxRounds  \* bound of the model: rounds in all

\* What the constants are; an instance assumes it.
TakeAssumption ==
  /\ Takers \in Nat \ {0, 1} /\ MaxLive \in Nat \ {0, 1} /\ MaxRounds \in Nat

Scheduler == 0
Workers == 1 .. Takers - 1
Threads == {Scheduler} \cup Workers
Jobs == 1 .. MaxLive

VARIABLES
  started,                 \* workers_started: workers 1 .. started run
  n, next, pending, round, \* pool_n, pool_next, pool_pending, pool_round
  pool_jobs,               \* the round's jobs, in their order
  stop,                    \* pool_stop
  seen,                    \* per worker: the last round it looked at
  pc,
  mine,                    \* per thread: the job it is taking for
  sampler,                 \* per thread: its sampler's state
  rng,                     \* per job: its stream's state
  due                      \* history: the numbers each job has been due

pool == <<n, next, pending, round>>
vars == <<started, pool, pool_jobs, stop, seen, pc, mine, sampler, rng, due>>

NoJob == 0

Init ==
  /\ started = 0
  /\ n = 0 /\ next = 0 /\ pending = 0 /\ round = 0
  /\ pool_jobs = [k \in Jobs |-> NoJob]
  /\ stop = FALSE
  /\ seen = [w \in Workers |-> 0]
  /\ pc = [t \in Threads |-> IF t = Scheduler THEN "idle" ELSE "unborn"]
  /\ mine = [t \in Threads |-> NoJob]
  /\ sampler = [t \in Threads |-> <<NoJob, 0>>]
  /\ rng = [j \in Jobs |-> <<j, 0>>]
  /\ due = [j \in Jobs |-> 0]

WorkAll(p) == [t \in Threads |-> IF t \in Workers /\ p[t] = "asleep" THEN "awake" ELSE p[t]]
\* Mutant: the scheduler is not told that the last job is taken.
SignalNobody(p) == p

SignalDone(p) == IF p[Scheduler] = "waiting" THEN [p EXCEPT ![Scheduler] = "woken"] ELSE p

-----------------------------------------------------------------------------
(* take_all(), once it has more than one job worth the threads. *)

Begin ==
  /\ pc[Scheduler] = "idle" /\ round < MaxRounds /\ ~stop
  /\ pc' = [pc EXCEPT ![Scheduler] = "starting"]
  /\ UNCHANGED <<started, pool, pool_jobs, stop, seen, mine, sampler, rng, due>>

\* start_workers: those not started yet, until one cannot be.
StartWorker ==
  /\ pc[Scheduler] = "starting" /\ started + 1 < Takers
  /\ started' = started + 1
  /\ pc' = [pc EXCEPT ![started + 1] = "awake"]
  /\ UNCHANGED <<pool, pool_jobs, stop, seen, mine, sampler, rng, due>>

\* pool_jobs is written without the lock.
List(S) ==
  /\ pc[Scheduler] = "starting" /\ Cardinality(S) >= 2
  /\ pool_jobs' \in {f \in [Jobs -> S \cup {NoJob}] :
                       /\ \A k \in Jobs : f[k] = NoJob <=> k > Cardinality(S)
                       /\ \A k, m \in 1 .. Cardinality(S) : k < m => f[k] < f[m]}
  /\ due' = [j \in Jobs |-> IF j \in S THEN due[j] + 1 ELSE due[j]]
  /\ pc' = [pc EXCEPT ![Scheduler] = "listed"]
  /\ UNCHANGED <<started, pool, stop, seen, mine, sampler, rng>>

\* The loops over pool_next, by thread t with the lock held: it takes the
\* next of m jobs, or goes where none is left.
NextJob(t, p, from, m, none) ==
  IF from < m
  THEN /\ mine' = [mine EXCEPT ![t] = pool_jobs[from + 1]]
       /\ next' = from + 1
       /\ pc' = [p EXCEPT ![t] = "took"]
  ELSE /\ mine' = [mine EXCEPT ![t] = NoJob]
       /\ next' = from
       /\ pc' = [p EXCEPT ![t] = none]

HandOut ==
  /\ pc[Scheduler] = "listed"
  /\ LET m == Cardinality({k \in Jobs : pool_jobs[k] # NoJob})
     IN  /\ n' = m /\ pending' = m
         /\ NextJob(Scheduler, WorkAll(pc), 0, m, "waiting")
  /\ round' = round + 1
  /\ UNCHANGED <<started, pool_jobs, stop, seen, sampler, rng, due>>

-----------------------------------------------------------------------------
(* take(), in job_take: without the lock. *)

\* Mutant: every thread uses the scheduler's sampler.
SamplerShared(t) == Scheduler

SamplerOf(t) == t

Load(t) ==
  /\ pc[t] = "took"
  /\ sampler' = [sampler EXCEPT ![SamplerOf(t)] = rng[mine[t]]]
  /\ pc' = [pc EXCEPT ![t] = "loaded"]
  /\ UNCHANGED <<started, pool, pool_jobs, stop, seen, mine, rng, due>>

Draw(t) ==
  /\ pc[t] = "loaded"
  /\ sampler' = [sampler EXCEPT ![SamplerOf(t)] = <<@[1], @[2] + 1>>]
  /\ pc' = [pc EXCEPT ![t] = "drawn"]
  /\ UNCHANGED <<started, pool, pool_jobs, stop, seen, mine, rng, due>>

Store(t) ==
  /\ pc[t] = "drawn"
  /\ rng' = [rng EXCEPT ![mine[t]] = sampler[SamplerOf(t)]]
  /\ pc' = [pc EXCEPT ![t] = "stored"]
  /\ UNCHANGED <<started, pool, pool_jobs, stop, seen, mine, sampler, due>>

\* Mutant: the scheduler goes on once every job is handed out.
OverEarly(t, left) ==
  IF t = Scheduler THEN "idle"
  ELSE IF stop THEN "exited" ELSE IF seen[t] = round THEN "asleep" ELSE "awake"

\* Where a thread that finds no job left goes, left of them still out.
Over(t, left) ==
  IF t = Scheduler THEN (IF left > 0 THEN "waiting" ELSE "idle")
  ELSE IF stop THEN "exited" ELSE IF seen[t] = round THEN "asleep" ELSE "awake"

\* Back under the lock.  The scheduler has nobody to tell.
Taken(t) ==
  /\ pc[t] = "stored"
  /\ pending' = pending - 1
  /\ NextJob(t, IF t \in Workers /\ pending = 1 THEN SignalDone(pc) ELSE pc, next, n, Over(t, pending - 1))
  /\ UNCHANGED <<started, n, round, pool_jobs, stop, seen, sampler, rng, due>>

Woken ==
  /\ pc[Scheduler] = "woken"
  /\ pc' = [pc EXCEPT ![Scheduler] = IF pending > 0 THEN "waiting" ELSE "idle"]
  /\ UNCHANGED <<started, pool, pool_jobs, stop, seen, mine, sampler, rng, due>>

-----------------------------------------------------------------------------
(* worker(), from the lock to its wait or its first job. *)

Wake(w) ==
  /\ pc[w] = "awake"
  /\ \/ /\ stop
        /\ pc' = [pc EXCEPT ![w] = "exited"]
        /\ UNCHANGED <<seen, next, mine>>
     \/ /\ ~stop /\ round = seen[w]
        /\ pc' = [pc EXCEPT ![w] = "asleep"]
        /\ UNCHANGED <<seen, next, mine>>
     \/ /\ ~stop /\ round # seen[w]
        /\ seen' = [seen EXCEPT ![w] = round]
        /\ NextJob(w, pc, next, n, "asleep")
  /\ UNCHANGED <<started, n, pending, round, pool_jobs, stop, sampler, rng, due>>

\* vitna_api_free, after the scheduler's thread is joined.
Stop ==
  /\ pc[Scheduler] = "idle" /\ ~stop
  /\ stop' = TRUE
  /\ pc' = WorkAll(pc)
  /\ UNCHANGED <<started, pool, pool_jobs, seen, mine, sampler, rng, due>>

Terminated == stop /\ (\A w \in 1 .. started : pc[w] = "exited") /\ UNCHANGED vars

-----------------------------------------------------------------------------
SchedulerStep == StartWorker \/ HandOut \/ Woken \/ \E S \in SUBSET Jobs : List(S)

TakeStep(t) == Load(t) \/ Draw(t) \/ Store(t) \/ Taken(t)

Next ==
  \/ SchedulerStep \/ Begin \/ Stop \/ Terminated
  \/ \E t \in Threads : TakeStep(t)
  \/ \E w \in Workers : Wake(w)

Spec == Init /\ [][Next]_vars

\* The operating system runs every thread that can run.
Fairness ==
  /\ WF_vars(SchedulerStep)
  /\ \A t \in Threads : WF_vars(TakeStep(t))
  /\ \A w \in Workers : WF_vars(Wake(w))

FairSpec == Spec /\ Fairness

-----------------------------------------------------------------------------
(* Properties *)

Streams == (Jobs \cup {NoJob}) \X Nat

TypeOK ==
  /\ started \in 0 .. Takers - 1
  /\ n \in Nat /\ next \in Nat /\ pending \in Nat /\ round \in Nat
  /\ pool_jobs \in [Jobs -> Jobs \cup {NoJob}]
  /\ stop \in BOOLEAN
  /\ seen \in [Workers -> Nat]
  /\ pc \in [Threads -> {"idle", "starting", "listed", "took", "loaded", "drawn", "stored",
                         "waiting", "woken", "unborn", "awake", "asleep", "exited"}]
  /\ mine \in [Threads -> Jobs \cup {NoJob}]
  /\ sampler \in [Threads -> Streams]
  /\ rng \in [Jobs -> Streams]
  /\ due \in [Jobs -> Nat]

At == {t \in Threads : pc[t] \in {"took", "loaded", "drawn", "stored"}}

\* Between rounds every request has drawn from its own stream exactly once
\* for each round it was in, on whichever threads its tokens fell: which
\* thread takes a request's tokens changes nothing (api.c:1569-1571,1907-1908).
DrawsAreOwn == pc[Scheduler] = "idle" => \A j \in Jobs : rng[j] = <<j, due[j]>>

\* While the scheduler lists the next round's jobs, with no lock, no worker
\* is at one of the last round's or can still pick one (api.c:1921-1925).
ListedInQuiet ==
  pc[Scheduler] \in {"idle", "starting", "listed"} => At = {} /\ next = n /\ pending = 0

\* A round ends, whichever threads take its jobs.
RoundsEnd == (pc[Scheduler] # "idle") ~> (pc[Scheduler] = "idle")
=============================================================================
