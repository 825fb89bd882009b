----------------------------- MODULE ThreadPool -----------------------------
(***************************************************************************)
(* The pool of threads (engine/src/pool.c) that shares out the experts'    *)
(* rows a GPU's step leaves to the processor.  One lock guards the job.    *)
(* The threads sleep on start until the job's number changes, then take    *)
(* tasks, as the caller does, until none is left; the caller sleeps on     *)
(* done until the last has finished.                                       *)
(*                                                                         *)
(* Each action is one holding of the lock, from taking it to letting it go *)
(* or sleeping, or one of the two ends of a task, which runs without it.   *)
(* The task's function and argument are read without the lock too, and     *)
(* are here the number of the job whose run stored them.                   *)
(***************************************************************************)
EXTENDS Integers, FiniteSets

CONSTANTS
  NThreads,  \* n_threads, the caller counted
  MaxN,      \* bound of the model: the most tasks of a job
  MaxJobs,   \* bound of the model: jobs in all
  NoTask

ASSUME PoolAssumption ==
  /\ NThreads \in Nat \ {0} /\ MaxN \in Nat \ {0} /\ MaxJobs \in Nat
  /\ NoTask \notin Nat \X Nat

Caller == 0
Helpers == 1 .. NThreads - 1
Threads == {Caller} \cup Helpers

VARIABLES
  n_started,          \* the helpers started: 1 .. n_started
  job, task,          \* the job's number; whose function and argument are stored
  n, next, finished,  \* its tasks, those handed out, those that have run
  stop,
  seen,               \* per helper: the last job it looked at
  pc,                 \* where each thread is
  i,                  \* per thread: the task it took last
  doing,              \* per thread: what its call was given, job and task
  called              \* history: the tasks of this job that were called

shared == <<job, task, n, next, finished, stop>>
vars == <<n_started, shared, seen, pc, i, doing, called>>

-----------------------------------------------------------------------------
Init ==
  /\ n_started = 0
  /\ job = 0 /\ task = 0
  /\ n = 0 /\ next = 0 /\ finished = 0
  /\ stop = FALSE
  /\ seen = [h \in Helpers |-> 0]
  /\ pc = [t \in Threads |-> IF t = Caller THEN "create" ELSE "unborn"]
  /\ i = [t \in Threads |-> 0]
  /\ doing = [t \in Threads |-> NoTask]
  /\ called = {}

\* vitna_cond_broadcast(&p->start): p, with the sleeping helpers awake.
StartAll(p) == [t \in Threads |-> IF t \in Helpers /\ p[t] = "asleep" THEN "awake" ELSE p[t]]

\* Mutant: nobody is told that the last task has finished.
DoneNobody(p) == p

\* vitna_cond_broadcast(&p->done)
DoneAll(p) == IF p[Caller] = "waiting" THEN [p EXCEPT ![Caller] = "woken"] ELSE p

\* Mutant: two threads can be handed the same task.
TakeTwice(t, p, from, m, none) ==
  IF from < m
  THEN /\ i' = [i EXCEPT ![t] = from]
       /\ next' = IF t = Caller THEN from + 1 ELSE from
       /\ pc' = [p EXCEPT ![t] = "took"]
  ELSE /\ next' = from
       /\ pc' = [p EXCEPT ![t] = none]
       /\ UNCHANGED i

\* The top of work()'s loop, by thread t and with the lock held, from the
\* pc's p: it takes a task of next out of the m there are, or goes where
\* none is left.
TakeOr(t, p, from, m, none) ==
  IF from < m
  THEN /\ i' = [i EXCEPT ![t] = from]
       /\ next' = from + 1
       /\ pc' = [p EXCEPT ![t] = "took"]
  ELSE /\ next' = from
       /\ pc' = [p EXCEPT ![t] = none]
       /\ UNCHANGED i

-----------------------------------------------------------------------------
(* vitna_pool_create() *)

StartThread ==
  /\ pc[Caller] = "create" /\ n_started < NThreads - 1
  /\ n_started' = n_started + 1
  /\ pc' = [pc EXCEPT ![n_started + 1] = "awake"]
  /\ UNCHANGED <<shared, seen, i, doing, called>>

\* A thread cannot start: those that did are stopped, as in vitna_pool_free.
StartFails ==
  /\ pc[Caller] = "create" /\ n_started < NThreads - 1
  /\ stop' = TRUE
  /\ pc' = [StartAll(pc) EXCEPT ![Caller] = "joining"]
  /\ UNCHANGED <<n_started, job, task, n, next, finished, seen, i, doing, called>>

Created ==
  /\ pc[Caller] = "create" /\ n_started = NThreads - 1
  /\ pc' = [pc EXCEPT ![Caller] = "idle"]
  /\ UNCHANGED <<n_started, shared, seen, i, doing, called>>

-----------------------------------------------------------------------------
(* vitna_pool_run() *)

Run(m) ==
  /\ pc[Caller] = "idle" /\ job < MaxJobs
  /\ task' = job + 1
  /\ job' = job + 1
  /\ n' = m
  /\ finished' = 0
  /\ TakeOr(Caller, IF n_started > 0 THEN StartAll(pc) ELSE pc, 0, m, "waiting")
  /\ called' = {}
  /\ UNCHANGED <<n_started, stop, seen, doing>>

\* The call, without the lock: the function and the argument are read now.
Call(t) ==
  /\ pc[t] = "took"
  /\ doing' = [doing EXCEPT ![t] = <<task, i[t]>>]
  /\ called' = called \cup {i[t]}
  /\ pc' = [pc EXCEPT ![t] = "inside"]
  /\ UNCHANGED <<n_started, shared, seen, i>>

\* Where the thread goes when it finds no task left: the caller returns or
\* waits for the others; a helper leaves work() and sleeps or stops.
Spent(t, fin) ==
  IF t = Caller THEN (IF fin < n THEN "waiting" ELSE "idle")
  ELSE IF stop THEN "exited"
  ELSE IF seen[t] = job THEN "asleep" ELSE "awake"

Finish(t) ==
  /\ pc[t] = "inside"
  /\ finished' = finished + 1
  /\ doing' = [doing EXCEPT ![t] = NoTask]
  /\ TakeOr(t, IF finished + 1 = n THEN DoneAll(pc) ELSE pc, next, n, Spent(t, finished + 1))
  /\ UNCHANGED <<n_started, job, task, n, stop, seen, called>>

\* The caller wakes from its wait on done.
Return ==
  /\ pc[Caller] = "woken"
  /\ pc' = [pc EXCEPT ![Caller] = IF finished < n THEN "waiting" ELSE "idle"]
  /\ UNCHANGED <<n_started, shared, seen, i, doing, called>>

-----------------------------------------------------------------------------
(* worker_main(), from the lock to its wait on start or its first task. *)

Wake(h) ==
  /\ pc[h] = "awake"
  /\ \/ /\ stop
        /\ pc' = [pc EXCEPT ![h] = "exited"]
        /\ UNCHANGED <<seen, next, i>>
     \/ /\ ~stop /\ job = seen[h]
        /\ pc' = [pc EXCEPT ![h] = "asleep"]
        /\ UNCHANGED <<seen, next, i>>
     \/ /\ ~stop /\ job # seen[h]
        /\ seen' = [seen EXCEPT ![h] = job]
        /\ TakeOr(h, pc, next, n, "asleep")
  /\ UNCHANGED <<n_started, job, task, n, finished, stop, doing, called>>

-----------------------------------------------------------------------------
(* vitna_pool_free() *)

Free ==
  /\ pc[Caller] = "idle"
  /\ stop' = TRUE
  /\ pc' = [StartAll(pc) EXCEPT ![Caller] = "joining"]
  /\ UNCHANGED <<n_started, job, task, n, next, finished, seen, i, doing, called>>

Joined ==
  /\ pc[Caller] = "joining" /\ \A h \in 1 .. n_started : pc[h] = "exited"
  /\ pc' = [pc EXCEPT ![Caller] = "freed"]
  /\ UNCHANGED <<n_started, shared, seen, i, doing, called>>

Terminated == pc[Caller] = "freed" /\ UNCHANGED vars

-----------------------------------------------------------------------------
CallerStep == StartThread \/ StartFails \/ Created \/ Return \/ Joined

TaskStep(t) == Call(t) \/ Finish(t)

Next ==
  \/ CallerStep \/ Free
  \/ \E m \in 1 .. MaxN : Run(m)
  \/ \E t \in Threads : TaskStep(t)
  \/ \E h \in Helpers : Wake(h)
  \/ Terminated

Spec == Init /\ [][Next]_vars

\* The operating system runs every thread that can run, each task returns,
\* and the lock is free again and again: nobody holds it across a task.
Fairness ==
  /\ WF_vars(CallerStep)
  /\ \A t \in Threads : WF_vars(TaskStep(t))
  /\ \A h \in Helpers : WF_vars(Wake(h))

FairSpec == Spec /\ Fairness

-----------------------------------------------------------------------------
(* Properties *)

TypeOK ==
  /\ n_started \in 0 .. NThreads - 1
  /\ job \in Nat /\ task \in Nat
  /\ n \in Nat /\ next \in Nat /\ finished \in Nat
  /\ stop \in BOOLEAN
  /\ seen \in [Helpers -> Nat]
  /\ pc \in [Threads -> {"create", "unborn", "idle", "took", "inside", "waiting", "woken",
                         "awake", "asleep", "joining", "exited", "freed"}]
  /\ i \in [Threads -> Nat]
  /\ doing \in [Threads -> (Nat \X Nat) \cup {NoTask}]
  /\ called \in SUBSET Nat

\* A run returns, and the pool is freed, whichever threads get the tasks.
RunsReturn == (pc[Caller] \notin {"idle", "freed"}) ~> (pc[Caller] \in {"idle", "freed"})

\* The pool is a ParallelJob (pool.h:4-9,40).
Job == INSTANCE ParallelJob WITH
  left <- IF pc[Caller] \in {"took", "inside", "waiting", "woken"}
          THEN {<<job, k>> : k \in (0 .. n - 1) \ called} ELSE {},
  running <- pc[Caller] \in {"took", "inside", "waiting", "woken"}

ImplementsJob == Job!Spec
=============================================================================
