----------------------------- MODULE ParallelJob -----------------------------
(***************************************************************************)
(* What a pool of threads promises the code that hands it a job            *)
(* (engine/include/pool.h): every task of the job is run by one of the     *)
(* threads, once, with the job's own function and argument, and the run    *)
(* returns once all have run.  Which thread runs which task, and when, is  *)
(* not fixed.                                                              *)
(***************************************************************************)
EXTENDS Integers

CONSTANTS
  NThreads,  \* the threads in all; the caller is thread 0
  MaxN,      \* the most tasks of a job
  NoTask

Threads == 0 .. NThreads - 1

VARIABLES
  job,     \* how many jobs there have been
  left,    \* the job's tasks that no thread has begun
  doing,   \* per thread: the task it runs, with the job the task is of
  running  \* whether a job is under way

vars == <<job, left, doing, running>>

Init ==
  /\ job = 0
  /\ left = {}
  /\ doing = [t \in Threads |-> NoTask]
  /\ running = FALSE

AllIdle == \A t \in Threads : doing[t] = NoTask

Begin(n) ==
  /\ ~running /\ AllIdle
  /\ job' = job + 1
  /\ left' = {<<job + 1, i>> : i \in 0 .. n - 1}
  /\ running' = TRUE
  /\ UNCHANGED doing

Start(t, k) ==
  /\ running /\ k \in left /\ doing[t] = NoTask
  /\ left' = left \ {k}
  /\ doing' = [doing EXCEPT ![t] = k]
  /\ UNCHANGED <<job, running>>

\* The run may return with the last task, if the caller ran it.
End(t) ==
  /\ doing[t] # NoTask
  /\ doing' = [doing EXCEPT ![t] = NoTask]
  /\ running' \in {TRUE} \cup {left # {} \/ \E u \in Threads \ {t} : doing[u] # NoTask}
  /\ UNCHANGED <<job, left>>

Return ==
  /\ running /\ left = {} /\ AllIdle
  /\ running' = FALSE
  /\ UNCHANGED <<job, left, doing>>

Next ==
  \/ \E n \in 1 .. MaxN : Begin(n)
  \/ \E t \in Threads : End(t) \/ \E k \in left : Start(t, k)
  \/ Return

Spec == Init /\ [][Next]_vars
=============================================================================
