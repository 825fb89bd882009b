-------------------------- MODULE MCThreadsProofs ---------------------------
(***************************************************************************)
(* Proofs about the pool of threads, which MCThreads extends, for every    *)
(* number of threads, of a job's tasks and of jobs: it is a ParallelJob.   *)
(* Then the properties that MCThreads asks of the pool, of the threads that*)
(* take tokens, of the connections, of the encoder and of the sampler, as  *)
(* theorems of its specification: each part keeps its own invariant, and   *)
(* the parts that do not run are at rest.                                  *)
(***************************************************************************)
EXTENDS MCThreads, FiniteSetTheorems, TLAPS

-----------------------------------------------------------------------------
(* The inductive invariant.  The tasks handed out, 0 .. next - 1, are those   *)
(* that have run and those a thread has, so that the last to finish leaves    *)
(* nobody busy: the run cannot return early, nor the next one begin with a    *)
(* thread still in a task of this.                                            *)

\* A run is under way.
Active == pc[Caller] \in {"took", "inside", "waiting", "woken"}

\* The threads that have a task, and those yet to call it.
Busy == {t \in Threads : pc[t] \in {"took", "inside"}}
Took == {t \in Threads : pc[t] = "took"}

CountOK ==
  /\ task = job
  /\ next <= n
  /\ finished + Cardinality(Busy) = next
  /\ ~Active => finished = n

\* The tasks handed out are called or taken, each by one thread.
TakenOK ==
  /\ \A t \in Took : i[t] < next
  /\ \A t, u \in Took : i[t] = i[u] => t = u
  /\ called = (0 .. next - 1) \ {i[t] : t \in Took}

DoingOK == \A t \in Threads : doing[t] # NoTask <=> pc[t] = "inside"

IInv == TypeOK /\ CountOK /\ TakenOK /\ DoingOK

States == {"create", "unborn", "idle", "took", "inside", "waiting", "woken",
           "awake", "asleep", "joining", "exited", "freed"}

-----------------------------------------------------------------------------
LEMMA ThreadFacts ==
  /\ Threads = 0 .. NThreads - 1 /\ IsFiniteSet(Threads)
  /\ Caller \in Threads /\ Helpers \subseteq Threads /\ Caller \notin Helpers
<1>1. /\ Threads = 0 .. NThreads - 1
      /\ Caller \in Threads /\ Helpers \subseteq Threads /\ Caller \notin Helpers
  BY PoolAssumption DEF Threads, Caller, Helpers
<1>2. 0 \in Int /\ NThreads - 1 \in Int
  BY PoolAssumption
<1>3. IsFiniteSet(0 .. NThreads - 1)
  BY <1>2, FS_Interval
<1>. QED  BY <1>1, <1>3

LEMMA BusyFinite ==
  /\ IsFiniteSet(Busy) /\ Cardinality(Busy) \in Nat /\ (Cardinality(Busy) = 0 <=> Busy = {})
  /\ Busy \subseteq Threads /\ Took \subseteq Busy
<1>1. Busy \in SUBSET Threads /\ Took \subseteq Busy
  BY DEF Busy, Took
<1>2. IsFiniteSet(Busy)
  BY <1>1, ThreadFacts, FS_Subset
<1>. QED  BY <1>1, <1>2, FS_CardinalityType, FS_EmptySet

\* Between runs nobody has a task, and all have been called.
LEMMA AllDone ==
  ASSUME IInv, finished = n
  PROVE  /\ Busy = {} /\ Took = {} /\ next = n /\ called = 0 .. n - 1
         /\ \A t \in Threads : doing[t] = NoTask
<1>1. n \in Nat /\ next \in Nat /\ finished \in Nat
  BY DEF IInv, TypeOK
<1>2. Busy = {} /\ next = n
  BY <1>1, BusyFinite DEF IInv, CountOK
<1>3. Took = {}
  BY <1>2, BusyFinite
<1>4. called = 0 .. n - 1
  BY <1>2, <1>3 DEF IInv, TakenOK
<1>5. \A t \in Threads : doing[t] = NoTask
  BY <1>2 DEF IInv, DoingOK, Busy
<1>. QED  BY <1>2, <1>3, <1>4, <1>5

\* Who wakes whom leaves those with a task alone.
SameOthers(p, t) ==
  /\ p \in [Threads -> States]
  /\ \A u \in Threads \ {t} : /\ p[u] = "took" <=> pc[u] = "took"
                              /\ p[u] = "inside" <=> pc[u] = "inside"

LEMMA StartAllSame ==
  ASSUME TypeOK, NEW t
  PROVE  /\ SameOthers(StartAll(pc), t) /\ StartAll(pc)[Caller] = pc[Caller]
         /\ \A u \in Threads : StartAll(pc)[u] # pc[u] => pc[u] = "asleep" /\ StartAll(pc)[u] = "awake"
BY ThreadFacts DEF StartAll, SameOthers, TypeOK, States

LEMMA DoneAllSame ==
  ASSUME TypeOK, NEW t
  PROVE  /\ SameOthers(DoneAll(pc), t)
         /\ \A u \in Threads : DoneAll(pc)[u] # pc[u] =>
              u = Caller /\ pc[Caller] = "waiting" /\ DoneAll(pc)[Caller] = "woken"
BY ThreadFacts DEF DoneAll, SameOthers, TypeOK, States

\* The top of work()'s loop: the thread takes a task of those left, or none.
LEMMA TakeShape ==
  ASSUME TypeOK, NEW t \in Threads, NEW p, SameOthers(p, t), NEW from \in Nat, NEW m \in Nat,
         NEW none \in States \ {"took", "inside"}, TakeOr(t, p, from, m, none)
  PROVE  /\ pc' \in [Threads -> States] /\ i' \in [Threads -> Nat] /\ next' \in Nat
         /\ \A u \in Threads \ {t} : pc'[u] = p[u] /\ i'[u] = i[u]
         /\ IF from < m
            THEN /\ Busy' = (Busy \ {t}) \cup {t} /\ Took' = (Took \ {t}) \cup {t}
                 /\ i'[t] = from /\ next' = from + 1 /\ pc'[t] = "took"
            ELSE /\ Busy' = Busy \ {t} /\ Took' = Took \ {t} /\ next' = from /\ i' = i /\ pc'[t] = none
<1>1. /\ pc \in [Threads -> States] /\ i \in [Threads -> Nat] /\ p \in [Threads -> States]
      /\ "took" \in States
  BY DEF TypeOK, SameOthers, States
<1>2. CASE from < m
  <2>1. i' = [i EXCEPT ![t] = from] /\ next' = from + 1 /\ pc' = [p EXCEPT ![t] = "took"]
    BY <1>2 DEF TakeOr
  <2>2. /\ pc' \in [Threads -> States] /\ i' \in [Threads -> Nat] /\ next' \in Nat
        /\ \A u \in Threads \ {t} : pc'[u] = p[u] /\ i'[u] = i[u]
        /\ i'[t] = from /\ pc'[t] = "took"
    BY <1>1, <2>1
  <2>3. Busy' = (Busy \ {t}) \cup {t} /\ Took' = (Took \ {t}) \cup {t}
    BY <2>2 DEF Busy, Took, SameOthers
  <2>. QED  BY <1>2, <2>1, <2>2, <2>3
<1>3. CASE ~(from < m)
  <2>1. i' = i /\ next' = from /\ pc' = [p EXCEPT ![t] = none]
    BY <1>3 DEF TakeOr
  <2>2. /\ pc' \in [Threads -> States]
        /\ \A u \in Threads \ {t} : pc'[u] = p[u]
        /\ pc'[t] = none
    BY <1>1, <2>1
  <2>3. Busy' = Busy \ {t} /\ Took' = Took \ {t}
    BY <2>2 DEF Busy, Took, SameOthers
  <2>. QED  BY <1>1, <1>3, <2>1, <2>2, <2>3
<1>. QED  BY <1>2, <1>3

-----------------------------------------------------------------------------
(* Each step keeps the invariant. *)

\* Those that hand out no task.
LEMMA QuietStep ==
  ASSUME IInv, pc' \in [Threads -> States],
         \A u \in Threads : /\ pc'[u] = "took" <=> pc[u] = "took"
                            /\ pc'[u] = "inside" <=> pc[u] = "inside",
         UNCHANGED <<job, task, n, next, finished, i, doing, called>>,
         Active => Active' \/ finished = n,
         n_started' \in 0 .. NThreads - 1, stop' \in BOOLEAN, seen' \in [Helpers -> Nat]
  PROVE  IInv'
<1>1. Busy' = Busy /\ Took' = Took
  BY DEF Busy, Took
<1>2. TypeOK'
  BY DEF IInv, TypeOK, States
<1>3. CountOK'
  BY <1>1 DEF IInv, CountOK
<1>4. TakenOK' /\ DoingOK'
  BY <1>1 DEF IInv, TakenOK, DoingOK
<1>. QED  BY <1>2, <1>3, <1>4 DEF IInv

LEMMA CallerNext ==
  ASSUME IInv, CallerStep \/ Free \/ Terminated
  PROVE  IInv'
<1>0. /\ pc \in [Threads -> States] /\ n_started \in 0 .. NThreads - 1 /\ stop \in BOOLEAN
      /\ seen \in [Helpers -> Nat] /\ Caller \in Threads /\ NThreads \in Nat \ {0}
      /\ n \in Nat /\ finished \in Nat /\ next \in Nat /\ next <= n
      /\ Cardinality(Busy) \in Nat /\ finished + Cardinality(Busy) = next
  BY ThreadFacts, PoolAssumption, BusyFinite DEF IInv, TypeOK, States, CountOK
<1>1. CASE StartThread
  <2>1. finished = n
    BY <1>1 DEF IInv, CountOK, Active, StartThread
  <2>2. n_started + 1 \in Threads /\ n_started + 1 # Caller /\ n_started' \in 0 .. NThreads - 1
    BY <1>0, <1>1, ThreadFacts DEF StartThread, Caller
  <2>3. pc[n_started + 1] \notin {"took", "inside"}
    BY <2>1, <2>2, AllDone DEF Busy
  <2>4. /\ pc' \in [Threads -> States]
        /\ \A u \in Threads : /\ pc'[u] = "took" <=> pc[u] = "took"
                              /\ pc'[u] = "inside" <=> pc[u] = "inside"
    BY <1>0, <1>1, <2>2, <2>3 DEF StartThread, States
  <2>. QED  BY <1>0, <1>1, <2>1, <2>2, <2>4, QuietStep DEF StartThread, shared
<1>2. CASE StartFails \/ Free
  <2>1. /\ pc' = [StartAll(pc) EXCEPT ![Caller] = "joining"] /\ pc[Caller] \in {"create", "idle"}
    BY <1>2 DEF StartFails, Free
  <2>2. SameOthers(StartAll(pc), Caller)
    BY StartAllSame DEF IInv
  <2>3. /\ pc' \in [Threads -> States]
        /\ \A u \in Threads : /\ pc'[u] = "took" <=> pc[u] = "took"
                              /\ pc'[u] = "inside" <=> pc[u] = "inside"
    BY <1>0, <2>1, <2>2 DEF SameOthers, States
  <2>4. ~Active
    BY <2>1 DEF Active
  <2>. QED  BY <1>0, <1>2, <2>3, <2>4, QuietStep DEF StartFails, Free
<1>3. CASE Created \/ Joined
  <2>1. \E s \in {"idle", "freed"} : pc' = [pc EXCEPT ![Caller] = s] /\ pc[Caller] \in {"create", "joining"}
    BY <1>3 DEF Created, Joined
  <2>2. /\ pc' \in [Threads -> States]
        /\ \A u \in Threads : /\ pc'[u] = "took" <=> pc[u] = "took"
                              /\ pc'[u] = "inside" <=> pc[u] = "inside"
    BY <1>0, <2>1 DEF States
  <2>3. ~Active
    BY <2>1 DEF Active
  <2>. QED  BY <1>0, <1>3, <2>2, <2>3, QuietStep DEF Created, Joined, shared
<1>4. CASE Return
  <2>1. /\ pc[Caller] = "woken"
        /\ pc' = [pc EXCEPT ![Caller] = IF finished < n THEN "waiting" ELSE "idle"]
    BY <1>4 DEF Return
  <2>2. /\ pc' \in [Threads -> States]
        /\ \A u \in Threads : /\ pc'[u] = "took" <=> pc[u] = "took"
                              /\ pc'[u] = "inside" <=> pc[u] = "inside"
    BY <1>0, <2>1 DEF States
  <2>3. Active' \/ finished = n
    BY <1>0, <2>1 DEF Active
  <2>. QED  BY <1>0, <1>4, <2>2, <2>3, QuietStep DEF Return, shared
<1>5. CASE Terminated
  BY <1>0, <1>5, QuietStep DEF Terminated, vars, shared, Active
<1>. QED  BY <1>1, <1>2, <1>3, <1>4, <1>5 DEF CallerStep

\* A job begins, and its first task is the caller's.
LEMMA RunNext ==
  ASSUME IInv, NEW m \in 1 .. MaxN, Run(m)
  PROVE  IInv' /\ pc'[Caller] = "took" /\ Busy = {}
<1>. DEFINE p == IF n_started > 0 THEN StartAll(pc) ELSE pc
<1>0. /\ TypeOK /\ Caller \in Threads /\ m \in Nat /\ 0 < m /\ pc \in [Threads -> States]
  BY ThreadFacts, PoolAssumption DEF IInv, TypeOK, States
<1>1. Busy = {} /\ Took = {}
  BY AllDone DEF Run, IInv, CountOK, Active
<1>2. SameOthers(p, Caller)
  BY <1>0, StartAllSame DEF SameOthers
<1>3. TakeOr(Caller, p, 0, m, "waiting")
  BY DEF Run
<1>. HIDE DEF p
<1>4. /\ pc' \in [Threads -> States] /\ i' \in [Threads -> Nat] /\ next' = 1
      /\ Busy' = {Caller} /\ Took' = {Caller} /\ i'[Caller] = 0 /\ pc'[Caller] = "took"
  <2>1. "waiting" \in States \ {"took", "inside"} /\ 0 \in Nat
    BY DEF States
  <2>. QED  BY <1>0, <1>1, <1>2, <1>3, <2>1, TakeShape
<1>5. Cardinality(Busy') = 1
  BY <1>4, FS_Singleton
<1>6. TypeOK'
  BY <1>0, <1>4 DEF TypeOK, Run, States
<1>7. CountOK'
  BY <1>0, <1>4, <1>5 DEF CountOK, Run, Active
<1>8. TakenOK'
  BY <1>4 DEF TakenOK, Run
<1>9. DoingOK'
  <2>1. \A u \in Threads : pc'[u] # "inside" /\ doing'[u] = NoTask
    <3>1. \A u \in Threads : pc'[u] # "inside"
      BY <1>4 DEF Busy
    <3>2. \A u \in Threads : pc[u] # "inside"
      BY <1>1 DEF Busy
    <3>. QED  BY <3>1, <3>2 DEF Run, IInv, DoingOK
  <2>. QED  BY <2>1 DEF DoingOK
<1>. QED  BY <1>1, <1>4, <1>6, <1>7, <1>8, <1>9 DEF IInv

LEMMA CallNext ==
  ASSUME IInv, NEW t \in Threads, Call(t)
  PROVE  /\ IInv' /\ Active /\ Active' /\ i[t] \in (0 .. n - 1) \ called
         /\ doing[t] = NoTask
<1>0. /\ TypeOK /\ pc \in [Threads -> States] /\ i \in [Threads -> Nat] /\ t \in Took
      /\ n \in Nat /\ next \in Nat /\ next <= n /\ i[t] < next /\ i[t] \in Nat
      /\ pc[t] = "took" /\ task = job /\ job \in Nat
      /\ called \in SUBSET Nat /\ doing \in [Threads -> (Nat \X Nat) \cup {NoTask}]
      /\ NoTask \notin Nat \X Nat
  BY PoolAssumption DEF IInv, TypeOK, States, Call, Took, CountOK, TakenOK
<1>1. Active
  <2>1. Busy # {}
    BY <1>0 DEF Busy
  <2>. QED  BY <2>1, AllDone DEF IInv, CountOK
<1>2. pc' = [pc EXCEPT ![t] = "inside"] /\ pc' \in [Threads -> States]
  BY <1>0 DEF Call, States
<1>3. Active'
  BY <1>0, <1>1, <1>2, ThreadFacts DEF Active
<1>4. Busy' = Busy /\ Took' = Took \ {t}
  BY <1>0, <1>2 DEF Busy, Took
<1>5. UNCHANGED <<n_started, job, task, n, next, finished, stop, seen, i>>
      /\ called' = called \cup {i[t]} /\ doing' = [doing EXCEPT ![t] = <<job, i[t]>>]
  BY <1>0 DEF Call, shared
<1>6. TypeOK'
  BY <1>0, <1>2, <1>5 DEF TypeOK, States
<1>7. CountOK'
  BY <1>1, <1>3, <1>4, <1>5 DEF IInv, CountOK
<1>8. TakenOK'
  <2>1. \A u \in Took : i[u] = i[t] => u = t
    BY <1>0 DEF IInv, TakenOK
  <2>2. called' = (0 .. next' - 1) \ {i'[u] : u \in Took'}
    <3>1. {i'[u] : u \in Took'} = {i[u] : u \in Took} \ {i[t]}
      BY <1>0, <1>4, <1>5, <2>1
    <3>2. i[t] \in 0 .. next - 1
      BY <1>0
    <3>3. called = (0 .. next - 1) \ {i[u] : u \in Took}
      BY DEF IInv, TakenOK
    <3>. QED  BY <1>0, <1>5, <3>1, <3>2, <3>3
  <2>. QED  BY <1>4, <1>5, <2>2 DEF IInv, TakenOK
<1>9. DoingOK'
  <2>1. <<job, i[t]>> # NoTask
    BY <1>0
  <2>. QED  BY <1>0, <1>2, <1>5, <2>1 DEF IInv, DoingOK
<1>10. i[t] \in (0 .. n - 1) \ called
  BY <1>0 DEF IInv, TakenOK
<1>. QED  BY <1>0, <1>1, <1>3, <1>6, <1>7, <1>8, <1>9, <1>10 DEF IInv, DoingOK

\* A task's end: the last one's tells the caller.
LEMMA FinishNext ==
  ASSUME IInv, NEW t \in Threads, Finish(t)
  PROVE  IInv' /\ Active /\ (Active' \/ (t = Caller /\ finished' = n'))
<1>. DEFINE p == IF finished + 1 = n THEN DoneAll(pc) ELSE pc
            none == Spent(t, finished + 1)
<1>0. /\ TypeOK /\ pc \in [Threads -> States] /\ i \in [Threads -> Nat]
      /\ n \in Nat /\ next \in Nat /\ finished \in Nat /\ next <= n
      /\ pc[t] = "inside" /\ t \in Busy /\ t \notin Took
      /\ called \in SUBSET Nat /\ doing \in [Threads -> (Nat \X Nat) \cup {NoTask}]
      /\ IsFiniteSet(Busy) /\ Cardinality(Busy) \in Nat /\ finished + Cardinality(Busy) = next
      /\ UNCHANGED <<n_started, job, task, n, stop, seen, called>>
      /\ finished' = finished + 1 /\ doing' = [doing EXCEPT ![t] = NoTask]
  BY BusyFinite DEF IInv, TypeOK, States, Finish, Took, Busy, CountOK
<1>1. Active
  BY <1>0, AllDone DEF IInv, CountOK
<1>2. SameOthers(p, t)
  BY <1>0, DoneAllSame DEF SameOthers
<1>3. none \in States \ {"took", "inside"}
  BY DEF Spent, States
<1>4. TakeOr(t, p, next, n, none)
  BY DEF Finish
<1>5. /\ Cardinality(Busy \ {t}) = Cardinality(Busy) - 1 /\ Cardinality(Busy) > 0
      /\ finished + 1 <= n
  <2>1. Cardinality(Busy \ {t}) = Cardinality(Busy) - 1
    BY <1>0, FS_RemoveElement
  <2>2. Cardinality(Busy) # 0
    BY <1>0, BusyFinite
  <2>. QED  BY <1>0, <2>1, <2>2
<1>6. p[Caller] = pc[Caller] \/ p[Caller] = "woken"
  BY <1>0, DoneAllSame, ThreadFacts
<1>7. t = Caller /\ none # "waiting" => finished + 1 = n
  BY <1>0, <1>5 DEF Spent
<1>8. t = Caller => none \in {"waiting", "idle"}
  BY DEF Spent
<1>. HIDE DEF p, none
<1>9. /\ pc' \in [Threads -> States] /\ i' \in [Threads -> Nat] /\ next' \in Nat
      /\ \A u \in Threads \ {t} : pc'[u] = p[u] /\ i'[u] = i[u]
      /\ IF next < n
         THEN /\ Busy' = Busy /\ Took' = Took \cup {t}
              /\ i'[t] = next /\ next' = next + 1 /\ pc'[t] = "took"
         ELSE /\ Busy' = Busy \ {t} /\ Took' = Took /\ next' = next /\ i' = i /\ pc'[t] = none
  <2>1. /\ pc' \in [Threads -> States] /\ i' \in [Threads -> Nat] /\ next' \in Nat
        /\ \A u \in Threads \ {t} : pc'[u] = p[u] /\ i'[u] = i[u]
        /\ IF next < n
           THEN /\ Busy' = (Busy \ {t}) \cup {t} /\ Took' = (Took \ {t}) \cup {t}
                /\ i'[t] = next /\ next' = next + 1 /\ pc'[t] = "took"
           ELSE /\ Busy' = Busy \ {t} /\ Took' = Took \ {t} /\ next' = next /\ i' = i /\ pc'[t] = none
    BY <1>0, <1>2, <1>3, <1>4, TakeShape
  <2>2. (Busy \ {t}) \cup {t} = Busy /\ Took \ {t} = Took
    BY <1>0
  <2>. QED  BY <2>1, <2>2
<1>10. TypeOK'
  <2>1. doing' \in [Threads -> (Nat \X Nat) \cup {NoTask}] /\ finished' \in Nat
    BY <1>0
  <2>. QED  BY <1>0, <1>9, <2>1 DEF TypeOK, States
<1>11. Active' \/ (t = Caller /\ finished' = n')
  <2>1. CASE t # Caller
    BY <1>1, <1>6, <1>9, <2>1, ThreadFacts DEF Active
  <2>2. CASE t = Caller
    BY <1>0, <1>7, <1>8, <1>9, <2>2 DEF Active
  <2>. QED  BY <2>1, <2>2
<1>12. CountOK'
  <2>1. finished' + Cardinality(Busy') = next' /\ next' <= n'
    <3>1. CASE next < n
      <4>1. Cardinality(Busy') = Cardinality(Busy) /\ next' = next + 1
        BY <1>9, <3>1
      <4>. QED  BY <1>0, <3>1, <4>1
    <3>2. CASE ~(next < n)
      <4>1. Cardinality(Busy') = Cardinality(Busy) - 1 /\ next' = next
        BY <1>5, <1>9, <3>2
      <4>. QED  BY <1>0, <4>1
    <3>. QED  BY <3>1, <3>2
  <2>. QED  BY <1>0, <1>11, <2>1 DEF IInv, CountOK
<1>13. TakenOK'
  <2>1. CASE next < n
    <3>1. {i'[u] : u \in Took'} = {i[u] : u \in Took} \cup {next}
      <4>1. \A u \in Took : u \in Threads \ {t} /\ i'[u] = i[u]
        BY <1>0, <1>9 DEF Took
      <4>. QED  BY <1>9, <2>1, <4>1
    <3>2. /\ \A u \in Took : i[u] < next /\ i[u] \in Nat /\ i'[u] = i[u]
          /\ \A u, v \in Took : i[u] = i[v] => u = v
          /\ called = (0 .. next - 1) \ {i[u] : u \in Took}
      BY <1>0, <1>9 DEF IInv, TakenOK, Took
    <3>3. called' = (0 .. next' - 1) \ {i'[u] : u \in Took'}
      BY <1>0, <1>9, <2>1, <3>1, <3>2
    <3>4. \A u \in Took' : i'[u] < next'
      BY <1>0, <1>9, <2>1, <3>2
    <3>5. \A u, v \in Took' : i'[u] = i'[v] => u = v
      BY <1>0, <1>9, <2>1, <3>2
    <3>. QED  BY <3>3, <3>4, <3>5 DEF TakenOK
  <2>2. CASE ~(next < n)
    <3>1. Took' = Took /\ next' = next /\ i' = i /\ called' = called
      BY <1>0, <1>9, <2>2
    <3>. QED  BY <3>1 DEF IInv, TakenOK
  <2>. QED  BY <2>1, <2>2
<1>14. DoingOK'
  <2>1. pc'[t] # "inside" /\ doing'[t] = NoTask
    BY <1>0, <1>3, <1>9
  <2>2. \A u \in Threads \ {t} : doing'[u] = doing[u] /\ (pc'[u] = "inside" <=> pc[u] = "inside")
    BY <1>0, <1>2, <1>9 DEF SameOthers
  <2>. QED  BY <2>1, <2>2 DEF IInv, DoingOK
<1>. QED  BY <1>1, <1>10, <1>11, <1>12, <1>13, <1>14 DEF IInv

\* A helper wakes to a job, which may be over, or to the end.
LEMMA WakeNext ==
  ASSUME IInv, NEW h \in Helpers, Wake(h)
  PROVE  IInv' /\ pc'[Caller] = pc[Caller]
<1>0. /\ TypeOK /\ pc \in [Threads -> States] /\ i \in [Threads -> Nat]
      /\ n \in Nat /\ next \in Nat /\ finished \in Nat /\ next <= n /\ job \in Nat
      /\ pc[h] = "awake" /\ h \in Threads /\ h # Caller /\ h \notin Busy /\ h \notin Took
      /\ called \in SUBSET Nat /\ n_started \in 0 .. NThreads - 1 /\ stop \in BOOLEAN
      /\ seen \in [Helpers -> Nat]
      /\ IsFiniteSet(Busy) /\ Cardinality(Busy) \in Nat /\ finished + Cardinality(Busy) = next
      /\ UNCHANGED <<n_started, job, task, n, finished, stop, doing, called>>
  BY BusyFinite, ThreadFacts DEF IInv, TypeOK, States, Wake, Took, Busy, CountOK
<1>1. ASSUME NEW s \in {"exited", "asleep"}, pc' = [pc EXCEPT ![h] = s], UNCHANGED <<seen, next, i>>
      PROVE  IInv' /\ pc'[Caller] = pc[Caller]
  <2>1. /\ pc' \in [Threads -> States] /\ pc'[Caller] = pc[Caller]
        /\ \A u \in Threads : /\ pc'[u] = "took" <=> pc[u] = "took"
                              /\ pc'[u] = "inside" <=> pc[u] = "inside"
    BY <1>0, <1>1, ThreadFacts DEF States
  <2>2. Active => Active'
    BY <2>1 DEF Active
  <2>. QED  BY <1>0, <1>1, <2>1, <2>2, QuietStep
<1>2. ASSUME seen' = [seen EXCEPT ![h] = job], TakeOr(h, pc, next, n, "asleep")
      PROVE  IInv' /\ pc'[Caller] = pc[Caller]
  <2>1. SameOthers(pc, h) /\ "asleep" \in States \ {"took", "inside"}
    BY <1>0 DEF SameOthers, States
  <2>2. /\ pc' \in [Threads -> States] /\ i' \in [Threads -> Nat] /\ next' \in Nat
        /\ \A u \in Threads \ {h} : pc'[u] = pc[u] /\ i'[u] = i[u]
        /\ IF next < n
           THEN /\ Busy' = Busy \cup {h} /\ Took' = Took \cup {h}
                /\ i'[h] = next /\ next' = next + 1 /\ pc'[h] = "took"
           ELSE /\ Busy' = Busy /\ Took' = Took /\ next' = next /\ i' = i /\ pc'[h] = "asleep"
    <3>1. /\ pc' \in [Threads -> States] /\ i' \in [Threads -> Nat] /\ next' \in Nat
          /\ \A u \in Threads \ {h} : pc'[u] = pc[u] /\ i'[u] = i[u]
          /\ IF next < n
             THEN /\ Busy' = (Busy \ {h}) \cup {h} /\ Took' = (Took \ {h}) \cup {h}
                  /\ i'[h] = next /\ next' = next + 1 /\ pc'[h] = "took"
             ELSE /\ Busy' = Busy \ {h} /\ Took' = Took \ {h} /\ next' = next /\ i' = i /\ pc'[h] = "asleep"
      BY <1>0, <1>2, <2>1, TakeShape
    <3>2. Busy \ {h} = Busy /\ Took \ {h} = Took
      BY <1>0
    <3>. QED  BY <3>1, <3>2
  <2>3. pc'[Caller] = pc[Caller]
    BY <1>0, <2>2, ThreadFacts
  <2>4. Active' <=> Active
    BY <2>3 DEF Active
  <2>5. TypeOK'
    BY <1>0, <1>2, <2>2 DEF TypeOK, States
  <2>6. CountOK'
    <3>1. Cardinality(Busy \cup {h}) = Cardinality(Busy) + 1
      BY <1>0, FS_AddElement
    <3>2. finished' + Cardinality(Busy') = next' /\ next' <= n'
      <4>1. CASE next < n
        <5>1. Cardinality(Busy') = Cardinality(Busy) + 1 /\ next' = next + 1
          BY <2>2, <3>1, <4>1
        <5>. QED  BY <1>0, <4>1, <5>1
      <4>2. CASE ~(next < n)
        <5>1. Cardinality(Busy') = Cardinality(Busy) /\ next' = next
          BY <2>2, <4>2
        <5>. QED  BY <1>0, <5>1
      <4>. QED  BY <4>1, <4>2
    <3>. QED  BY <1>0, <2>4, <3>2 DEF IInv, CountOK
  <2>7. TakenOK'
    <3>0. /\ \A u \in Took : i[u] < next /\ i[u] \in Nat /\ i'[u] = i[u]
          /\ \A u, v \in Took : i[u] = i[v] => u = v
          /\ called = (0 .. next - 1) \ {i[u] : u \in Took}
      BY <1>0, <2>2 DEF IInv, TakenOK, Took
    <3>1. CASE next < n
      <4>1. {i'[u] : u \in Took'} = {i[u] : u \in Took} \cup {next}
        BY <2>2, <3>0, <3>1
      <4>2. called' = (0 .. next' - 1) \ {i'[u] : u \in Took'}
        BY <1>0, <2>2, <3>0, <3>1, <4>1
      <4>3. \A u \in Took' : i'[u] < next'
        BY <1>0, <2>2, <3>0, <3>1
      <4>4. \A u, v \in Took' : i'[u] = i'[v] => u = v
        BY <1>0, <2>2, <3>0, <3>1
      <4>. QED  BY <4>2, <4>3, <4>4 DEF TakenOK
    <3>2. CASE ~(next < n)
      BY <1>0, <2>2, <3>2 DEF IInv, TakenOK
    <3>. QED  BY <3>1, <3>2
  <2>8. DoingOK'
    BY <1>0, <2>2 DEF IInv, DoingOK
  <2>. QED  BY <2>3, <2>5, <2>6, <2>7, <2>8 DEF IInv
<1>. QED  BY <1>1, <1>2 DEF Wake

-----------------------------------------------------------------------------
LEMMA InitOK ==
  ASSUME Init
  PROVE  IInv /\ Busy = {}
<1>1. Busy = {} /\ Took = {} /\ Caller \in Threads
  BY ThreadFacts DEF Init, Busy, Took
<1>2. Cardinality(Busy) = 0
  BY <1>1, FS_EmptySet
<1>3. TypeOK
  <2>1. 0 \in 0 .. NThreads - 1
    BY PoolAssumption
  <2>. QED  BY <2>1 DEF TypeOK, Init
<1>4. CountOK
  BY <1>2 DEF CountOK, Init
<1>5. TakenOK
  BY <1>1 DEF TakenOK, Init
<1>6. DoingOK
  BY DEF DoingOK, Init
<1>. QED  BY <1>1, <1>3, <1>4, <1>5, <1>6 DEF IInv

LEMMA NextOK ==
  ASSUME IInv, [Next]_vars
  PROVE  IInv'
<1>1. CASE UNCHANGED vars
  BY <1>1, QuietStep, ThreadFacts DEF vars, shared, IInv, TypeOK, States, Active
<1>. QED  BY <1>1, CallerNext, RunNext, CallNext, FinishNext, WakeNext DEF Next, TaskStep

\* The inductive invariant.
THEOREM PoolInvariance == Spec => []IInv
BY InitOK, NextOK, PTL DEF Spec

\* The variables keep their types, and the counts stay natural numbers.
THEOREM PoolTypes == Spec => []TypeOK
<1>1. IInv => TypeOK
  BY DEF IInv
<1>. QED  BY <1>1, PoolInvariance, PTL

-----------------------------------------------------------------------------
(* The pool is a ParallelJob. *)

\* The tasks nobody has begun, as the promise names them.
Left == IF Active THEN {<<job, k>> : k \in (0 .. n - 1) \ called} ELSE {}

LEMMA MapsTo ==
  /\ Job!Init <=> /\ job = 0 /\ Left = {} /\ ~Active
                  /\ doing = [t \in Job!Threads |-> NoTask]
  /\ \A m : Job!Begin(m) <=>
       /\ ~Active /\ Job!AllIdle /\ job' = job + 1
       /\ Left' = {<<job + 1, k>> : k \in 0 .. m - 1}
       /\ Active' /\ doing' = doing
  /\ \A t, k : Job!Start(t, k) <=>
       /\ Active /\ k \in Left /\ doing[t] = NoTask
       /\ Left' = Left \ {k} /\ doing' = [doing EXCEPT ![t] = k]
       /\ job' = job /\ (Active' <=> Active)
  /\ \A t :
       /\ doing[t] # NoTask /\ doing' = [doing EXCEPT ![t] = NoTask]
       /\ Active' \/ (Left = {} /\ \A u \in Job!Threads \ {t} : doing[u] = NoTask)
       /\ job' = job /\ Left' = Left
       => Job!End(t)
  /\ Job!Return <=>
       /\ Active /\ Left = {} /\ Job!AllIdle /\ ~Active'
       /\ job' = job /\ Left' = Left /\ doing' = doing
  /\ UNCHANGED Job!vars <=> job' = job /\ Left' = Left /\ doing' = doing /\ (Active' <=> Active)
<1>1. Job!Init <=> /\ job = 0 /\ Left = {} /\ ~Active
                   /\ doing = [t \in Job!Threads |-> NoTask]
  BY DEF Job!Init, Active, Left
<1>2. ASSUME NEW m
      PROVE  Job!Begin(m) <=> /\ ~Active /\ Job!AllIdle /\ job' = job + 1
                              /\ Left' = {<<job + 1, k>> : k \in 0 .. m - 1}
                              /\ Active' /\ doing' = doing
  BY DEF Job!Begin, Active, Left
<1>3. ASSUME NEW t, NEW k
      PROVE  Job!Start(t, k) <=> /\ Active /\ k \in Left /\ doing[t] = NoTask
                                 /\ Left' = Left \ {k} /\ doing' = [doing EXCEPT ![t] = k]
                                 /\ job' = job /\ (Active' <=> Active)
  BY DEF Job!Start, Active, Left
<1>4. ASSUME NEW t, doing[t] # NoTask, doing' = [doing EXCEPT ![t] = NoTask],
             Active' \/ (Left = {} /\ \A u \in Job!Threads \ {t} : doing[u] = NoTask),
             job' = job, Left' = Left
      PROVE  Job!End(t)
  <2>. DEFINE more == Left # {} \/ \E u \in Job!Threads \ {t} : doing[u] # NoTask
  <2>1. Active' \in {TRUE} \cup {more}
    <3>1. CASE Active'
      <4>1. Active' = TRUE
        BY <3>1 DEF Active
      <4>. QED  BY <4>1
    <3>2. CASE ~Active'
      <4>1. Active' = FALSE /\ more = FALSE
        BY <1>4, <3>2 DEF Active
      <4>2. Active' = more
        BY <4>1
      <4>. QED  BY <4>2
    <3>. QED  BY <3>1, <3>2
  <2>. QED  BY <1>4, <2>1 DEF Job!End, Active, Left
<1>5. Job!Return <=> /\ Active /\ Left = {} /\ Job!AllIdle /\ ~Active'
                     /\ job' = job /\ Left' = Left /\ doing' = doing
  BY DEF Job!Return, Active, Left
<1>6. UNCHANGED Job!vars <=> job' = job /\ Left' = Left /\ doing' = doing /\ (Active' <=> Active)
  BY DEF Job!vars, Active, Left
<1>. QED  BY <1>1, <1>2, <1>3, <1>4, <1>5, <1>6

\* What is done when a run is over, of a state and of the next.
LEMMA AllDoneForm ==
  IInv /\ finished = n => called = 0 .. n - 1 /\ \A u \in Threads : doing[u] = NoTask
BY AllDone

LEMMA AllDoneNext ==
  (IInv /\ finished = n => called = 0 .. n - 1 /\ \A u \in Threads : doing[u] = NoTask)'
BY AllDoneForm, PTL

LEMMA JobThreads == Job!Threads = Threads
BY ThreadFacts DEF Job!Threads

LEMMA InitMaps ==
  ASSUME Init
  PROVE  Job!Init
<1>1. job = 0 /\ ~Active /\ Left = {}
  BY DEF Init, Active, Left, Caller, Threads
<1>2. doing = [t \in Job!Threads |-> NoTask]
  BY JobThreads DEF Init
<1>. QED  BY <1>1, <1>2, MapsTo

\* A task is called by one thread, with the job's own function, and the run
\* returns with the last.
LEMMA NextMaps ==
  ASSUME IInv, IInv', [Next]_vars
  PROVE  [Job!Next]_Job!vars
<1>0. /\ n \in Nat /\ finished \in Nat /\ next \in Nat /\ job \in Nat
      /\ doing \in [Threads -> (Nat \X Nat) \cup {NoTask}] /\ Caller \in Threads
      /\ pc \in [Threads -> States]
  BY ThreadFacts DEF IInv, TypeOK, States
<1>1. ASSUME NEW m \in 1 .. MaxN, Run(m) PROVE Job!Begin(m)
  <2>1. ~Active /\ finished = n
    BY <1>1 DEF Run, Active, IInv, CountOK
  <2>2. Job!AllIdle
    BY <2>1, AllDone, JobThreads DEF Job!AllIdle
  <2>3. Active'
    BY <1>1, RunNext DEF Active
  <2>4. job' = job + 1 /\ n' = m /\ called' = {} /\ doing' = doing
    BY <1>1 DEF Run
  <2>5. Left' = {<<job + 1, k>> : k \in 0 .. m - 1}
    BY <2>3, <2>4 DEF Left
  <2>. QED  BY <2>1, <2>2, <2>3, <2>4, <2>5, MapsTo
<1>2. ASSUME NEW t \in Threads, Call(t) PROVE \E k \in Left : Job!Start(t, k)
  <2>1. Active /\ Active' /\ i[t] \in (0 .. n - 1) \ called /\ doing[t] = NoTask
    BY <1>2, CallNext
  <2>2. /\ job' = job /\ n' = n /\ called' = called \cup {i[t]}
        /\ doing' = [doing EXCEPT ![t] = <<job, i[t]>>]
    BY <1>2 DEF Call, shared, IInv, CountOK
  <2>3. <<job, i[t]>> \in Left
    BY <2>1 DEF Left
  <2>4. Left' = Left \ {<<job, i[t]>>}
    BY <2>1, <2>2 DEF Left
  <2>5. PICK k : k = <<job, i[t]>>
    OBVIOUS
  <2>6. k \in Left /\ Left' = Left \ {k} /\ doing' = [doing EXCEPT ![t] = k]
    BY <2>2, <2>3, <2>4, <2>5
  <2>7. Job!Start(t, k)
    BY <2>1, <2>2, <2>6, MapsTo
  <2>. QED  BY <2>5, <2>6, <2>7
<1>3. ASSUME NEW t \in Threads, Finish(t) PROVE Job!End(t)
  <2>1. Active /\ (Active' \/ (t = Caller /\ finished' = n'))
    BY <1>3, FinishNext
  <2>2. /\ doing[t] # NoTask /\ doing' = [doing EXCEPT ![t] = NoTask]
        /\ job' = job /\ n' = n /\ called' = called
    BY <1>3 DEF Finish, IInv, DoingOK
  <2>3. CASE Active'
    <3>1. Left' = Left
      BY <2>1, <2>2, <2>3 DEF Left
    <3>. QED  BY <2>2, <2>3, <3>1, MapsTo
  <2>4. CASE ~Active'
    <3>2. called' = 0 .. n' - 1 /\ \A u \in Threads : doing'[u] = NoTask
      BY <2>1, <2>4, AllDoneNext
    <3>3. Left = {} /\ Left' = {}
      BY <2>2, <2>4, <3>2 DEF Left
    <3>4. \A u \in Threads \ {t} : doing[u] = NoTask
      BY <1>0, <2>2, <3>2
    <3>. QED  BY <2>2, <3>3, <3>4, JobThreads, MapsTo
  <2>. QED  BY <2>3, <2>4
<1>4. ASSUME Return PROVE Job!Return \/ UNCHANGED Job!vars
  <2>1. /\ Active /\ job' = job /\ n' = n /\ called' = called /\ doing' = doing
        /\ pc' = [pc EXCEPT ![Caller] = IF finished < n THEN "waiting" ELSE "idle"]
    BY <1>4 DEF Return, shared, Active
  <2>2. CASE finished < n
    <3>1. Active'
      BY <1>0, <2>1, <2>2 DEF Active
    <3>. QED  BY <2>1, <3>1, MapsTo DEF Left
  <2>3. CASE ~(finished < n)
    <3>1. ~Active'
      BY <1>0, <2>1, <2>3 DEF Active
    <3>2. finished = n
      BY <1>0, <2>3, BusyFinite DEF IInv, CountOK
    <3>3. called = 0 .. n - 1 /\ Job!AllIdle
      BY <3>2, AllDone, JobThreads DEF Job!AllIdle
    <3>4. Left = {} /\ Left' = {}
      BY <3>1, <3>3 DEF Left
    <3>. QED  BY <2>1, <3>1, <3>3, <3>4, MapsTo
  <2>. QED  BY <2>2, <2>3
<1>5. ASSUME NEW h \in Helpers, Wake(h) PROVE UNCHANGED Job!vars
  <2>1. job' = job /\ n' = n /\ called' = called /\ doing' = doing
    BY <1>5 DEF Wake
  <2>2. Active' <=> Active
    BY <1>5, WakeNext DEF Active
  <2>. QED  BY <2>1, <2>2, MapsTo DEF Left
<1>6. ASSUME StartThread \/ StartFails \/ Created \/ Joined \/ Free PROVE UNCHANGED Job!vars
  <2>1. job' = job /\ doing' = doing
    BY <1>6 DEF StartThread, StartFails, Created, Joined, Free, shared
  <2>2. ~Active
    BY <1>6 DEF StartThread, StartFails, Created, Joined, Free, Active
  <2>3. n_started + 1 \in Helpers => n_started + 1 # Caller
    BY ThreadFacts
  <2>4. ~Active'
    <3>1. CASE StartThread
      <4>1. n_started + 1 \in Threads /\ n_started + 1 # Caller
        BY <3>1, ThreadFacts, PoolAssumption DEF StartThread, Caller, IInv, TypeOK
      <4>. QED  BY <1>0, <2>2, <3>1, <4>1 DEF StartThread, Active
    <3>2. CASE StartFails \/ Free
      <4>1. StartAll(pc) \in [Threads -> States]
        BY StartAllSame DEF IInv, SameOthers
      <4>. QED  BY <1>0, <3>2, <4>1 DEF StartFails, Free, Active
    <3>3. CASE Created \/ Joined
      BY <1>0, <3>3 DEF Created, Joined, Active
    <3>. QED  BY <1>6, <3>1, <3>2, <3>3
  <2>. QED  BY <2>1, <2>2, <2>4, MapsTo DEF Left
<1>7. ASSUME Terminated \/ UNCHANGED vars PROVE UNCHANGED Job!vars
  BY <1>7, MapsTo DEF Terminated, vars, shared, Left, Active
<1>8. ASSUME NEW t \in Threads, TaskStep(t) PROVE Job!Next
  <2>1. t \in Job!Threads
    BY JobThreads
  <2>2. CASE Call(t)
    <3>1. PICK k \in Left : Job!Start(t, k)
      BY <1>2, <2>2
    <3>. QED  BY <2>1, <3>1 DEF Job!Next, Left, Active
  <2>3. CASE Finish(t)
    BY <1>3, <2>1, <2>3 DEF Job!Next
  <2>. QED  BY <1>8, <2>2, <2>3 DEF TaskStep
<1>9. (\A m \in 1 .. MaxN : Job!Begin(m) => Job!Next) /\ (Job!Return => Job!Next)
  BY DEF Job!Next
<1>. QED  BY <1>1, <1>4, <1>5, <1>6, <1>7, <1>8, <1>9 DEF Next, CallerStep

\* The pool does what its header promises (pool.h:4-9,40): a run calls each
\* of its tasks once, with its own function and argument, and returns when
\* all have run, whichever threads take part and however they meet.
THEOREM Refinement == Spec => ImplementsJob
<1>1. Init => Job!Init
  BY InitMaps
<1>2. IInv /\ IInv' /\ [Next]_vars => [Job!Next]_Job!vars
  BY NextMaps
<1>. QED  BY <1>1, <1>2, PoolInvariance, PTL DEF Spec, ImplementsJob, Job!Spec

-----------------------------------------------------------------------------
(* The connections.  The connection the accepting thread is at is its         *)
(* own until it is handed over, and is the only one that may be open and not  *)
(* counted: the count and the set of those counted change together.           *)

\* The connection accepted and not counted yet, and the ones counted.
FreshOne == IF s_pc = "count" THEN s_mine ELSE {}
CountedOnes == Connections!Open \ FreshOne

MineOK ==
  /\ s_pc \in {"count", "start", "serve"} => \E k \in Clients : s_mine = {k}
  /\ s_pc \notin {"count", "start", "serve"} => s_mine = {}
  /\ \A k \in Clients : at[k] = "accepted" <=> s_pc \in {"count", "start"} /\ k \in s_mine
  /\ s_pc = "serve" => \A k \in s_mine : at[k] \in {"served", "answered"}

CountedOK == Cardinality(CountedOnes) = active

\* The room found is still there when it is taken: only this thread takes any.
RoomOK == s_pc \in {"poll", "accept", "count"} => active < MaxConnections

QuietOK == s_pc \in {"returned", "freed"} => active = 0

ServerInv == Connections!TypeOK /\ MineOK /\ CountedOK /\ RoomOK /\ QuietOK

-----------------------------------------------------------------------------
\* Server's sets are counted as these are.
LEMMA SameCount ==
  /\ \A S : Connections!IsFiniteSet(S) <=> IsFiniteSet(S)
  /\ \A S : Connections!Cardinality(S) = Cardinality(S)
BY DEF Connections!IsFiniteSet, Connections!Cardinality, IsFiniteSet, Cardinality

LEMMA CountedFinite ==
  ASSUME Connections!ServerAssumption
  PROVE  /\ CountedOnes \in SUBSET Clients /\ IsFiniteSet(CountedOnes) /\ Cardinality(CountedOnes) \in Nat
         /\ Cardinality(CountedOnes) = 0 <=> CountedOnes = {}
<1>1. CountedOnes \in SUBSET Clients
  BY DEF CountedOnes, Connections!Open
<1>2. IsFiniteSet(CountedOnes)
  BY SameCount, <1>1, FS_Subset DEF Connections!ServerAssumption
<1>. QED  BY <1>1, <1>2, FS_CardinalityType, FS_EmptySet

LEMMA DropOne ==
  ASSUME Connections!ServerAssumption, NEW k \in CountedOnes
  PROVE  /\ Cardinality(CountedOnes \ {k}) = Cardinality(CountedOnes) - 1
         /\ Cardinality(CountedOnes) >= 1
<1>1. IsFiniteSet(CountedOnes \ {k}) /\ Cardinality(CountedOnes \ {k}) = Cardinality(CountedOnes) - 1
  BY CountedFinite, FS_RemoveElement
<1>2. Cardinality(CountedOnes \ {k}) \in Nat /\ Cardinality(CountedOnes) \in Nat
  BY <1>1, CountedFinite, FS_CardinalityType
<1>. QED  BY <1>1, <1>2

-----------------------------------------------------------------------------
(* Each step of theirs keeps it. *)

\* The steps of the accepting thread that neither count nor hand over.
LEMMA MovesKeep ==
  ASSUME Connections!ServerAssumption, ServerInv,
         Connections!Look \/ Connections!Room \/ Connections!Poll \/ Connections!CloseSocket
         \/ Connections!Drain \/ Connections!Free
  PROVE  ServerInv'
<1>1. UNCHANGED <<active, lost, s_mine>>
  BY DEF Connections!Look, Connections!Room, Connections!Poll, Connections!CloseSocket,
         Connections!Drain, Connections!Free
<1>2. /\ s_pc \in {"look", "room", "poll", "close", "drain", "woken", "returned"}
      /\ s_pc' \in {"look", "room", "full", "poll", "accept", "close", "drain", "draining",
                  "returned", "freed"}
  BY DEF Connections!Look, Connections!Room, Connections!Poll, Connections!CloseSocket,
         Connections!Drain, Connections!Free
<1>3. at' \in [Clients -> {"away", "waiting", "accepted", "served", "answered", "closed", "refused"}]
  BY DEF Connections!Look, Connections!Room, Connections!Poll, Connections!CloseSocket,
         Connections!Drain, Connections!Free, ServerInv, Connections!TypeOK
<1>4. \A k \in Clients : at'[k] = at[k] \/ (at[k] = "waiting" /\ at'[k] = "refused")
  <2>1. CASE Connections!CloseSocket
    <3>1. at' = [k \in Clients |-> IF k \in Connections!Waiting THEN "refused" ELSE at[k]]
      BY <2>1 DEF Connections!CloseSocket
    <3>. QED  BY <3>1 DEF Connections!Waiting
  <2>2. CASE ~Connections!CloseSocket
    <3>1. at' = at
      BY <2>2 DEF Connections!Look, Connections!Room, Connections!Poll, Connections!Drain,
             Connections!Free
    <3>. QED  BY <3>1
  <2>. QED  BY <2>1, <2>2
<1>5. Connections!TypeOK'
  BY <1>1, <1>2, <1>3 DEF ServerInv, Connections!TypeOK
<1>6. s_mine = {} /\ MineOK'
  BY <1>1, <1>2, <1>4 DEF ServerInv, MineOK
<1>7. CountedOnes' = CountedOnes
  BY <1>2, <1>4 DEF CountedOnes, Connections!Open, FreshOne
<1>8. RoomOK'
  BY DEF Connections!Look, Connections!Room, Connections!Poll, Connections!CloseSocket,
         Connections!Drain, Connections!Free, ServerInv, RoomOK, Connections!TypeOK,
         Connections!ServerAssumption
<1>9. QuietOK'
  BY DEF Connections!Look, Connections!Room, Connections!Poll, Connections!CloseSocket,
         Connections!Drain, Connections!Free, ServerInv, QuietOK, Connections!TypeOK,
         Connections!ServerAssumption
<1>. QED  BY <1>1, <1>5, <1>6, <1>7, <1>8, <1>9 DEF ServerInv, CountedOK

LEMMA AcceptKeeps ==
  ASSUME Connections!ServerAssumption, ServerInv, Connections!Accept
  PROVE  ServerInv'
<1>1. UNCHANGED <<active, lost>> /\ s_pc = "accept" /\ s_mine = {}
  BY DEF Connections!Accept, ServerInv, MineOK
<1>2. CASE s_pc' = "close" /\ UNCHANGED <<s_mine, at>>
  <2>1. CountedOnes' = CountedOnes
    BY <1>1, <1>2 DEF CountedOnes, Connections!Open, FreshOne
  <2>2. MineOK'
    BY <1>1, <1>2 DEF ServerInv, MineOK
  <2>. QED  BY <1>1, <1>2, <2>1, <2>2 DEF ServerInv, Connections!TypeOK, CountedOK, RoomOK, QuietOK
<1>3. CASE \E k \in Connections!Waiting : at' = [at EXCEPT ![k] = "accepted"] /\ s_mine' = {k} /\ s_pc' = "count"
  <2>1. PICK k \in Connections!Waiting : at' = [at EXCEPT ![k] = "accepted"] /\ s_mine' = {k} /\ s_pc' = "count"
    BY <1>3
  <2>2. k \in Clients /\ at[k] = "waiting"
    BY DEF Connections!Waiting
  <2>3. Cardinality(s_mine') = 1
    BY <2>1, FS_Singleton
  <2>4. Connections!TypeOK'
    BY SameCount, <1>1, <2>1, <2>2, <2>3 DEF ServerInv, Connections!TypeOK
  <2>5. MineOK'
    BY <1>1, <2>1, <2>2 DEF ServerInv, Connections!TypeOK, MineOK
  <2>6. CountedOnes' = CountedOnes
    BY <1>1, <2>1, <2>2 DEF CountedOnes, Connections!Open, FreshOne, ServerInv, Connections!TypeOK
  <2>. QED  BY <1>1, <2>1, <2>4, <2>5, <2>6 DEF ServerInv, CountedOK, RoomOK, QuietOK
<1>. QED  BY <1>2, <1>3 DEF Connections!Accept

LEMMA CountKeeps ==
  ASSUME Connections!ServerAssumption, ServerInv, Connections!Count
  PROVE  ServerInv'
<1>1. /\ s_pc = "count" /\ active' = active + 1 /\ s_pc' = "start"
      /\ UNCHANGED <<lost, s_mine, at>>
  BY DEF Connections!Count
<1>2. PICK k \in Clients : s_mine = {k}
  BY <1>1 DEF ServerInv, MineOK
<1>3. at[k] = "accepted" /\ k \notin CountedOnes
  BY <1>1, <1>2 DEF ServerInv, MineOK, CountedOnes, FreshOne
<1>4. CountedOnes' = CountedOnes \cup {k}
  BY <1>1, <1>2, <1>3 DEF CountedOnes, FreshOne, Connections!Open
<1>5. Cardinality(CountedOnes') = Cardinality(CountedOnes) + 1
  BY <1>3, <1>4, CountedFinite, FS_AddElement
<1>6. Connections!TypeOK'
  BY <1>1 DEF ServerInv, Connections!TypeOK, RoomOK, Connections!ServerAssumption
<1>. QED  BY <1>1, <1>5, <1>6 DEF ServerInv, MineOK, CountedOK, RoomOK, QuietOK

LEMMA StartKeeps ==
  ASSUME Connections!ServerAssumption, ServerInv, Connections!Start
  PROVE  ServerInv'
<1>1. /\ s_pc = "start" /\ UNCHANGED <<active, lost>>
      /\ at' = [k \in Clients |-> IF k \in s_mine THEN "served" ELSE at[k]]
      /\ \/ s_pc' = "look" /\ s_mine' = {}
         \/ s_pc' = "serve" /\ s_mine' = s_mine
  BY DEF Connections!Start
<1>2. Cardinality(s_mine') <= 1 /\ s_mine' \in SUBSET Clients
  BY SameCount, <1>1, FS_EmptySet DEF ServerInv, Connections!TypeOK
<1>3. Connections!TypeOK'
  BY SameCount, <1>1, <1>2 DEF ServerInv, Connections!TypeOK
<1>4. MineOK'
  BY <1>1 DEF ServerInv, Connections!TypeOK, MineOK
<1>5. CountedOnes' = CountedOnes
  BY <1>1 DEF CountedOnes, Connections!Open, FreshOne, ServerInv, MineOK
<1>. QED  BY <1>1, <1>3, <1>4, <1>5 DEF ServerInv, CountedOK, RoomOK, QuietOK

LEMMA ServedKeeps ==
  ASSUME Connections!ServerAssumption, ServerInv, Connections!Served
  PROVE  ServerInv'
<1>1. /\ s_pc = "serve" /\ UNCHANGED lost
      /\ at' = [k \in Clients |-> IF k \in s_mine THEN "closed" ELSE at[k]]
      /\ active' = active - 1 /\ s_mine' = {} /\ s_pc' = "look"
  BY DEF Connections!Served
<1>2. PICK k \in Clients : s_mine = {k}
  BY <1>1 DEF ServerInv, MineOK
<1>3. k \in CountedOnes
  BY <1>1, <1>2 DEF ServerInv, MineOK, CountedOnes, FreshOne, Connections!Open
<1>4. CountedOnes' = CountedOnes \ {k}
  BY <1>1, <1>2 DEF CountedOnes, FreshOne, Connections!Open
<1>5. Cardinality(CountedOnes') = Cardinality(CountedOnes) - 1 /\ Cardinality(CountedOnes) >= 1
  BY <1>3, <1>4, DropOne
<1>6. Cardinality(s_mine') <= 1
  BY <1>1, FS_EmptySet
<1>7. Connections!TypeOK'
  BY SameCount, <1>1, <1>5, <1>6, CountedFinite DEF ServerInv, Connections!TypeOK, CountedOK,
         Connections!ServerAssumption
<1>8. MineOK'
  BY <1>1 DEF ServerInv, Connections!TypeOK, MineOK
<1>. QED  BY <1>1, <1>5, <1>7, <1>8 DEF ServerInv, CountedOK, RoomOK, QuietOK

LEMMA UncountKeeps ==
  ASSUME Connections!ServerAssumption, ServerInv, NEW k \in Clients, Connections!Uncount(k)
  PROVE  ServerInv'
<1>1. /\ at[k] = "answered" /\ k \notin s_mine /\ at' = [at EXCEPT ![k] = "closed"]
      /\ active' = active - 1 /\ s_pc' = Connections!Signal(s_pc) /\ UNCHANGED <<lost, s_mine>>
  BY DEF Connections!Uncount
<1>2. /\ s_pc' = s_pc \/ (s_pc = "full" /\ s_pc' = "room") \/ (s_pc = "draining" /\ s_pc' = "woken")
  BY <1>1 DEF Connections!Signal
<1>3. k \in CountedOnes
  BY <1>1 DEF CountedOnes, FreshOne, Connections!Open
<1>4. CountedOnes' = CountedOnes \ {k}
  BY <1>1, <1>2 DEF CountedOnes, FreshOne, Connections!Open, ServerInv, Connections!TypeOK
<1>5. Cardinality(CountedOnes') = Cardinality(CountedOnes) - 1 /\ Cardinality(CountedOnes) >= 1
  BY <1>3, <1>4, DropOne
<1>6. Connections!TypeOK'
  BY <1>1, <1>2, <1>5, CountedFinite DEF ServerInv, Connections!TypeOK, CountedOK,
         Connections!ServerAssumption
<1>7. MineOK'
  BY <1>1, <1>2 DEF ServerInv, Connections!TypeOK, MineOK
<1>8. RoomOK'
  BY <1>1, <1>2 DEF ServerInv, Connections!TypeOK, RoomOK, Connections!ServerAssumption
<1>9. QuietOK'
  BY <1>1, <1>2, <1>5 DEF ServerInv, Connections!TypeOK, CountedOK, QuietOK
<1>. QED  BY <1>1, <1>5, <1>6, <1>7, <1>8, <1>9 DEF ServerInv, CountedOK

\* The steps of a connection, and of the device, that count nobody.
LEMMA OutsideKeeps ==
  ASSUME Connections!ServerAssumption, ServerInv, NEW k \in Clients,
         Connections!LoseDevice \/ Connections!Arrive(k) \/ Connections!Answer(k)
  PROVE  ServerInv'
<1>1. UNCHANGED <<active, s_pc, s_mine>> /\ lost' \in BOOLEAN
  BY DEF Connections!LoseDevice, Connections!Arrive, Connections!Answer, ServerInv, Connections!TypeOK
<1>2. \/ at' = at
      \/ at[k] = "away" /\ at' = [at EXCEPT ![k] = "waiting"]
      \/ at[k] = "away" /\ at' = [at EXCEPT ![k] = "refused"]
      \/ at[k] = "served" /\ at' = [at EXCEPT ![k] = "answered"]
  BY DEF Connections!LoseDevice, Connections!Arrive, Connections!Answer
<1>3. Connections!TypeOK'
  BY <1>1, <1>2 DEF ServerInv, Connections!TypeOK
<1>4. MineOK'
  BY <1>1, <1>2 DEF ServerInv, Connections!TypeOK, MineOK
<1>5. CountedOnes' = CountedOnes
  BY <1>1, <1>2 DEF CountedOnes, Connections!Open, FreshOne, ServerInv, Connections!TypeOK
<1>. QED  BY <1>1, <1>3, <1>4, <1>5 DEF ServerInv, CountedOK, RoomOK, QuietOK

\* Before the first connection and after the last.
LEMMA ServerRestOK ==
  ASSUME Connections!ServerAssumption, active = 0, lost \in BOOLEAN, s_pc \in {"look", "freed"},
         s_mine = {},
         at \in [Clients -> {"away", "closed"}]
  PROVE  ServerInv
<1>1. CountedOnes = {}
  BY DEF CountedOnes, Connections!Open
<1>2. Cardinality(CountedOnes) = 0 /\ Cardinality(s_mine) = 0
  BY <1>1, FS_EmptySet
<1>3. at \in [Clients -> {"away", "waiting", "accepted", "served", "answered", "closed", "refused"}]
  OBVIOUS
<1>4. Connections!TypeOK
  <2>1. active \in 0 .. MaxConnections
    BY DEF Connections!ServerAssumption
  <2>2. s_mine \in SUBSET Clients /\ Cardinality(s_mine) <= 1
    BY <1>2
  <2>. QED  BY SameCount, <1>3, <2>1, <2>2 DEF Connections!TypeOK
<1>. QED  BY SameCount, <1>2, <1>4 DEF ServerInv, MineOK, CountedOK, RoomOK, QuietOK, Connections!ServerAssumption

LEMMA ServerInit ==
  ASSUME Connections!ServerAssumption, Connections!Init
  PROVE  ServerInv
<1>1. at \in [Clients -> {"away", "closed"}]
  BY DEF Connections!Init
<1>. QED  BY <1>1, ServerRestOK DEF Connections!Init

LEMMA ServerStutter ==
  ASSUME ServerInv, UNCHANGED (Connections!vars)
  PROVE  ServerInv'
BY DEF Connections!vars, ServerInv, Connections!TypeOK, MineOK, CountedOK, RoomOK, QuietOK,
       CountedOnes, Connections!Open, FreshOne

LEMMA ServerNext ==
  ASSUME Connections!ServerAssumption, ServerInv, [Connections!Next]_(Connections!vars)
  PROVE  ServerInv'
<1>1. CASE Connections!ServerStep
  BY <1>1, MovesKeep, AcceptKeeps, CountKeeps, StartKeeps, ServedKeeps DEF Connections!ServerStep
<1>2. CASE \E k \in Clients : Connections!Arrive(k) \/ Connections!Answer(k) \/ Connections!Uncount(k)
  BY <1>2, OutsideKeeps, UncountKeeps
<1>3. CASE Connections!LoseDevice
  BY <1>3, OutsideKeeps DEF Connections!LoseDevice
<1>4. CASE UNCHANGED (Connections!vars)
  BY <1>4, ServerStutter
<1>. QED  BY <1>1, <1>2, <1>3, <1>4 DEF Connections!Next, Connections!Terminated

LEMMA CountedRight ==
  ASSUME Connections!ServerAssumption, ServerInv
  PROVE  Connections!OpenIsCounted
<1>1. CASE s_pc = "count"
  <2>1. PICK k \in Clients : s_mine = {k}
    BY <1>1 DEF ServerInv, MineOK
  <2>2. Connections!Open = CountedOnes \cup {k} /\ k \notin CountedOnes
    BY <1>1, <2>1 DEF ServerInv, MineOK, CountedOnes, FreshOne, Connections!Open
  <2>3. Cardinality(Connections!Open) = Cardinality(CountedOnes) + 1
    BY <2>2, CountedFinite, FS_AddElement
  <2>. QED  BY SameCount, <1>1, <2>3 DEF ServerInv, Connections!OpenIsCounted, CountedOK, RoomOK,
           Connections!TypeOK, Connections!ServerAssumption
<1>2. CASE s_pc # "count"
  <2>1. Connections!Open = CountedOnes
    BY <1>2 DEF CountedOnes, FreshOne
  <2>. QED  BY SameCount, <1>2, <2>1 DEF ServerInv, Connections!OpenIsCounted, CountedOK, Connections!TypeOK,
           Connections!ServerAssumption
<1>. QED  BY <1>1, <1>2

LEMMA QuietReturn ==
  ASSUME Connections!ServerAssumption, ServerInv
  PROVE  Connections!ReturnsQuiet
<1>1. SUFFICES ASSUME s_pc \in {"returned", "freed"} PROVE Connections!Open = {}
  BY DEF Connections!ReturnsQuiet
<1>2. Cardinality(CountedOnes) = 0 /\ Connections!Open = CountedOnes
  BY <1>1 DEF ServerInv, CountedOK, QuietOK, CountedOnes, FreshOne
<1>. QED  BY <1>2, CountedFinite

-----------------------------------------------------------------------------
(* The threads that take tokens.  The jobs of a round are those not handed out,*)
(* those a thread is at, and those done; a stream is one number behind what   *)
(* its job is due from the listing of the job to the storing of its stream.   *)

\* A thread at a job, and the scheduler with none out.
Working == {"took", "loaded", "drawn", "stored"}
NoneOut == {"idle", "starting", "listed"}
TakeStates == Working \cup NoneOut \cup {"waiting", "woken", "unborn", "awake", "asleep", "exited"}

\* The places of the round's jobs, and the jobs yet to be handed out.
Filled == {k \in Take!Jobs : t_jobs[k] # Take!NoJob}
NotTaken == {t_jobs[k] : k \in IF t_pc[Take!Scheduler] = "listed" THEN Filled ELSE t_next + 1 .. t_n}

\* The jobs whose streams are a number behind.
InTake == {t_mine[t] : t \in {u \in Take!At : t_pc[u] # "stored"}}
Behind == NotTaken \cup InTake

ListOK ==
  /\ Filled = 1 .. Cardinality(Filled)
  /\ \A k, m \in Filled : t_jobs[k] = t_jobs[m] => k = m
  /\ t_pc[Take!Scheduler] # "listed" => t_n = Cardinality(Filled)

PendingOK ==
  /\ t_next <= t_n
  /\ t_pending = Cardinality(Take!At) + (t_n - t_next)
  /\ t_pc[Take!Scheduler] \in NoneOut => t_pending = 0

\* The jobs threads are at are of those handed out, and no two the same.
OwnJobs ==
  /\ \A t \in Take!At : \E k \in Filled : k <= t_next /\ t_mine[t] = t_jobs[k]
  /\ \A t, u \in Take!At : t_mine[t] = t_mine[u] => t = u

StreamsOK ==
  /\ \A j \in Take!Jobs : t_rng[j] = <<j, IF j \in Behind THEN t_due[j] - 1 ELSE t_due[j]>>
  /\ \A t \in Take!Threads : t_pc[t] = "loaded" => t_sampler[t] = t_rng[t_mine[t]]
  /\ \A t \in Take!Threads : t_pc[t] = "drawn" => t_sampler[t] = <<t_mine[t], t_due[t_mine[t]]>>

TakeInv == Take!TypeOK /\ ListOK /\ PendingOK /\ OwnJobs /\ StreamsOK

-----------------------------------------------------------------------------
LEMMA TakeCount ==
  \A S : Take!Cardinality(S) = Cardinality(S)
BY DEF Take!Cardinality, Cardinality

LEMMA TakeThreads ==
  ASSUME Take!TakeAssumption
  PROVE  /\ Take!Scheduler \in Take!Threads /\ Take!Workers \subseteq Take!Threads /\ Take!Scheduler \notin Take!Workers
         /\ Take!Threads = Take!Workers \cup {Take!Scheduler} /\ IsFiniteSet(Take!Threads)
         /\ IsFiniteSet(Take!Jobs) /\ Cardinality(Take!Jobs) = MaxLive /\ Take!NoJob \notin Take!Jobs
<1>1. Takers - 1 \in Int /\ 1 \in Int /\ MaxLive \in Nat /\ MaxLive >= 1
  BY DEF Take!TakeAssumption
<1>2. IsFiniteSet(Take!Workers) /\ IsFiniteSet(Take!Jobs) /\ Cardinality(Take!Jobs) = MaxLive
  BY <1>1, FS_Interval DEF Take!Workers, Take!Jobs
<1>3. IsFiniteSet({Take!Scheduler}) /\ IsFiniteSet(Take!Threads)
  BY <1>2, FS_Singleton, FS_Union DEF Take!Threads
<1>4. Take!Scheduler \notin Take!Workers /\ Take!NoJob \notin Take!Jobs
  BY <1>1 DEF Take!Scheduler, Take!Workers, Take!NoJob, Take!Jobs
<1>. QED  BY <1>2, <1>3, <1>4 DEF Take!Threads

LEMMA AtFinite ==
  ASSUME Take!TakeAssumption
  PROVE  /\ Take!At \in SUBSET Take!Threads /\ IsFiniteSet(Take!At) /\ Cardinality(Take!At) \in Nat
         /\ Cardinality(Take!At) = 0 <=> Take!At = {}
<1>1. Take!At \in SUBSET Take!Threads
  BY DEF Take!At
<1>2. IsFiniteSet(Take!At)
  BY <1>1, TakeThreads, FS_Subset
<1>. QED  BY <1>1, <1>2, FS_CardinalityType, FS_EmptySet

\* While the scheduler has no round out, no thread is at a job.
LEMMA QuietAtNone ==
  ASSUME Take!TakeAssumption, TakeInv, t_pc[Take!Scheduler] \in NoneOut
  PROVE  Take!At = {} /\ t_next = t_n /\ t_pending = 0
<1>1. t_n \in Nat /\ t_next \in Nat /\ t_pending \in Nat
  BY DEF TakeInv, Take!TypeOK
<1>2. t_next <= t_n /\ t_pending = 0 /\ t_pending = Cardinality(Take!At) + (t_n - t_next)
  BY DEF TakeInv, PendingOK
<1>3. Cardinality(Take!At) = 0 /\ t_next = t_n
  BY <1>1, <1>2, AtFinite
<1>. QED  BY <1>2, <1>3, AtFinite

LEMMA FilledFinite ==
  ASSUME Take!TakeAssumption
  PROVE  /\ Filled \in SUBSET Take!Jobs /\ IsFiniteSet(Filled) /\ Cardinality(Filled) \in Nat
<1>1. Filled \in SUBSET Take!Jobs
  BY DEF Filled
<1>2. IsFiniteSet(Filled)
  BY <1>1, TakeThreads, FS_Subset
<1>. QED  BY <1>1, <1>2, FS_CardinalityType

\* The job a thread is at has been handed out, and is no other thread's.
LEMMA MineIsOwn ==
  ASSUME Take!TakeAssumption, TakeInv, NEW t \in Take!At
  PROVE  /\ t_mine[t] \in Take!Jobs
         /\ t_mine[t] \notin NotTaken
         /\ t_pc[t] = "stored" => t_mine[t] \notin Behind
         /\ \A u \in Take!At \ {t} : t_mine[u] # t_mine[t]
<1>1. PICK k \in Filled : k <= t_next /\ t_mine[t] = t_jobs[k]
  BY DEF TakeInv, OwnJobs
<1>2. t_mine[t] \in Take!Jobs
  BY <1>1 DEF TakeInv, Take!TypeOK, Filled
<1>3. t_pc[Take!Scheduler] # "listed" /\ t_n = Cardinality(Filled) /\ Filled = 1 .. t_n
  BY QuietAtNone DEF NoneOut, TakeInv, ListOK
<1>4. t_mine[t] \notin NotTaken
  <2>1. SUFFICES ASSUME NEW m \in t_next + 1 .. t_n, t_jobs[m] = t_mine[t] PROVE FALSE
    BY <1>3 DEF NotTaken
  <2>2. t_n \in Nat /\ t_next \in Nat
    BY DEF TakeInv, Take!TypeOK
  <2>3. m \in Filled /\ m > t_next
    <3>1. m \in Int /\ t_next < m /\ m <= t_n
      BY <2>1, <2>2
    <3>2. m \in 1 .. t_n
      BY <2>2, <3>1
    <3>. QED  BY <1>3, <3>1, <3>2
  <2>4. m = k
    BY <1>1, <2>1, <2>3 DEF TakeInv, ListOK
  <2>. QED  BY <1>1, <1>3, <2>2, <2>3, <2>4
<1>5. \A u \in Take!At \ {t} : t_mine[u] # t_mine[t]
  BY DEF TakeInv, OwnJobs
<1>6. t_pc[t] = "stored" => t_mine[t] \notin Behind
  BY <1>4, <1>5 DEF Behind, InTake
<1>. QED  BY <1>2, <1>4, <1>5, <1>6

-----------------------------------------------------------------------------
(* Each step of theirs keeps it. *)

\* Who wakes whom leaves those at a job, and the scheduler's being quiet, alone.
OthersAtWork(p, t) ==
  /\ p \in [Take!Threads -> TakeStates]
  /\ \A u \in Take!Threads \ {t} :
       \/ p[u] = t_pc[u]
       \/ u \in Take!Workers /\ t_pc[u] = "asleep" /\ p[u] = "awake"
       \/ u = Take!Scheduler /\ t_pc[u] = "waiting" /\ p[u] = "woken"

LEMMA WakesNobodyElse ==
  ASSUME Take!TakeAssumption, Take!TypeOK, NEW t
  PROVE  OthersAtWork(t_pc, t) /\ OthersAtWork(Take!WorkAll(t_pc), t) /\ OthersAtWork(Take!SignalDone(t_pc), t)
<1>1. t_pc \in [Take!Threads -> TakeStates]
  BY DEF Take!TypeOK, TakeStates, Working, NoneOut
<1>2. OthersAtWork(t_pc, t)
  BY <1>1 DEF OthersAtWork
<1>3. OthersAtWork(Take!WorkAll(t_pc), t)
  BY <1>1 DEF OthersAtWork, Take!WorkAll, TakeStates
<1>4. OthersAtWork(Take!SignalDone(t_pc), t)
  BY <1>1, TakeThreads DEF OthersAtWork, Take!SignalDone, TakeStates
<1>. QED  BY <1>2, <1>3, <1>4

\* The loops over pool_next: a thread with nothing of its own takes the next
\* job, and so no job is lost and no stream gets further behind.
LEMMA NextJobKeeps ==
  ASSUME Take!TakeAssumption, TakeInv, NEW t \in Take!Threads, t_pc[t] \notin {"took", "loaded", "drawn"},
         NEW p, OthersAtWork(p, t), NEW from \in Nat, NEW none \in TakeStates \ Working,
         from <= Cardinality(Filled), t_n' = Cardinality(Filled),
         Take!NextJob(t, p, from, Cardinality(Filled), none),
         Behind = {t_jobs[k] : k \in from + 1 .. Cardinality(Filled)} \cup InTake,
         t_pending' = Cardinality(Take!At \ {t}) + (Cardinality(Filled) - from),
         \A u \in Take!At \ {t} : \E k \in Filled : k <= from /\ t_mine[u] = t_jobs[k],
         t_pc'[Take!Scheduler] # "listed", t_pc'[Take!Scheduler] \in NoneOut => t_pending' = 0,
         UNCHANGED <<t_started, t_jobs, t_stop, t_sampler, t_rng, t_due>>,
         t_round' \in Nat, t_seen' \in [Take!Workers -> Nat]
  PROVE  TakeInv'
<1>. DEFINE m == Cardinality(Filled)  rest == Take!At \ {t}
<1>1. /\ m \in Nat /\ Filled = 1 .. m /\ Filled' = Filled
      /\ IsFiniteSet(rest) /\ Cardinality(rest) \in Nat
  BY FilledFinite, AtFinite, FS_Subset, FS_CardinalityType DEF TakeInv, ListOK, Filled
<1>2. /\ t_pc \in [Take!Threads -> TakeStates] /\ p \in [Take!Threads -> TakeStates]
      /\ t_mine \in [Take!Threads -> Take!Jobs \cup {Take!NoJob}] /\ t_jobs \in [Take!Jobs -> Take!Jobs \cup {Take!NoJob}]
  BY DEF TakeInv, Take!TypeOK, OthersAtWork, TakeStates, Working, NoneOut
<1>3. CASE from < m
  <2>1. /\ t_mine' = [t_mine EXCEPT ![t] = t_jobs[from + 1]] /\ t_next' = from + 1
        /\ t_pc' = [p EXCEPT ![t] = "took"]
    BY <1>3 DEF Take!NextJob
  <2>2. from + 1 \in Filled /\ from + 1 \in Take!Jobs /\ t_jobs[from + 1] \in Take!Jobs
    <3>1. from + 1 \in 1 .. m
      BY <1>1, <1>3
    <3>2. from + 1 \in Filled
      BY <1>1, <3>1
    <3>. QED  BY <1>2, <3>2 DEF Filled
  <2>3. /\ t_pc' \in [Take!Threads -> TakeStates] /\ t_pc'[t] = "took" /\ t_mine'[t] = t_jobs[from + 1]
        /\ t_mine' \in [Take!Threads -> Take!Jobs \cup {Take!NoJob}]
        /\ \A u \in Take!Threads \ {t} : t_mine'[u] = t_mine[u] /\ t_pc'[u] = p[u]
    BY <1>2, <2>1, <2>2 DEF TakeStates, Working
  <2>4. Take!At' = rest \cup {t} /\ t \notin rest
    BY <1>2, <2>3 DEF Take!At, OthersAtWork
  <2>5. Cardinality(Take!At') = Cardinality(rest) + 1
    BY <1>1, <2>4, FS_AddElement
  <2>6. InTake' = InTake \cup {t_jobs[from + 1]}
    <3>1. {u \in Take!At : t_pc[u] # "stored"}' = {u \in Take!At : t_pc[u] # "stored"} \cup {t}
      BY <1>2, <2>3, <2>4 DEF Take!At, OthersAtWork
    <3>2. t \notin {u \in Take!At : t_pc[u] # "stored"}
      BY DEF Take!At
    <3>3. \A u \in {w \in Take!At : t_pc[w] # "stored"} : t_mine'[u] = t_mine[u]
      BY <2>3, <3>2, AtFinite
    <3>. QED  BY <2>3, <3>1, <3>3 DEF InTake
  <2>7. NotTaken' = {t_jobs[k] : k \in from + 2 .. m}
    BY <2>1, <1>1 DEF NotTaken
  <2>8. Behind' = Behind
    <3>1. from + 1 .. m = {from + 1} \cup (from + 2 .. m)
      BY <1>1, <1>3
    <3>. QED  BY <2>6, <2>7, <3>1 DEF Behind
  <2>9. Take!TypeOK'
    BY <1>1, <2>1, <2>3, SMTT(20) DEF TakeInv, Take!TypeOK, TakeStates, Working, NoneOut
  <2>10. ListOK'
    BY <1>1 DEF TakeInv, ListOK
  <2>11. PendingOK'
    <3>0. t_pending' = Cardinality(rest) + (m - from) /\ t_n' = m
      OBVIOUS
    <3>. HIDE DEF m, rest
    <3>1. t_pending' = Cardinality(Take!At') + (m - t_next') /\ t_next' <= t_n'
      BY <1>1, <1>3, <2>1, <2>5, <3>0
    <3>2. t_pc'[Take!Scheduler] \in NoneOut => t_pending' = 0
      OBVIOUS
    <3>. QED  BY <3>0, <3>1, <3>2 DEF PendingOK
  <2>12. OwnJobs'
    <3>1. ASSUME NEW u \in Take!At' PROVE \E k \in Filled : k <= from + 1 /\ t_mine'[u] = t_jobs[k]
      <4>1. CASE u = t
        BY <4>1, <2>2, <2>3
      <4>2. CASE u # t
        <5>1. u \in rest /\ t_mine'[u] = t_mine[u]
          BY <4>2, <2>3, <2>4, <3>1, AtFinite
        <5>2. PICK k \in Filled : k <= from /\ t_mine[u] = t_jobs[k]
          BY <5>1
        <5>. QED  BY <1>1, <5>1, <5>2
      <4>. QED  BY <4>1, <4>2
    <3>2. ASSUME NEW u \in rest PROVE t_mine'[u] = t_mine[u] /\ t_mine'[u] # t_mine'[t]
      <4>1. PICK k \in Filled : k <= from /\ t_mine[u] = t_jobs[k]
        OBVIOUS
      <4>2. k # from + 1
        BY <1>1, <4>1
      <4>3. t_mine'[u] = t_mine[u]
        BY <2>3, AtFinite
      <4>. QED  BY <2>2, <2>3, <4>1, <4>2, <4>3 DEF TakeInv, ListOK
    <3>3. \A u, w \in Take!At' : t_mine'[u] = t_mine'[w] => u = w
      BY <2>4, <3>2 DEF TakeInv, OwnJobs
    <3>. QED  BY <1>1, <2>1, <3>1, <3>3 DEF OwnJobs
  <2>13. StreamsOK'
    <3>1. \A u \in Take!Threads : t_pc'[u] \in {"loaded", "drawn"} =>
            u # t /\ t_pc'[u] = t_pc[u] /\ t_mine'[u] = t_mine[u]
      BY <1>2, <2>3 DEF OthersAtWork
    <3>. QED  BY <2>8, <3>1 DEF TakeInv, StreamsOK
  <2>. QED  BY <2>9, <2>10, <2>11, <2>12, <2>13 DEF TakeInv
<1>4. CASE ~(from < m)
  <2>1. /\ t_mine' = [t_mine EXCEPT ![t] = Take!NoJob] /\ t_next' = from
        /\ t_pc' = [p EXCEPT ![t] = none] /\ from = m
    BY <1>1, <1>4 DEF Take!NextJob
  <2>2. /\ t_pc' \in [Take!Threads -> TakeStates] /\ t_pc'[t] = none
        /\ t_mine' \in [Take!Threads -> Take!Jobs \cup {Take!NoJob}]
        /\ \A u \in Take!Threads \ {t} : t_mine'[u] = t_mine[u] /\ t_pc'[u] = p[u]
    BY <1>2, <2>1
  <2>3. Take!At' = rest
    BY <1>2, <2>2 DEF Take!At, OthersAtWork, Working
  <2>4. Behind' = Behind
    <3>1. {u \in Take!At : t_pc[u] # "stored"}' = {u \in Take!At : t_pc[u] # "stored"}
      BY <1>2, <2>2, <2>3 DEF Take!At, OthersAtWork
    <3>2. \A u \in {w \in Take!At : t_pc[w] # "stored"} : t_mine'[u] = t_mine[u]
      BY <2>2, AtFinite DEF Take!At
    <3>3. InTake' = InTake
      BY <3>1, <3>2 DEF InTake
    <3>4. NotTaken' = {t_jobs[k] : k \in from + 1 .. m}
      BY <2>1, <1>1 DEF NotTaken
    <3>. QED  BY <3>3, <3>4 DEF Behind
  <2>5. Take!TypeOK'
    <3>1. t_n' \in Nat /\ t_next' \in Nat /\ t_pending' \in Nat
      BY <1>1, <2>1
    <3>. QED  BY <3>1, <2>2 DEF TakeInv, Take!TypeOK, TakeStates, Working, NoneOut
  <2>6. ListOK'
    BY <1>1 DEF TakeInv, ListOK
  <2>7. PendingOK'
    BY <1>1, <2>1, <2>3 DEF PendingOK
  <2>8. OwnJobs'
    <3>1. \A u \in rest : u \in Take!At /\ t_mine'[u] = t_mine[u]
      BY <2>2, AtFinite
    <3>2. \A u \in rest : \E k \in Filled : k <= t_next' /\ t_mine'[u] = t_jobs[k]
      BY <2>1, <3>1
    <3>3. \A u, w \in rest : t_mine'[u] = t_mine'[w] => u = w
      BY <3>1 DEF TakeInv, OwnJobs
    <3>. QED  BY <1>1, <2>3, <3>2, <3>3 DEF OwnJobs
  <2>9. StreamsOK'
    <3>1. \A u \in Take!Threads : t_pc'[u] \in {"loaded", "drawn"} =>
            u # t /\ t_pc'[u] = t_pc[u] /\ t_mine'[u] = t_mine[u]
      BY <1>2, <2>2 DEF OthersAtWork, Working
    <3>. QED  BY <2>4, <3>1 DEF TakeInv, StreamsOK
  <2>. QED  BY <2>5, <2>6, <2>7, <2>8, <2>9 DEF TakeInv
<1>. QED  BY <1>3, <1>4

\* Those that hand out no job and move nobody at one.
LEMMA QuietKeeps ==
  ASSUME Take!TakeAssumption, TakeInv, t_pc' \in [Take!Threads -> TakeStates],
         \A u \in Take!Threads : t_pc[u] \in Working \/ t_pc'[u] \in Working => t_pc'[u] = t_pc[u],
         UNCHANGED <<t_n, t_next, t_pending, t_jobs, t_mine, t_sampler, t_rng, t_due>>,
         t_pc[Take!Scheduler] = "listed" <=> t_pc'[Take!Scheduler] = "listed",
         t_pc'[Take!Scheduler] \in NoneOut => t_pending = 0,
         t_started' \in 0 .. Takers - 1, t_stop' \in BOOLEAN, t_seen' \in [Take!Workers -> Nat], t_round' \in Nat
  PROVE  TakeInv'
<1>1. Take!At' = Take!At /\ {u \in Take!At : t_pc[u] # "stored"}' = {u \in Take!At : t_pc[u] # "stored"}
  BY DEF Take!At, Working
<1>2. Behind' = Behind /\ Filled' = Filled
  BY <1>1 DEF Behind, NotTaken, InTake, Filled
<1>3. Take!TypeOK'
  BY DEF TakeInv, Take!TypeOK, TakeStates, Working, NoneOut
<1>4. ListOK' /\ PendingOK' /\ OwnJobs'
  BY <1>1, <1>2 DEF TakeInv, ListOK, PendingOK, OwnJobs
<1>5. StreamsOK'
  BY <1>2 DEF TakeInv, StreamsOK, Working
<1>. QED  BY <1>3, <1>4, <1>5 DEF TakeInv

LEMMA BeginKeeps ==
  ASSUME Take!TakeAssumption, TakeInv, Take!Begin
  PROVE  TakeInv'
<1>1. t_pc \in [Take!Threads -> TakeStates]
  BY DEF TakeInv, Take!TypeOK, TakeStates, Working, NoneOut
<1>2. t_pending = 0
  BY QuietAtNone DEF Take!Begin, NoneOut
<1>3. /\ t_pc' \in [Take!Threads -> TakeStates]
      /\ \A u \in Take!Threads : t_pc[u] \in Working \/ t_pc'[u] \in Working => t_pc'[u] = t_pc[u]
      /\ t_pc'[Take!Scheduler] # "listed" /\ t_pc[Take!Scheduler] # "listed"
  BY <1>1, TakeThreads DEF Take!Begin, TakeStates, Working, NoneOut
<1>4. UNCHANGED <<t_started, t_n, t_next, t_pending, t_round, t_jobs, t_stop, t_seen, t_mine, t_sampler, t_rng, t_due>>
  BY DEF Take!Begin, Take!pool
<1>. QED  BY <1>2, <1>3, <1>4, QuietKeeps DEF TakeInv, Take!TypeOK

LEMMA StartWorkerKeeps ==
  ASSUME Take!TakeAssumption, TakeInv, Take!StartWorker
  PROVE  TakeInv'
<1>1. t_pc \in [Take!Threads -> TakeStates] /\ t_started \in 0 .. Takers - 1
  BY DEF TakeInv, Take!TypeOK, TakeStates, Working, NoneOut
<1>2. t_pending = 0 /\ Take!At = {}
  BY QuietAtNone DEF Take!StartWorker, NoneOut
<1>3. /\ t_started + 1 < Takers /\ t_started' = t_started + 1 /\ t_pc[Take!Scheduler] = "starting"
      /\ t_pc' = [t_pc EXCEPT ![t_started + 1] = "awake"]
      /\ UNCHANGED <<t_n, t_next, t_pending, t_round, t_jobs, t_stop, t_seen, t_mine, t_sampler, t_rng, t_due>>
  BY DEF Take!StartWorker, Take!pool
<1>4. t_started + 1 \in Take!Workers /\ t_started' \in 0 .. Takers - 1
  BY <1>1, <1>3 DEF Take!Workers, Take!TakeAssumption
<1>5. t_started + 1 \in Take!Threads \ {Take!Scheduler}
  BY <1>4, TakeThreads
<1>6. \A u \in Take!Threads : t_pc[u] \notin Working
  BY <1>2 DEF Take!At, Working
<1>7. /\ t_pc' \in [Take!Threads -> TakeStates]
      /\ \A u \in Take!Threads : t_pc[u] \in Working \/ t_pc'[u] \in Working => t_pc'[u] = t_pc[u]
      /\ t_pc'[Take!Scheduler] = "starting"
  BY <1>1, <1>3, <1>5, <1>6, TakeThreads DEF TakeStates, Working, NoneOut
<1>. QED  BY <1>2, <1>3, <1>4, <1>7, QuietKeeps DEF TakeInv, Take!TypeOK

LEMMA StopKeeps ==
  ASSUME Take!TakeAssumption, TakeInv, Take!Stop
  PROVE  TakeInv'
<1>1. t_pc \in [Take!Threads -> TakeStates]
  BY DEF TakeInv, Take!TypeOK, TakeStates, Working, NoneOut
<1>2. t_pending = 0
  BY QuietAtNone DEF Take!Stop, NoneOut
<1>3. /\ t_pc' \in [Take!Threads -> TakeStates]
      /\ \A u \in Take!Threads : t_pc[u] \in Working \/ t_pc'[u] \in Working => t_pc'[u] = t_pc[u]
      /\ t_pc'[Take!Scheduler] = t_pc[Take!Scheduler]
  BY <1>1, TakeThreads DEF Take!Stop, Take!WorkAll, TakeStates, Working, NoneOut
<1>4. UNCHANGED <<t_started, t_n, t_next, t_pending, t_round, t_jobs, t_seen, t_mine, t_sampler, t_rng, t_due>> /\ t_stop' = TRUE
  BY DEF Take!Stop, Take!pool
<1>. QED  BY <1>2, <1>3, <1>4, QuietKeeps DEF TakeInv, Take!TypeOK

LEMMA WokenKeeps ==
  ASSUME Take!TakeAssumption, TakeInv, Take!Woken
  PROVE  TakeInv'
<1>1. t_pc \in [Take!Threads -> TakeStates] /\ t_pending \in Nat
  BY DEF TakeInv, Take!TypeOK, TakeStates, Working, NoneOut
<1>2. /\ t_pc' \in [Take!Threads -> TakeStates]
      /\ \A u \in Take!Threads : t_pc[u] \in Working \/ t_pc'[u] \in Working => t_pc'[u] = t_pc[u]
      /\ t_pc'[Take!Scheduler] # "listed" /\ t_pc[Take!Scheduler] # "listed"
      /\ t_pc'[Take!Scheduler] \in NoneOut => t_pending = 0
  BY <1>1, TakeThreads DEF Take!Woken, TakeStates, Working, NoneOut
<1>3. UNCHANGED <<t_started, t_n, t_next, t_pending, t_round, t_jobs, t_stop, t_seen, t_mine, t_sampler, t_rng, t_due>>
  BY DEF Take!Woken, Take!pool
<1>. QED  BY <1>2, <1>3, QuietKeeps DEF TakeInv, Take!TypeOK

\* The jobs of a round are listed while the last round's streams are all even.
LEMMA ListKeeps ==
  ASSUME Take!TakeAssumption, TakeInv, NEW S \in SUBSET Take!Jobs, Take!List(S)
  PROVE  TakeInv'
<1>. DEFINE m == Cardinality(S)
<1>1. IsFiniteSet(S) /\ m \in Nat /\ m <= MaxLive /\ MaxLive \in Nat
  BY TakeThreads, FS_Subset, FS_CardinalityType DEF Take!TakeAssumption
<1>2. /\ t_pc[Take!Scheduler] = "starting" /\ t_pc' = [t_pc EXCEPT ![Take!Scheduler] = "listed"]
      /\ t_due' = [j \in Take!Jobs |-> IF j \in S THEN t_due[j] + 1 ELSE t_due[j]]
      /\ UNCHANGED <<t_started, t_n, t_next, t_pending, t_round, t_stop, t_seen, t_mine, t_sampler, t_rng>>
  BY DEF Take!List, Take!pool
<1>3. /\ t_jobs' \in [Take!Jobs -> S \cup {Take!NoJob}]
      /\ \A k \in Take!Jobs : t_jobs'[k] = Take!NoJob <=> k > m
      /\ \A k, l \in 1 .. m : k < l => t_jobs'[k] < t_jobs'[l]
  BY TakeCount DEF Take!List
<1>4. Take!At = {} /\ t_next = t_n /\ t_pending = 0
  BY <1>2, QuietAtNone DEF NoneOut
<1>5. t_pc \in [Take!Threads -> TakeStates]
  BY DEF TakeInv, Take!TypeOK, TakeStates, Working, NoneOut
<1>6. /\ t_pc' \in [Take!Threads -> TakeStates] /\ t_pc'[Take!Scheduler] = "listed"
      /\ \A u \in Take!Threads : t_pc'[u] \notin Working
  BY <1>2, <1>4, <1>5, TakeThreads DEF Take!At, TakeStates, Working, NoneOut
<1>7. Take!At' = {}
  BY <1>6 DEF Take!At, Working
<1>8. Filled' = 1 .. m
  BY <1>1, <1>3 DEF Filled, Take!Jobs
<1>9. Cardinality(Filled') = m /\ Cardinality(1 .. m) = m
  BY <1>1, <1>8, FS_Interval
<1>10. \A k \in 1 .. m : t_jobs'[k] \in S /\ t_jobs'[k] \in Int
  <2>1. ASSUME NEW k \in 1 .. m PROVE t_jobs'[k] \in S
    <3>1. k \in Take!Jobs /\ ~(k > m)
      BY <1>1 DEF Take!Jobs
    <3>. QED  BY <1>3, <3>1
  <2>2. S \subseteq Int
    BY DEF Take!Jobs
  <2>. QED  BY <2>1, <2>2
<1>11. \A k, l \in 1 .. m : t_jobs'[k] = t_jobs'[l] => k = l
  BY <1>1, <1>3, <1>10
<1>12. \A j \in S : \E k \in 1 .. m : t_jobs'[k] = j
  <2>. DEFINE f == [k \in 1 .. m |-> t_jobs'[k]]
  <2>1. f \in Injection(1 .. m, S)
    <3>1. f \in [1 .. m -> S]
      BY <1>10
    <3>2. \A k, l \in 1 .. m : f[k] = f[l] => k = l
      BY <1>11
    <3>. HIDE DEF f
    <3>. QED  BY <3>1, <3>2 DEF Injection, IsInjective
  <2>2. f \in Surjection(1 .. m, S)
    BY <2>1, <1>1, <1>9, FS_Injection
  <2>. QED  BY <2>2 DEF Surjection
<1>13. Behind = {}
  <2>1. t_n \in Nat
    BY DEF TakeInv, Take!TypeOK
  <2>2. t_n + 1 .. t_n = {}
    BY <2>1
  <2>3. NotTaken = {} /\ InTake = {}
    BY <1>2, <1>4, <2>2 DEF NotTaken, InTake
  <2>. QED  BY <2>3 DEF Behind
<1>14. Behind' = S
  <2>1. NotTaken' = S
    BY <1>6, <1>8, <1>10, <1>12 DEF NotTaken
  <2>2. InTake' = {}
    BY <1>7 DEF InTake
  <2>. QED  BY <2>1, <2>2 DEF Behind
<1>15. Take!TypeOK'
  <2>1. t_jobs' \in [Take!Jobs -> Take!Jobs \cup {Take!NoJob}]
    BY <1>3
  <2>2. t_due' \in [Take!Jobs -> Nat]
    BY <1>2 DEF TakeInv, Take!TypeOK
  <2>. QED  BY <1>2, <1>6, <2>1, <2>2 DEF TakeInv, Take!TypeOK, TakeStates, Working, NoneOut
<1>16. ListOK'
  BY <1>6, <1>8, <1>9, <1>11 DEF ListOK
<1>17. PendingOK' /\ OwnJobs'
  <2>1. Cardinality(Take!At') = 0
    BY <1>7, FS_EmptySet
  <2>. QED  BY <1>2, <1>4, <1>7, <2>1 DEF TakeInv, Take!TypeOK, PendingOK, OwnJobs
<1>18. StreamsOK'
  <2>1. \A j \in Take!Jobs : t_due[j] \in Nat /\ t_rng[j] = <<j, t_due[j]>>
    BY <1>13 DEF TakeInv, Take!TypeOK, StreamsOK
  <2>2. \A j \in Take!Jobs : t_due'[j] = IF j \in S THEN t_due[j] + 1 ELSE t_due[j]
    BY <1>2
  <2>3. \A j \in Take!Jobs : t_rng'[j] = <<j, IF j \in Behind' THEN t_due'[j] - 1 ELSE t_due'[j]>>
    BY <1>2, <1>14, <2>1, <2>2
  <2>. QED  BY <1>6, <2>3 DEF StreamsOK, Working
<1>. QED  BY <1>15, <1>16, <1>17, <1>18 DEF TakeInv

LEMMA HandOutKeeps ==
  ASSUME Take!TakeAssumption, TakeInv, Take!HandOut
  PROVE  TakeInv'
<1>. DEFINE m == Cardinality(Filled)
<1>1. /\ t_pc[Take!Scheduler] = "listed" /\ t_n' = m /\ t_pending' = m /\ t_round' = t_round + 1
      /\ Take!NextJob(Take!Scheduler, Take!WorkAll(t_pc), 0, m, "waiting")
      /\ UNCHANGED <<t_started, t_jobs, t_stop, t_seen, t_sampler, t_rng, t_due>>
  BY TakeCount DEF Take!HandOut, Filled
<1>2. Take!At = {} /\ Take!At \ {Take!Scheduler} = {} /\ m \in Nat /\ Cardinality(Take!At \ {Take!Scheduler}) = 0
  BY <1>1, QuietAtNone, FilledFinite, FS_EmptySet DEF NoneOut
<1>3. Behind = {t_jobs[k] : k \in 0 + 1 .. m} \cup InTake
  <2>1. NotTaken = {t_jobs[k] : k \in Filled} /\ Filled = 1 .. m
    BY <1>1 DEF NotTaken, TakeInv, ListOK
  <2>2. 0 + 1 = 1
    OBVIOUS
  <2>. HIDE DEF m
  <2>3. Filled = 0 + 1 .. m
    BY <2>1, <2>2
  <2>. QED  BY <2>1, <2>3 DEF Behind
<1>4. Take!WorkAll(t_pc) \in [Take!Threads -> TakeStates]
  BY WakesNobodyElse DEF OthersAtWork, TakeInv
<1>5. t_pc'[Take!Scheduler] \in {"took", "waiting"}
  BY <1>1, <1>4, TakeThreads DEF Take!NextJob
<1>6. OthersAtWork(Take!WorkAll(t_pc), Take!Scheduler)
  BY WakesNobodyElse DEF TakeInv
<1>7. /\ 0 \in Nat /\ 0 <= m /\ t_pending' = Cardinality(Take!At \ {Take!Scheduler}) + (m - 0)
      /\ "waiting" \in TakeStates \ Working /\ Take!Scheduler \in Take!Threads
      /\ t_pc[Take!Scheduler] \notin {"took", "loaded", "drawn"}
      /\ t_round' \in Nat /\ t_seen' \in [Take!Workers -> Nat]
  BY <1>1, <1>2, TakeThreads DEF TakeStates, Working, TakeInv, Take!TypeOK
<1>8. t_pc'[Take!Scheduler] # "listed" /\ t_pc'[Take!Scheduler] \notin NoneOut
  BY <1>5 DEF NoneOut
<1>9. \A u \in Take!At \ {Take!Scheduler} : \E k \in Filled : k <= 0 /\ t_mine[u] = t_jobs[k]
  BY <1>2
<1>. HIDE DEF m
<1>. QED  BY <1>1, <1>3, <1>6, <1>7, <1>8, <1>9, NextJobKeeps DEF m

LEMMA TakenKeeps ==
  ASSUME Take!TakeAssumption, TakeInv, NEW t \in Take!Threads, Take!Taken(t)
  PROVE  TakeInv'
<1>. DEFINE m == Cardinality(Filled)
            p == IF t \in Take!Workers /\ t_pending = 1 THEN Take!SignalDone(t_pc) ELSE t_pc
<1>1. /\ t_pc[t] = "stored" /\ t_pending' = t_pending - 1
      /\ Take!NextJob(t, p, t_next, t_n, Take!Over(t, t_pending - 1))
      /\ UNCHANGED <<t_started, t_n, t_round, t_jobs, t_stop, t_seen, t_sampler, t_rng, t_due>>
  BY DEF Take!Taken
<1>2. t \in Take!At
  BY <1>1 DEF Take!At
<1>3. t_pc[Take!Scheduler] \notin NoneOut /\ t_pc[Take!Scheduler] # "listed" /\ t_n = m
  BY <1>2, QuietAtNone DEF NoneOut, TakeInv, ListOK
<1>4. t_n \in Nat /\ t_next \in Nat /\ t_pending \in Nat /\ t_next <= t_n
      /\ t_pending = Cardinality(Take!At) + (t_n - t_next)
  BY DEF TakeInv, Take!TypeOK, PendingOK
<1>5. Cardinality(Take!At \ {t}) = Cardinality(Take!At) - 1 /\ Cardinality(Take!At \ {t}) \in Nat
  BY <1>2, AtFinite, FS_RemoveElement, FS_CardinalityType
<1>6. t_pending' = Cardinality(Take!At \ {t}) + (t_n - t_next)
  BY <1>1, <1>4, <1>5, AtFinite
<1>7. Behind = {t_jobs[k] : k \in t_next + 1 .. t_n} \cup InTake
  BY <1>3 DEF Behind, NotTaken
<1>8. OthersAtWork(p, t)
  BY WakesNobodyElse DEF TakeInv
<1>9. Take!Over(t, t_pending - 1) \in TakeStates \ Working
  BY DEF Take!Over, TakeStates, Working, NoneOut
<1>10. \A u \in Take!At \ {t} : \E k \in Filled : k <= t_next /\ t_mine[u] = t_jobs[k]
  BY DEF TakeInv, OwnJobs
<1>11. /\ t_pc'[Take!Scheduler] # "listed"
       /\ t_pc'[Take!Scheduler] \in NoneOut => t_pending' = 0
  <2>1. p \in [Take!Threads -> TakeStates]
    BY <1>8 DEF OthersAtWork
  <2>2. CASE t = Take!Scheduler
    <3>1. t_pc'[Take!Scheduler] = "took" \/ t_pc'[Take!Scheduler] = Take!Over(Take!Scheduler, t_pending - 1)
      BY <1>1, <2>1, <2>2, TakeThreads DEF Take!NextJob
    <3>2. Cardinality(Take!At) >= 1 /\ t_pending - 1 >= 0
      BY <1>4, <1>5, AtFinite
    <3>. QED  BY <1>1, <1>4, <3>1, <3>2 DEF Take!Over, NoneOut
  <2>3. CASE t # Take!Scheduler
    <3>1. t_pc'[Take!Scheduler] = p[Take!Scheduler]
      BY <1>1, <2>1, <2>3, TakeThreads DEF Take!NextJob
    <3>. QED  BY <1>3, <1>8, <2>3, <3>1, TakeThreads DEF OthersAtWork, NoneOut
  <2>. QED  BY <2>2, <2>3
<1>12. /\ t_pc[t] \notin {"took", "loaded", "drawn"} /\ t_n' = t_n
       /\ t_round' \in Nat /\ t_seen' \in [Take!Workers -> Nat]
  BY <1>1 DEF TakeInv, Take!TypeOK
<1>. HIDE DEF m, p
<1>. QED  BY <1>1, <1>3, <1>4, <1>6, <1>7, <1>8, <1>9, <1>10, <1>11, <1>12, NextJobKeeps DEF m

LEMMA WakeKeeps ==
  ASSUME Take!TakeAssumption, TakeInv, NEW w \in Take!Workers, Take!Wake(w)
  PROVE  TakeInv'
<1>1. t_pc[w] = "awake" /\ w \in Take!Threads /\ w # Take!Scheduler
      /\ UNCHANGED <<t_started, t_n, t_pending, t_round, t_jobs, t_stop, t_sampler, t_rng, t_due>>
  BY TakeThreads DEF Take!Wake
<1>2. t_pc \in [Take!Threads -> TakeStates]
  BY DEF TakeInv, Take!TypeOK, TakeStates, Working, NoneOut
<1>3. CASE \/ t_pc' = [t_pc EXCEPT ![w] = "exited"] /\ UNCHANGED <<t_seen, t_next, t_mine>>
           \/ t_pc' = [t_pc EXCEPT ![w] = "asleep"] /\ UNCHANGED <<t_seen, t_next, t_mine>>
  <2>1. /\ t_pc' \in [Take!Threads -> TakeStates] /\ t_pc'[Take!Scheduler] = t_pc[Take!Scheduler]
        /\ \A u \in Take!Threads : t_pc[u] \in Working \/ t_pc'[u] \in Working => t_pc'[u] = t_pc[u]
    <3>1. PICK x \in {"exited", "asleep"} : t_pc' = [t_pc EXCEPT ![w] = x]
      BY <1>3
    <3>2. x \in TakeStates \ Working /\ t_pc[w] \notin Working
      BY <1>1 DEF TakeStates, Working
    <3>. QED  BY <1>1, <1>2, <3>1, <3>2, TakeThreads
  <2>2. t_pc'[Take!Scheduler] \in NoneOut => t_pending = 0
    BY <2>1 DEF TakeInv, PendingOK
  <2>3. UNCHANGED <<t_n, t_next, t_pending, t_jobs, t_mine, t_sampler, t_rng, t_due, t_started, t_stop, t_seen, t_round>>
    BY <1>1, <1>3
  <2>. QED  BY <2>1, <2>2, <2>3, QuietKeeps DEF TakeInv, Take!TypeOK
<1>4. CASE t_seen' = [t_seen EXCEPT ![w] = t_round] /\ Take!NextJob(w, t_pc, t_next, t_n, "asleep")
  <2>1. t_n \in Nat /\ t_next \in Nat /\ t_pending \in Nat /\ t_next <= t_n
        /\ t_pending = Cardinality(Take!At) + (t_n - t_next) /\ t_round \in Nat
    BY DEF TakeInv, Take!TypeOK, PendingOK
  <2>2. t_pc[w] \notin Working /\ Take!At \ {w} = Take!At
    BY <1>1 DEF Take!At, Working
  <2>3. t_pc'[Take!Scheduler] = t_pc[Take!Scheduler]
    BY <1>1, <1>2, <1>4, TakeThreads DEF Take!NextJob
  <2>4. CASE t_pc[Take!Scheduler] # "listed"
    <3>1. t_n = Cardinality(Filled) /\ Behind = {t_jobs[k] : k \in t_next + 1 .. t_n} \cup InTake
      BY <2>4 DEF TakeInv, ListOK, Behind, NotTaken
    <3>2. OthersAtWork(t_pc, w)
      BY WakesNobodyElse DEF TakeInv
    <3>3. "asleep" \in TakeStates \ Working /\ t_pc[w] \notin {"took", "loaded", "drawn"}
      BY <2>2 DEF TakeStates, Working
    <3>4. \A u \in Take!At \ {w} : \E k \in Filled : k <= t_next /\ t_mine[u] = t_jobs[k]
      BY DEF TakeInv, OwnJobs
    <3>5. t_pc'[Take!Scheduler] \in NoneOut => t_pending' = 0
      BY <1>1, <2>3 DEF TakeInv, PendingOK
    <3>6. t_pending' = Cardinality(Take!At \ {w}) + (t_n - t_next)
      BY <1>1, <2>1, <2>2
    <3>7. t_seen' \in [Take!Workers -> Nat] /\ t_round' \in Nat /\ t_n' = t_n
      BY <1>1, <1>4, <2>1 DEF TakeInv, Take!TypeOK
    <3>. QED  BY <1>1, <1>4, <2>1, <2>3, <2>4, <3>1, <3>2, <3>3, <3>4, <3>5, <3>6, <3>7, NextJobKeeps
  <2>5. CASE t_pc[Take!Scheduler] = "listed"
    <3>1. t_next = t_n /\ t_pending = 0
      BY <2>5, QuietAtNone DEF NoneOut
    <3>2. /\ t_mine' = [t_mine EXCEPT ![w] = Take!NoJob] /\ t_next' = t_next
          /\ t_pc' = [t_pc EXCEPT ![w] = "asleep"]
      BY <1>4, <2>1, <3>1 DEF Take!NextJob
    <3>3. Take!At = {} /\ Take!At' = {}
      BY <1>1, <1>2, <2>5, <3>2, QuietAtNone DEF NoneOut, Take!At
    <3>4. Behind' = Behind /\ Filled' = Filled
      BY <1>1, <2>3, <2>5, <3>3 DEF Behind, NotTaken, InTake, Filled
    <3>5. Take!TypeOK'
      BY <1>1, <1>4, <2>1, <3>2 DEF TakeInv, Take!TypeOK
    <3>6. ListOK' /\ PendingOK' /\ OwnJobs'
      BY <1>1, <2>3, <3>2, <3>3, <3>4 DEF TakeInv, ListOK, PendingOK, OwnJobs
    <3>7. \A u \in Take!Threads : t_pc'[u] \notin {"loaded", "drawn"}
      BY <3>3 DEF Take!At
    <3>8. StreamsOK'
      BY <1>1, <3>4, <3>7 DEF TakeInv, StreamsOK
    <3>. QED  BY <3>5, <3>6, <3>8 DEF TakeInv
  <2>. QED  BY <2>4, <2>5
<1>. QED  BY <1>3, <1>4 DEF Take!Wake

\* take(): the steps of a thread at its job leave its place among the jobs alone.
LEMMA AtKeeps ==
  ASSUME Take!TakeAssumption, TakeInv, NEW t \in Take!At, NEW x \in Working, t_pc' = [t_pc EXCEPT ![t] = x],
         t_sampler' \in [Take!Threads -> Take!Streams], t_rng' \in [Take!Jobs -> Take!Streams],
         UNCHANGED <<t_started, t_n, t_next, t_pending, t_round, t_jobs, t_stop, t_seen, t_mine, t_due>>
  PROVE  /\ Take!At' = Take!At /\ NotTaken' = NotTaken /\ Take!TypeOK' /\ ListOK' /\ PendingOK' /\ OwnJobs'
         /\ t \in Take!Threads /\ t_pc'[t] = x /\ \A u \in Take!Threads \ {t} : t_pc'[u] = t_pc[u]
         /\ \A u \in Take!Threads : t_pc'[u] \in {"loaded", "drawn"} => u \in Take!At
<1>1. /\ t_pc \in [Take!Threads -> TakeStates] /\ t \in Take!Threads /\ Working \subseteq TakeStates
      /\ t_pc[t] \in Working
  BY AtFinite DEF TakeInv, Take!TypeOK, TakeStates, Working, NoneOut, Take!At
<1>2. /\ t_pc' \in [Take!Threads -> TakeStates] /\ t_pc'[t] = x /\ \A u \in Take!Threads \ {t} : t_pc'[u] = t_pc[u]
  BY <1>1
<1>3. Take!At' = Take!At
  BY <1>1, <1>2 DEF Take!At, Working
<1>4. t_pc[Take!Scheduler] \notin NoneOut /\ t_pc'[Take!Scheduler] \notin NoneOut
  <2>1. t_pc[Take!Scheduler] \notin NoneOut
    BY QuietAtNone
  <2>. QED  BY <1>2, <2>1, TakeThreads DEF Working, NoneOut
<1>5. NotTaken' = NotTaken /\ Filled' = Filled
  BY <1>4 DEF NotTaken, Filled, NoneOut
<1>6. Take!TypeOK'
  BY <1>2 DEF TakeInv, Take!TypeOK, TakeStates, Working, NoneOut
<1>7. ListOK' /\ PendingOK' /\ OwnJobs'
  BY <1>3, <1>4, <1>5 DEF TakeInv, ListOK, PendingOK, OwnJobs, NoneOut
<1>8. \A u \in Take!Threads : t_pc'[u] \in {"loaded", "drawn"} => u \in Take!At
  BY <1>3 DEF Take!At
<1>. QED  BY <1>1, <1>2, <1>3, <1>5, <1>6, <1>7, <1>8

LEMMA InTakeSame ==
  ASSUME NEW t \in Take!At, Take!At' = Take!At, t_pc[t] # "stored", t_pc'[t] # "stored", UNCHANGED t_mine,
         \A u \in Take!Threads \ {t} : t_pc'[u] = t_pc[u]
  PROVE  InTake' = InTake
<1>1. {u \in Take!At : t_pc[u] # "stored"}' = {u \in Take!At : t_pc[u] # "stored"}
  BY DEF Take!At
<1>. QED  BY <1>1 DEF InTake

LEMMA LoadKeeps ==
  ASSUME Take!TakeAssumption, TakeInv, NEW t \in Take!Threads, Take!Load(t)
  PROVE  TakeInv'
<1>1. /\ t_pc[t] = "took" /\ t_sampler' = [t_sampler EXCEPT ![t] = t_rng[t_mine[t]]]
      /\ t_pc' = [t_pc EXCEPT ![t] = "loaded"]
      /\ UNCHANGED <<t_started, t_n, t_next, t_pending, t_round, t_jobs, t_stop, t_seen, t_mine, t_rng, t_due>>
  BY DEF Take!Load, Take!SamplerOf, Take!pool
<1>2. t \in Take!At /\ "loaded" \in Working
  BY <1>1 DEF Take!At, Working
<1>3. t_mine[t] \in Take!Jobs
  BY <1>2, MineIsOwn
<1>4. t_sampler \in [Take!Threads -> Take!Streams] /\ t_rng \in [Take!Jobs -> Take!Streams]
  BY DEF TakeInv, Take!TypeOK
<1>5. t_sampler' \in [Take!Threads -> Take!Streams]
  BY <1>1, <1>3, <1>4
<1>6. /\ Take!At' = Take!At /\ NotTaken' = NotTaken /\ Take!TypeOK' /\ ListOK' /\ PendingOK' /\ OwnJobs'
      /\ t_pc'[t] = "loaded" /\ \A u \in Take!Threads \ {t} : t_pc'[u] = t_pc[u]
  BY <1>1, <1>2, <1>4, <1>5, AtKeeps
<1>7. Behind' = Behind
  BY <1>1, <1>2, <1>6, InTakeSame DEF Behind
<1>8. \A u \in Take!Threads : t_sampler'[u] = IF u = t THEN t_rng[t_mine[t]] ELSE t_sampler[u]
  BY <1>1, <1>4
<1>9. StreamsOK'
  <2>1. \A j \in Take!Jobs : t_rng'[j] = <<j, IF j \in Behind' THEN t_due'[j] - 1 ELSE t_due'[j]>>
    BY <1>1, <1>7 DEF TakeInv, StreamsOK
  <2>2. \A u \in Take!Threads : t_pc'[u] = "loaded" => t_sampler'[u] = t_rng'[t_mine'[u]]
    BY <1>1, <1>6, <1>8 DEF TakeInv, StreamsOK
  <2>3. \A u \in Take!Threads : t_pc'[u] = "drawn" => t_sampler'[u] = <<t_mine'[u], t_due'[t_mine'[u]]>>
    BY <1>1, <1>6, <1>8 DEF TakeInv, StreamsOK
  <2>. QED  BY <2>1, <2>2, <2>3 DEF StreamsOK
<1>. QED  BY <1>6, <1>9 DEF TakeInv

LEMMA DrawKeeps ==
  ASSUME Take!TakeAssumption, TakeInv, NEW t \in Take!Threads, Take!Draw(t)
  PROVE  TakeInv'
<1>1. /\ t_pc[t] = "loaded" /\ t_sampler' = [t_sampler EXCEPT ![t] = <<@[1], @[2] + 1>>]
      /\ t_pc' = [t_pc EXCEPT ![t] = "drawn"]
      /\ UNCHANGED <<t_started, t_n, t_next, t_pending, t_round, t_jobs, t_stop, t_seen, t_mine, t_rng, t_due>>
  BY DEF Take!Draw, Take!SamplerOf, Take!pool
<1>2. t \in Take!At /\ "drawn" \in Working
  BY <1>1 DEF Take!At, Working
<1>3. t_mine[t] \in Take!Jobs
  BY <1>2, MineIsOwn
<1>4. t_sampler \in [Take!Threads -> Take!Streams] /\ t_rng \in [Take!Jobs -> Take!Streams] /\ t_due \in [Take!Jobs -> Nat]
  BY DEF TakeInv, Take!TypeOK
<1>5. t_mine[t] \in Behind
  BY <1>1, <1>2 DEF Behind, InTake
<1>6. t_sampler[t] = <<t_mine[t], t_due[t_mine[t]] - 1>>
  <2>1. t_sampler[t] = t_rng[t_mine[t]]
    BY <1>1 DEF TakeInv, StreamsOK
  <2>2. t_rng[t_mine[t]] = <<t_mine[t], t_due[t_mine[t]] - 1>>
    BY <1>3, <1>5 DEF TakeInv, StreamsOK
  <2>. QED  BY <2>1, <2>2
<1>7. \A u \in Take!Threads : t_sampler'[u] = IF u = t THEN <<t_mine[t], t_due[t_mine[t]]>> ELSE t_sampler[u]
  <2>1. PICK owed \in Nat : owed = t_due[t_mine[t]]
    BY <1>3, <1>4
  <2>2. t_sampler[t][1] = t_mine[t] /\ t_sampler[t][2] + 1 = owed
    BY <1>6, <2>1
  <2>. QED  BY <1>1, <1>4, <2>1, <2>2
<1>8. t_sampler' \in [Take!Threads -> Take!Streams]
  <2>1. <<t_mine[t], t_due[t_mine[t]]>> \in Take!Streams
    BY <1>3, <1>4 DEF Take!Streams
  <2>2. t_sampler' = [t_sampler EXCEPT ![t] = <<t_mine[t], t_due[t_mine[t]]>>]
    BY <1>1, <1>4, <1>7
  <2>. QED  BY <1>4, <2>1, <2>2
<1>9. /\ Take!At' = Take!At /\ NotTaken' = NotTaken /\ Take!TypeOK' /\ ListOK' /\ PendingOK' /\ OwnJobs'
      /\ t_pc'[t] = "drawn" /\ \A u \in Take!Threads \ {t} : t_pc'[u] = t_pc[u]
  BY <1>1, <1>2, <1>4, <1>8, AtKeeps
<1>10. Behind' = Behind
  BY <1>1, <1>2, <1>9, InTakeSame DEF Behind
<1>11. StreamsOK'
  <2>1. \A j \in Take!Jobs : t_rng'[j] = <<j, IF j \in Behind' THEN t_due'[j] - 1 ELSE t_due'[j]>>
    BY <1>1, <1>10 DEF TakeInv, StreamsOK
  <2>2. \A u \in Take!Threads : t_pc'[u] = "loaded" => t_sampler'[u] = t_rng'[t_mine'[u]]
    BY <1>1, <1>9, <1>7 DEF TakeInv, StreamsOK
  <2>3. \A u \in Take!Threads : t_pc'[u] = "drawn" => t_sampler'[u] = <<t_mine'[u], t_due'[t_mine'[u]]>>
    BY <1>1, <1>9, <1>7 DEF TakeInv, StreamsOK
  <2>. QED  BY <2>1, <2>2, <2>3 DEF StreamsOK
<1>. QED  BY <1>9, <1>11 DEF TakeInv

\* The stream stored is its own job's: nobody else's is overwritten, and
\* nobody at a job sees the one it took change under it.
LEMMA StoreKeeps ==
  ASSUME Take!TakeAssumption, TakeInv, NEW t \in Take!Threads, Take!Store(t)
  PROVE  TakeInv'
<1>1. /\ t_pc[t] = "drawn" /\ t_rng' = [t_rng EXCEPT ![t_mine[t]] = t_sampler[t]]
      /\ t_pc' = [t_pc EXCEPT ![t] = "stored"]
      /\ UNCHANGED <<t_started, t_n, t_next, t_pending, t_round, t_jobs, t_stop, t_seen, t_mine, t_sampler, t_due>>
  BY DEF Take!Store, Take!SamplerOf, Take!pool
<1>2. t \in Take!At /\ "stored" \in Working
  BY <1>1 DEF Take!At, Working
<1>3. t_mine[t] \in Take!Jobs /\ t_mine[t] \notin NotTaken /\ \A u \in Take!At \ {t} : t_mine[u] # t_mine[t]
  BY <1>2, MineIsOwn
<1>4. t_sampler \in [Take!Threads -> Take!Streams] /\ t_rng \in [Take!Jobs -> Take!Streams]
  BY DEF TakeInv, Take!TypeOK
<1>5. t_rng' \in [Take!Jobs -> Take!Streams]
  BY <1>1, <1>3, <1>4
<1>6. /\ Take!At' = Take!At /\ NotTaken' = NotTaken /\ Take!TypeOK' /\ ListOK' /\ PendingOK' /\ OwnJobs'
      /\ t_pc'[t] = "stored" /\ \A u \in Take!Threads \ {t} : t_pc'[u] = t_pc[u]
      /\ \A u \in Take!Threads : t_pc'[u] \in {"loaded", "drawn"} => u \in Take!At
  BY <1>1, <1>2, <1>4, <1>5, AtKeeps
<1>7. Behind' = Behind \ {t_mine[t]}
  <2>1. {u \in Take!At : t_pc[u] # "stored"}' = {u \in Take!At : t_pc[u] # "stored"} \ {t}
    BY <1>6 DEF Take!At
  <2>2. InTake' = InTake \ {t_mine[t]}
    BY <1>1, <1>3, <2>1 DEF InTake
  <2>. QED  BY <1>3, <1>6, <2>2 DEF Behind
<1>8. t_sampler[t] = <<t_mine[t], t_due[t_mine[t]]>>
  BY <1>1 DEF TakeInv, StreamsOK
<1>9. \A j \in Take!Jobs : t_rng'[j] = IF j = t_mine[t] THEN <<t_mine[t], t_due[t_mine[t]]>> ELSE t_rng[j]
  BY <1>1, <1>4, <1>8
<1>10. StreamsOK'
  <2>1. \A j \in Take!Jobs : t_rng'[j] = <<j, IF j \in Behind' THEN t_due'[j] - 1 ELSE t_due'[j]>>
    BY <1>1, <1>7, <1>9 DEF TakeInv, StreamsOK
  <2>2. \A u \in Take!Threads : t_pc'[u] = "loaded" => t_sampler'[u] = t_rng'[t_mine'[u]]
    <3>1. SUFFICES ASSUME NEW u \in Take!Threads, t_pc'[u] = "loaded" PROVE t_sampler[u] = t_rng'[t_mine[u]]
      BY <1>1
    <3>2. u # t /\ u \in Take!At /\ t_pc[u] = "loaded"
      BY <1>6, <3>1
    <3>3. t_mine[u] # t_mine[t] /\ t_mine[u] \in Take!Jobs
      BY <1>3, <3>2, MineIsOwn
    <3>. QED  BY <1>9, <3>2, <3>3 DEF TakeInv, StreamsOK
  <2>3. \A u \in Take!Threads : t_pc'[u] = "drawn" => t_sampler'[u] = <<t_mine'[u], t_due'[t_mine'[u]]>>
    BY <1>1, <1>6 DEF TakeInv, StreamsOK
  <2>. QED  BY <2>1, <2>2, <2>3 DEF StreamsOK
<1>. QED  BY <1>6, <1>10 DEF TakeInv

\* With nothing begun, or after the last round, the threads are at rest.
TakersAtRest ==
  /\ t_started = 0 /\ t_n = 0 /\ t_next = 0 /\ t_pending = 0 /\ t_round = 0 /\ t_stop \in BOOLEAN
  /\ t_jobs = [k \in Take!Jobs |-> Take!NoJob]
  /\ t_seen = [w \in Take!Workers |-> 0]
  /\ t_pc = [t \in Take!Threads |-> IF t = Take!Scheduler THEN "idle" ELSE "unborn"]
  /\ t_mine = [t \in Take!Threads |-> Take!NoJob]
  /\ t_sampler = [t \in Take!Threads |-> <<Take!NoJob, 0>>]
  /\ t_rng = [j \in Take!Jobs |-> <<j, 0>>]
  /\ t_due = [j \in Take!Jobs |-> 0]

LEMMA TakeRestOK ==
  ASSUME Take!TakeAssumption, TakersAtRest
  PROVE  TakeInv
<1>1. Take!TypeOK
  <2>1. t_started \in 0 .. Takers - 1
    BY DEF TakersAtRest, Take!TakeAssumption
  <2>2. t_jobs \in [Take!Jobs -> Take!Jobs \cup {Take!NoJob}] /\ t_mine \in [Take!Threads -> Take!Jobs \cup {Take!NoJob}]
    BY DEF TakersAtRest
  <2>3. t_sampler \in [Take!Threads -> Take!Streams]
    BY DEF TakersAtRest, Take!Streams
  <2>4. t_rng \in [Take!Jobs -> Take!Streams]
    BY DEF TakersAtRest, Take!Streams
  <2>5. t_due \in [Take!Jobs -> Nat] /\ t_seen \in [Take!Workers -> Nat]
    BY DEF TakersAtRest
  <2>6. t_n = 0 /\ t_next = 0 /\ t_pending = 0 /\ t_round = 0 /\ t_stop \in BOOLEAN
        /\ t_pc = [t \in Take!Threads |-> IF t = Take!Scheduler THEN "idle" ELSE "unborn"]
    BY DEF TakersAtRest
  <2>. QED  BY <2>1, <2>2, <2>3, <2>4, <2>5, <2>6 DEF Take!TypeOK
<1>2. Take!At = {} /\ Filled = {} /\ t_pc[Take!Scheduler] = "idle"
  BY TakeThreads DEF TakersAtRest, Take!At, Filled
<1>3. Cardinality(Take!At) = 0 /\ Cardinality(Filled) = 0
  BY <1>2, FS_EmptySet
<1>4. Behind = {}
  BY <1>2 DEF TakersAtRest, Behind, NotTaken, InTake
<1>5. ListOK /\ PendingOK /\ OwnJobs
  BY <1>2, <1>3 DEF TakersAtRest, ListOK, PendingOK, OwnJobs
<1>6. StreamsOK
  BY <1>2, <1>4 DEF TakersAtRest, StreamsOK, Take!At
<1>. QED  BY <1>1, <1>5, <1>6 DEF TakeInv

LEMMA TakeInit ==
  ASSUME Take!TakeAssumption, Take!Init
  PROVE  TakeInv
BY TakeRestOK DEF Take!Init, TakersAtRest

LEMMA TakeStutter ==
  ASSUME TakeInv, UNCHANGED (Take!vars)
  PROVE  TakeInv'
<1>1. /\ Take!TypeOK' /\ ListOK' /\ PendingOK'
  BY DEF Take!vars, Take!pool, TakeInv, Take!TypeOK, ListOK, PendingOK, Filled, Take!At
<1>2. OwnJobs' /\ StreamsOK'
  BY DEF Take!vars, Take!pool, TakeInv, OwnJobs, StreamsOK, Behind, NotTaken, InTake, Filled, Take!At
<1>. QED  BY <1>1, <1>2 DEF TakeInv

LEMMA TakeNext ==
  ASSUME Take!TakeAssumption, TakeInv, [Take!Next]_(Take!vars)
  PROVE  TakeInv'
<1>1. CASE Take!SchedulerStep
  BY <1>1, StartWorkerKeeps, HandOutKeeps, WokenKeeps, ListKeeps DEF Take!SchedulerStep
<1>2. CASE Take!Begin \/ Take!Stop
  BY <1>2, BeginKeeps, StopKeeps
<1>3. CASE \E t \in Take!Threads : Take!TakeStep(t)
  BY <1>3, LoadKeeps, DrawKeeps, StoreKeeps, TakenKeeps DEF Take!TakeStep
<1>4. CASE \E w \in Take!Workers : Take!Wake(w)
  BY <1>4, WakeKeeps
<1>5. CASE Take!Terminated \/ UNCHANGED (Take!vars)
  BY <1>5, TakeStutter DEF Take!Terminated
<1>. QED  BY <1>1, <1>2, <1>3, <1>4, <1>5 DEF Take!Next

LEMMA QuietDraws ==
  ASSUME Take!TakeAssumption, TakeInv
  PROVE  Take!DrawsAreOwn /\ Take!ListedInQuiet
<1>1. ASSUME t_pc[Take!Scheduler] = "idle" PROVE \A j \in Take!Jobs : t_rng[j] = <<j, t_due[j]>>
  <2>1. Take!At = {} /\ t_next = t_n /\ t_n \in Nat
    BY <1>1, QuietAtNone DEF NoneOut, TakeInv, Take!TypeOK
  <2>2. t_n + 1 .. t_n = {}
    BY <2>1
  <2>3. NotTaken = {} /\ InTake = {}
    BY <1>1, <2>1, <2>2 DEF NotTaken, InTake
  <2>. QED  BY <1>1, <2>3 DEF TakeInv, StreamsOK, Behind
<1>. QED  BY <1>1, QuietAtNone DEF Take!DrawsAreOwn, Take!ListedInQuiet, NoneOut

-----------------------------------------------------------------------------
(* The parts together. *)

PartsInv == IInv /\ TakeInv /\ ServerInv /\ Texts!IInv /\ Sampling!IInv

LEMMA PoolRest ==
  ASSUME PoolFreed
  PROVE  IInv /\ Job!Init
<1>1. Busy = {} /\ Took = {} /\ ~Active /\ Caller \in Threads
  BY ThreadFacts DEF PoolFreed, Busy, Took, Active
<1>2. Cardinality(Busy) = 0
  BY <1>1, FS_EmptySet
<1>3. TypeOK
  <2>1. 0 \in 0 .. NThreads - 1
    BY PoolAssumption
  <2>. QED  BY <2>1 DEF TypeOK, PoolFreed
<1>4. CountOK /\ TakenOK /\ DoingOK
  BY <1>1, <1>2 DEF CountOK, TakenOK, DoingOK, PoolFreed
<1>5. Job!Init
  BY <1>1, MapsTo, JobThreads DEF Left, PoolFreed
<1>. QED  BY <1>3, <1>4, <1>5 DEF IInv

LEMMA TakersRest ==
  ASSUME TakersStopped
  PROVE  TakeInv
<1>1. TakersAtRest
  BY DEF TakersStopped, TakersAtRest
<1>. QED  BY <1>1, Assumptions, TakeRestOK

LEMMA ServerRest ==
  ASSUME ServerFreed
  PROVE  ServerInv
<1>1. at \in [Clients -> {"away", "closed"}]
  BY DEF ServerFreed
<1>. QED  BY <1>1, Assumptions, ServerRestOK DEF ServerFreed

LEMMA EncoderRest ==
  ASSUME EncoderFreed
  PROVE  Texts!IInv
<1>1. /\ e_pc \in [Texts!Threads -> {"begun", "gone", "begin", "answered"}]
      /\ \A t \in Texts!Threads : t \in {a, b} <=> e_pc[t] \in {"begin", "answered"}
      /\ \A t \in {a, b} : e_pc[t] = "answered"
  BY DEF EncoderFreed, Texts!Threads
<1>2. body \in EncoderAsks
  BY DEF EncoderFreed, EncoderAsks
<1>3. reply \in [{a, b} -> {0, 400, 404, 500}] /\ workers \in 0 .. 2
  BY DEF EncoderFreed
<1>4. Texts!AtRest
  BY <1>1, <1>2, <1>3 DEF EncoderFreed, Texts!AtRest
<1>. QED  BY <1>4, Assumptions, Texts!RestOK

LEMMA SamplerRest ==
  ASSUME Sampled
  PROVE  Sampling!IInv
<1>1. probs = <<3, 0, 0>> /\ probs \in MCRows
  BY DEF Sampled, MCRows, MCProbs
<1>2. cfg = Coldest /\ cfg \in MCSettings /\ cfg.hot = FALSE /\ keep = 0
  BY DEF Sampled, Coldest, MCSettings
<1>3. Sampling!RowOK
  BY <1>1, <1>2, Assumptions, Sampling!RowFacts
<1>4. Sampling!Ids = 1 .. 3
  BY <1>1 DEF Sampling!Ids
<1>5. order = [k \in Sampling!Ids |-> k] /\ unit = 1
  BY <1>4 DEF Sampled
<1>6. Sampling!vitna_argmax = 1
  <2>1. Sampling!vitna_argmax \in 1 .. 3 /\ probs[Sampling!vitna_argmax] > 0
    BY <1>3, <1>4, Sampling!Argmaximum
  <2>. QED  BY <1>1, <2>1
<1>7. Sampling!SortedOK
  BY <1>3, <1>5, Sampling!Unsorted
<1>. QED  BY <1>1, <1>2, <1>6, <1>7 DEF Sampling!IInv, Sampled

LEMMA InitHolds ==
  ASSUME MCInit
  PROVE  PartsInv /\ Job!Init
<1>0. Init \/ PoolFreed => IInv /\ Job!Init
  BY InitOK, InitMaps, PoolRest
<1>1. Take!Init \/ TakersStopped => TakeInv
  BY Assumptions, TakeInit, TakersRest
<1>2. Connections!Init \/ ServerFreed => ServerInv
  BY Assumptions, ServerInit, ServerRest
<1>3. Texts!Init \/ EncoderFreed => Texts!IInv
  BY Assumptions, Texts!InitKeeps, EncoderRest
<1>4. Sampling!Init \/ Sampled => Sampling!IInv
  BY Assumptions, Sampling!InitHolds, SamplerRest
<1>. QED  BY <1>0, <1>1, <1>2, <1>3, <1>4 DEF MCInit, PartsInv

LEMMA StepHolds ==
  ASSUME PartsInv, [MCNext]_MCvars
  PROVE  PartsInv' /\ [Job!Next]_(Job!vars)
<1>0. [Next]_vars
  BY DEF MCNext, MCvars
<1>1. [Take!Next]_(Take!vars)
  BY DEF MCNext, MCvars, takers, Take!vars, Take!pool
<1>2. [Connections!Next]_(Connections!vars)
  BY DEF MCNext, MCvars, connections, Connections!vars
<1>3. [Texts!Next]_(Texts!vars)
  BY DEF MCNext, MCvars, texts, Texts!vars, Texts!pool, Texts!requests
<1>4. [Sampling!Next]_(Sampling!vars)
  BY DEF MCNext, MCvars, draws, Sampling!vars
<1>5. Sampling!IInv'
  BY <1>4, Assumptions, Sampling!NextHolds DEF PartsInv
<1>6. TakeInv'
  BY <1>1, Assumptions, TakeNext DEF PartsInv
<1>7. ServerInv'
  BY <1>2, Assumptions, ServerNext DEF PartsInv
<1>8. Texts!IInv'
  BY <1>3, Assumptions, Texts!NextKeeps DEF PartsInv
<1>9. IInv'
  BY <1>0, NextOK DEF PartsInv
<1>10. [Job!Next]_(Job!vars)
  BY <1>0, <1>9, NextMaps DEF PartsInv
<1>. QED  BY <1>5, <1>6, <1>7, <1>8, <1>9, <1>10 DEF PartsInv

-----------------------------------------------------------------------------
(* The theorems. *)

\* Each part's invariant holds throughout, whichever of them runs.
THEOREM PartsInvariance == MCSpec => []PartsInv
<1>1. MCInit => PartsInv
  BY InitHolds
<1>2. PartsInv /\ [MCNext]_MCvars => PartsInv'
  BY StepHolds
<1>. QED  BY <1>1, <1>2, PTL DEF MCSpec

\* Each run of the pool calls each of its tasks once, as its header promises
\* (pool.h:4-9,40), whatever the other parts do.
THEOREM JobCorrect == MCSpec => ImplementsJob
<1>1. MCInit => Job!Init
  BY InitHolds
<1>2. PartsInv /\ [MCNext]_MCvars => [Job!Next]_(Job!vars)
  BY StepHolds
<1>. QED  BY <1>1, <1>2, PartsInvariance, PTL DEF MCSpec, ImplementsJob, Job!Spec

\* Whichever threads take a round's tokens, each request draws once a round and
\* from its own stream, and the round's list is written while nobody reads it.
THEOREM DrawsCorrect == MCSpec => []DrawsAreOwn
<1>1. PartsInv => DrawsAreOwn
  BY Assumptions, QuietDraws DEF PartsInv, DrawsAreOwn
<1>. QED  BY <1>1, PartsInvariance, PTL

\* The connections that are open are counted, never more than the limit, and
\* none is open once the server has returned, whatever made it stop.
THEOREM CountCorrect == MCSpec => []OpenIsCounted
<1>1. PartsInv => OpenIsCounted
  BY Assumptions, CountedRight, QuietReturn DEF PartsInv, OpenIsCounted
<1>. QED  BY <1>1, PartsInvariance, PTL

\* No stage of a pass of the encoder begins while a task of the one before runs,
\* no task is run twice, and each text gets its own vector.
THEOREM StagesCorrect == MCSpec => []StagesInOrder
<1>1. PartsInv => StagesInOrder
  BY Assumptions, Texts!StagesFollow DEF PartsInv, StagesInOrder
<1>. QED  BY <1>1, PartsInvariance, PTL

\* Over all uniform numbers each token that top-k and top-p leave is drawn for
\* its share of them, to within one, and no other; the sampler's own theorem,
\* for any row, keys and settings, is SampledByShare.
THEOREM DrawnCorrect == MCSpec => []DrawnByShare
<1>1. PartsInv => DrawnByShare
  BY Assumptions, Sampling!DrawnFairly DEF PartsInv, DrawnByShare
<1>. QED  BY <1>1, PartsInvariance, PTL
=============================================================================
