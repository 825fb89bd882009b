------------------------- MODULE ExpertStreamProofs -------------------------
(***************************************************************************)
(* Proofs about ExpertStream, for every number of places, slots, workers   *)
(* and every bound.                                                        *)
(***************************************************************************)
EXTENDS ExpertStream, FiniteSetTheorems, SequenceTheorems, TLAPS

-----------------------------------------------------------------------------
(* The inductive invariant.  HeldIsReadable alone is not inductive: that no  *)
(* worker writes where a held place is depends on which slots the queue and  *)
(* the workers own, that a held slot is not given up on what users counts,   *)
(* and that a batch may be handed out on what hold has put in it.            *)

Holding == pc \in {"hold", "hold_asleep", "hold_woken"}

\* What the queue names is marked as being read, and named once.
QueueOK ==
  /\ \A n \in 1 .. Len(queue) : state[queue[n]] = "READING"
  /\ \A m, n \in 1 .. Len(queue) : queue[m] = queue[n] => m = n

\* A busy worker reads the place its slot is for, alone, and not from the queue.
JobsOK ==
  /\ \A w \in Workers : Busy(w) =>
       /\ state[job[w].slot] = "READING"
       /\ place[job[w].slot] = job[w].place
       /\ job[w].place \in Places
       /\ \A n \in 1 .. Len(queue) : queue[n] # job[w].slot
  /\ \A v, w \in Workers : Busy(v) /\ Busy(w) /\ job[v].slot = job[w].slot => v = w

\* No read is forgotten.
NoneLost ==
  \A i \in Slots : state[i] = "READING" =>
    \/ \E n \in 1 .. Len(queue) : queue[n] = i
    \/ \E w \in Workers : Busy(w) /\ job[w].slot = i

\* A slot marked READY, or about to be, holds its place's bytes.
BytesOK ==
  /\ \A i \in Slots : state[i] = "READY" => buf[i] = place[i]
  /\ \A w \in Workers : wpc[w] = "read" /\ job[w].ok => buf[job[w].slot] = job[w].place

\* The caller: its loop's places are different and not in its batch yet, and
\* the one it sleeps for has no slot.
CallerOK ==
  /\ Distinct(todo)
  /\ Holding => \A n \in 1 .. Len(todo) : todo[n] \notin batch
  /\ pc \in {"hold_asleep", "hold_woken"} => todo # <<>> /\ where[todo[1]] = None
  /\ pc \in {"idle", "joining", "closed"} => batch = {}
  /\ \A p \in Places : held[p] > 0 => where[p] # None /\ state[where[p]] = "READY"

IInv ==
  /\ TypeOK /\ TableOK /\ UsersAreHolds
  /\ QueueOK /\ JobsOK /\ NoneLost /\ BytesOK /\ CallerOK

-----------------------------------------------------------------------------
(* Types. *)

Counts == [acquired : Nat, hits : Nat, in_flight : Nat, misses : Nat,
           prefetched : Nat, prefetch_used : Nat]
SlotStates == {"EMPTY", "READING", "READY", "FAILED"}
WorkerStates == {"ready", "asleep", "reading", "read", "stopped"}
Jobs == [slot : Slots, place : Places \cup {NoPlace}, ok : BOOLEAN]

\* The types of the pieces that only some actions touch, proved together.
LEMMA SignalType ==
  ASSUME TypeOK, Signal
  PROVE  /\ wpc' \in [Workers -> WorkerStates]
         /\ \A w \in Workers : Busy(w)' <=> Busy(w)
         /\ \A w \in Workers : wpc'[w] = "read" <=> wpc[w] = "read"
  BY DEF TypeOK, Signal, Busy, WorkerStates

LEMMA CountsType ==
  ASSUME NEW r \in Counts, NEW a \in Nat, NEW b \in Nat, NEW c \in Nat, NEW d \in Nat
  PROVE  [r EXCEPT !.misses = @ + a, !.in_flight = @ + b, !.hits = @ + c,
                   !.prefetch_used = @ + d] \in Counts
<1>. DEFINE ra == r.misses + a       rb == r.in_flight + b
            rc == r.hits + c         rd == r.prefetch_used + d
<1>1. ra \in Nat /\ rb \in Nat /\ rc \in Nat /\ rd \in Nat
  BY DEF Counts
<1>. HIDE DEF ra, rb, rc, rd
<1>2. [r EXCEPT !.misses = ra, !.in_flight = rb, !.hits = rc, !.prefetch_used = rd] \in Counts
  BY <1>1 DEF Counts
<1>. QED  BY <1>2 DEF ra, rb, rc, rd

LEMMA AcquiredType == TypeOK => Acquired \in Counts
<1>. SUFFICES ASSUME TypeOK PROVE Acquired \in Counts
  OBVIOUS
<1>1. stats \in Counts
  BY DEF TypeOK, Counts
<1>. QED  BY <1>1 DEF Acquired, Counts

LEMMA UsesType ==
  ASSUME TypeOK, NEW p \in Places
  PROVE  UsesAfter(p) \in [Places -> Nat]
<1>1. [uses EXCEPT ![p] = @ + 1] \in [Places -> Nat]
  BY DEF TypeOK
<1>2. \A n \in Nat : n \div 2 \in Nat
  OBVIOUS
<1>. QED  BY <1>1, <1>2 DEF UsesAfter

LEMMA StartReadType ==
  ASSUME TypeOK, NEW i \in Slots, NEW p \in Places, NEW g \in BOOLEAN, StartRead(i, p, g)
  PROVE  /\ where' \in [Places -> Slots \cup {None}]
         /\ place' \in [Slots -> Places \cup {NoPlace}]
         /\ state' \in [Slots -> SlotStates]
         /\ prefetched' \in [Slots -> BOOLEAN]
         /\ clock' \in Nat
         /\ last_use' \in [Slots -> Nat]
         /\ queue' \in Seq(Slots)
         /\ wpc' \in [Workers -> WorkerStates]
<1>1. Signal
  BY DEF StartRead, Enqueue
<1>2. queue' = Append(queue, i) /\ queue \in Seq(Slots)
  BY DEF StartRead, Enqueue, TypeOK
<1>3. queue' \in Seq(Slots)
  BY <1>2
<1>4. wpc' \in [Workers -> WorkerStates]
  BY <1>1, SignalType
<1>5. where' \in [Places -> Slots \cup {None}]
  BY DEF StartRead, TypeOK
<1>6. place' \in [Slots -> Places \cup {NoPlace}]
  BY DEF StartRead, TypeOK
<1>7. state' \in [Slots -> SlotStates]
  BY DEF StartRead, TypeOK, SlotStates
<1>8. prefetched' \in [Slots -> BOOLEAN]
  BY DEF StartRead, Mark, TypeOK
<1>9. clock' \in Nat /\ last_use' \in [Slots -> Nat]
  BY DEF StartRead, TypeOK
<1>. QED  BY <1>3, <1>4, <1>5, <1>6, <1>7, <1>8, <1>9

LEMMA BatchesType == \A s \in Batches : s \in Seq(Places) /\ Distinct(s) /\ DOMAIN s = 1 .. Len(s)
<1>. SUFFICES ASSUME NEW k \in 1 .. K, NEW s \in [1 .. k -> Places], Distinct(s)
             PROVE  s \in Seq(Places) /\ Distinct(s) /\ DOMAIN s = 1 .. Len(s)
  BY DEF Batches
<1>1. k \in Nat
  BY StreamAssumption
<1>. QED  BY <1>1

\* The caller's part of taking a place.
LEMMA TakeType ==
  ASSUME TypeOK, NEW i \in Slots, NEW p \in Places, Take(p, i), todo # <<>>
  PROVE  /\ users' \in [Slots -> Nat] /\ batch' \in SUBSET Places
         /\ todo' \in Seq(Places) /\ pc' = "hold"
<1>1. users \in [Slots -> Nat] /\ batch \in SUBSET Places /\ todo \in Seq(Places)
  BY DEF TypeOK
<1>2. users' = [users EXCEPT ![i] = @ + 1]
  BY DEF Take
<1>3. users' \in [Slots -> Nat]
  BY <1>1, <1>2
<1>4. todo' \in Seq(Places)
  BY <1>1, HeadTailProperties DEF Take
<1>. QED  BY <1>1, <1>3, <1>4 DEF Take

LEMMA MissType ==
  ASSUME TypeOK, NEW i \in Slots, NEW p \in Places, NEW st \in Counts, Miss(p, i, st),
         uses' \in [Places -> Nat], todo # <<>>
  PROVE  TypeOK'
<1>1. StartRead(i, p, FALSE) /\ Take(p, i) /\ UNCHANGED <<closing, buf, job, held>>
  BY DEF Miss
<1>2. stats' \in Counts
  BY DEF Miss, Counts
<1>3. closing' \in BOOLEAN /\ buf' \in [Slots -> Places \cup {NoPlace}]
      /\ job' \in [Workers -> Jobs] /\ held' \in [Places -> Nat]
  BY <1>1 DEF TypeOK, Jobs
<1>. QED
  BY <1>1, <1>2, <1>3, StartReadType, TakeType
  DEF TypeOK, Counts, Jobs, SlotStates, WorkerStates

LEMMA TypeNext == IInv /\ [Next]_vars => TypeOK'
<1>. SUFFICES ASSUME TypeOK, pc = "hold_woken" => todo # <<>>, [Next]_vars PROVE TypeOK'
  BY DEF IInv, CallerOK
<1>. USE DEF table, work, caller
<1>. USE DEF Counts, SlotStates, WorkerStates, Jobs
<1>0. Acquired \in Counts
  BY AcquiredType
<1>1. ASSUME NEW s \in Batches, Hold(s) PROVE TypeOK'
  BY <1>1, BatchesType DEF Hold, TypeOK
<1>2. ASSUME NEW s \in Batches, Prefetch(s) PROVE TypeOK'
  BY <1>2, BatchesType DEF Prefetch, TypeOK
<1>3. ASSUME HoldResident PROVE TypeOK'
  <2>. DEFINE p == Head(todo)
              i == where[p]
              again == state[i] = "FAILED" /\ users[i] = 0
              reading == state[i] = "READING"
  <2>0. todo \in Seq(Places) /\ todo # <<>> /\ where \in [Places -> Slots \cup {None}] /\ where[p] # None
    BY <1>3 DEF HoldResident, TypeOK
  <2>1. p \in Places /\ i \in Slots
    BY <2>0, HeadTailProperties
  <2>2. uses' \in [Places -> Nat]
    BY <1>3, <2>1, UsesType DEF HoldResident
  <2>3. stats' \in Counts
    <3>1. stats' = [Acquired EXCEPT !.misses = @ + One(again), !.in_flight = @ + One(reading),
                                    !.hits = @ + One(~again /\ ~reading),
                                    !.prefetch_used = @ + One(prefetched[i])]
      BY <1>3 DEF HoldResident
    <3>2. \A b \in BOOLEAN : One(b) \in Nat
      BY DEF One
    <3>3. prefetched[i] \in BOOLEAN
      BY <2>1 DEF TypeOK
    <3>4. One(again) \in Nat /\ One(reading) \in Nat /\ One(~again /\ ~reading) \in Nat
          /\ One(prefetched[i]) \in Nat
      BY <3>2, <3>3
    <3>. HIDE DEF Counts
    <3>. QED  BY <1>0, <3>1, <3>4, CountsType
  <2>4. /\ state' \in [Slots -> SlotStates]
        /\ queue' \in Seq(Slots)
        /\ wpc' \in [Workers -> WorkerStates]
    <3>1. CASE again
      <4>1. state' = [state EXCEPT ![i] = "READING"] /\ queue' = Append(queue, i) /\ Signal
        BY <1>3, <3>1 DEF HoldResident, Enqueue
      <4>2. queue' \in Seq(Slots)
        BY <4>1, <2>1 DEF TypeOK
      <4>. QED  BY <4>1, <4>2, SignalType DEF TypeOK
    <3>2. CASE ~again
      BY <1>3, <3>2 DEF HoldResident, TypeOK
    <3>. QED  BY <3>1, <3>2
  <2>5. prefetched' \in [Slots -> BOOLEAN]
    <3>1. prefetched' = [prefetched EXCEPT ![i] = FALSE]
      BY <1>3 DEF HoldResident, Mark
    <3>. QED  BY <3>1 DEF TypeOK
  <2>6. clock' \in Nat /\ last_use' \in [Slots -> Nat]
    <3>1. clock' = clock + 1 /\ last_use' = [last_use EXCEPT ![i] = clock + 1]
      BY <1>3 DEF HoldResident
    <3>2. clock \in Nat /\ last_use \in [Slots -> Nat]
      BY DEF TypeOK
    <3>3. clock + 1 \in Nat
      BY <3>2
    <3>4. last_use' \in [Slots -> Nat]
      BY <2>1, <3>1, <3>2, <3>3, Zenon
    <3>. QED  BY <3>1, <3>3, <3>4
  <2>7. users' \in [Slots -> Nat] /\ todo' \in Seq(Places) /\ batch' \in SUBSET Places /\ pc' = "hold"
    <3>1. Take(p, i)
      BY <1>3 DEF HoldResident
    <3>. QED  BY <2>0, <2>1, <3>1, TakeType
  <2>8. UNCHANGED <<where, place, closing, buf, job, held>>
    BY <1>3 DEF HoldResident
  <2>. HIDE DEF p, i, again, reading
  <2>. QED  BY <2>2, <2>3, <2>4, <2>5, <2>6, <2>7, <2>8 DEF TypeOK
<1>4. ASSUME HoldMiss PROVE TypeOK'
  <2>1. Head(todo) \in Places /\ todo # <<>> /\ uses' = UsesAfter(Head(todo))
    BY <1>4, HeadTailProperties DEF HoldMiss, TypeOK
  <2>2. PICK i \in Slots : Miss(Head(todo), i, Acquired)
    BY <1>4 DEF HoldMiss
  <2>. QED  BY <1>0, <2>1, <2>2, MissType, UsesType
<1>5. ASSUME HoldSleep PROVE TypeOK'
  <2>1. Head(todo) \in Places
    BY <1>5, HeadTailProperties DEF HoldSleep, TypeOK
  <2>2. uses' \in [Places -> Nat] /\ stats' \in Counts
    BY <1>0, <1>5, <2>1, UsesType DEF HoldSleep
  <2>. HIDE DEF Counts
  <2>3. /\ UNCHANGED <<where, place, state, users, last_use, prefetched, clock>>
        /\ UNCHANGED <<queue, closing, buf, wpc, job, todo, batch, held>>
        /\ pc' = "hold_asleep"
    BY <1>5 DEF HoldSleep
  <2>. QED  BY <2>2, <2>3 DEF TypeOK, Counts
<1>6. ASSUME HoldReturn \/ PrefetchReturn \/ WaitSleep \/ Closed PROVE TypeOK'
  BY <1>6 DEF HoldReturn, PrefetchReturn, WaitSleep, Closed, TypeOK
<1>8. ASSUME PrefetchPlace PROVE TypeOK'
  <2>. DEFINE p == Head(todo)
  <2>1. p \in Places /\ Tail(todo) \in Seq(Places)
    BY <1>8, HeadTailProperties DEF PrefetchPlace, TypeOK
  <2>2. CASE todo' = Tail(todo) /\ UNCHANGED <<table, work>>
    BY <1>8, <2>1, <2>2 DEF PrefetchPlace, TypeOK
  <2>3. CASE todo' = <<>> /\ UNCHANGED <<table, work>>
    <3>1. todo' \in Seq(Places)
      BY <2>3
    <3>2. UNCHANGED <<pc, batch, held>>
      BY <1>8 DEF PrefetchPlace
    <3>. QED  BY <2>3, <3>1, <3>2 DEF TypeOK
  <2>4. ASSUME NEW i \in Slots, StartRead(i, p, TRUE),
               stats' = [stats EXCEPT !.prefetched = @ + 1], todo' = Tail(todo),
               UNCHANGED <<uses, users, closing, buf, job>>, UNCHANGED <<pc, batch, held>>
        PROVE  TypeOK'
    <3>1. /\ where' \in [Places -> Slots \cup {None}]
          /\ place' \in [Slots -> Places \cup {NoPlace}]
          /\ state' \in [Slots -> SlotStates]
          /\ prefetched' \in [Slots -> BOOLEAN]
          /\ clock' \in Nat
          /\ last_use' \in [Slots -> Nat]
          /\ queue' \in Seq(Slots)
          /\ wpc' \in [Workers -> WorkerStates]
      BY <2>1, <2>4, StartReadType
    <3>2. /\ uses' \in [Places -> Nat] /\ users' \in [Slots -> Nat] /\ closing' \in BOOLEAN
          /\ buf' \in [Slots -> Places \cup {NoPlace}]
          /\ job' \in [Workers -> Jobs]
          /\ pc' = pc /\ batch' \in SUBSET Places /\ held' \in [Places -> Nat]
      BY <2>4 DEF TypeOK
    <3>3. stats' \in Counts
      <4>1. stats \in Counts
        BY DEF TypeOK
      <4>. QED  BY <2>4, <4>1
    <3>. QED  BY <2>1, <2>4, <3>1, <3>2, <3>3 DEF TypeOK
  <2>. QED  BY <1>8, <2>2, <2>3, <2>4 DEF PrefetchPlace
<1>7. ASSUME HoldWoken PROVE TypeOK'
  <2>1. todo # <<>> /\ Head(todo) \in Places
    BY <1>7, HeadTailProperties DEF HoldWoken, TypeOK
  <2>2. CASE \E i \in Slots : IsFree(i, uses) /\ Miss(Head(todo), i, stats) /\ UNCHANGED uses
    BY <1>7, <2>1, <2>2, MissType DEF TypeOK
  <2>3. CASE pc' = "hold_asleep" /\ UNCHANGED <<table, work, todo, batch, held>>
    BY <2>3 DEF TypeOK
  <2>. QED  BY <1>7, <2>2, <2>3 DEF HoldWoken

<1>9. ASSUME WaitReturn PROVE TypeOK'
  <2>1. held' \in [Places -> Nat]
    <3>1. held \in [Places -> Nat]
      BY DEF TypeOK
    <3>2. ASSUME NEW p \in Places PROVE (IF p \in batch THEN held[p] + 1 ELSE held[p]) \in Nat
      BY <3>1
    <3>. QED  BY <1>9, <3>2, Zenon DEF WaitReturn
  <2>2. /\ pc' = "idle" /\ batch' = {}
        /\ UNCHANGED <<where, uses, place, state, users, last_use, prefetched, clock, stats>>
        /\ UNCHANGED <<queue, closing, buf, wpc, job, todo>>
    BY <1>9 DEF WaitReturn
  <2>. QED  BY <2>1, <2>2 DEF TypeOK
<1>10. ASSUME WaitFail PROVE TypeOK'
  <2>. DEFINE B == BatchSlots
              left(i) == IF i \in B /\ users[i] > 0 THEN users[i] - 1 ELSE users[i]
              E == {i \in B : state[i] = "FAILED" /\ left(i) = 0}
  <2>1. /\ users' = [i \in Slots |-> left(i)]
        /\ where' = [p \in Places |-> IF where[p] \in E THEN None ELSE where[p]]
        /\ place' = [i \in Slots |-> IF i \in E THEN NoPlace ELSE place[i]]
        /\ state' = [i \in Slots |-> IF i \in E THEN "EMPTY" ELSE state[i]]
        /\ prefetched' = [i \in Slots |-> prefetched[i] /\ i \notin E]
    BY <1>10, Zenon DEF WaitFail, LetGo
  <2>2. /\ pc' = "idle" /\ batch' = {}
        /\ UNCHANGED <<uses, last_use, clock, stats, queue, closing, buf, wpc, job, todo, held>>
    BY <1>10 DEF WaitFail
  <2>. HIDE DEF B
  <2>3. ASSUME NEW i \in Slots PROVE left(i) \in Nat
    <3>1. users[i] \in Nat
      BY DEF TypeOK
    <3>. QED  BY <3>1
  <2>. HIDE DEF left, E
  <2>4. /\ where \in [Places -> Slots \cup {None}] /\ place \in [Slots -> Places \cup {NoPlace}]
        /\ state \in [Slots -> {"EMPTY", "READING", "READY", "FAILED"}]
    BY DEF TypeOK
  <2>5. users' \in [Slots -> Nat]
    BY <2>1, <2>3, Zenon
  <2>6. where' \in [Places -> Slots \cup {None}] /\ place' \in [Slots -> Places \cup {NoPlace}]
    BY <2>1, <2>4
  <2>7. state' \in [Slots -> {"EMPTY", "READING", "READY", "FAILED"}] /\ prefetched' \in [Slots -> BOOLEAN]
    BY <2>1, <2>4
  <2>. QED  BY <2>2, <2>5, <2>6, <2>7 DEF TypeOK
<1>11. ASSUME NEW S \in SUBSET {p \in Places : held[p] > 0}, Release(S) PROVE TypeOK'
  <2>1. users \in [Slots -> Nat] /\ held \in [Places -> Nat]
    BY DEF TypeOK
  <2>2. users' \in [Slots -> Nat]
    <3>1. \A n \in Nat : n > 0 => n - 1 \in Nat
      OBVIOUS
    <3>2. ASSUME NEW i \in Slots
          PROVE  (IF users[i] > 0 /\ \E p \in S : where[p] = i THEN users[i] - 1 ELSE users[i]) \in Nat
      BY <2>1, <3>1, Zenon
    <3>. QED  BY <1>11, <3>2, Zenon DEF Release
  <2>3. held' \in [Places -> Nat]
    <3>1. ASSUME NEW p \in Places PROVE (IF p \in S THEN held[p] - 1 ELSE held[p]) \in Nat
      <4>1. held[p] \in Nat /\ (p \in S => held[p] > 0)
        BY <2>1
      <4>. QED  BY <4>1
    <3>. QED  BY <1>11, <3>1, Zenon DEF Release
  <2>4. /\ pc' = pc /\ UNCHANGED <<where, uses, place, state, last_use, prefetched, clock, stats>>
        /\ UNCHANGED <<queue, closing, buf, wpc, job, todo, batch>>
    BY <1>11 DEF Release, work
  <2>. QED  BY <2>2, <2>3, <2>4 DEF TypeOK
<1>12. ASSUME NEW p \in Places, HoldReady(p) PROVE TypeOK'
  <2>1. users \in [Slots -> Nat] /\ held \in [Places -> Nat]
    BY DEF TypeOK
  <2>2. users' \in [Slots -> Nat]
    <3>. DEFINE i == where[p]
    <3>1. users' = [users EXCEPT ![i] = users[i] + 1]
      BY <1>12, Zenon DEF HoldReady
    <3>. HIDE DEF i
    <3>2. i \in Slots => users[i] + 1 \in Nat
      BY <2>1
    <3>3. ASSUME NEW j \in Slots PROVE users'[j] \in Nat
      BY <2>1, <3>1, <3>2, Zenon
    <3>4. users' = [j \in Slots |-> users'[j]]
      BY <2>1, <3>1, Zenon
    <3>. QED  BY <3>3, <3>4, Zenon
  <2>3. held' \in [Places -> Nat]
    <3>1. held' = [held EXCEPT ![p] = @ + 1]
      BY <1>12, Zenon DEF HoldReady
    <3>. QED  BY <2>1, <3>1
  <2>4. /\ pc' = pc /\ UNCHANGED <<where, uses, place, state, last_use, prefetched, clock, stats>>
        /\ UNCHANGED <<queue, closing, buf, wpc, job, todo, batch>>
    BY <1>12 DEF HoldReady, work
  <2>. QED  BY <2>2, <2>3, <2>4 DEF TypeOK
<1>13. ASSUME Close PROVE TypeOK'
  BY <1>13 DEF Close, TypeOK
<1>14. ASSUME NEW w \in Workers, WorkerStep(w) PROVE TypeOK'
  <2>1. CASE WorkerSleep(w) \/ WorkerStop(w)
    BY <2>1 DEF WorkerSleep, WorkerStop, TypeOK
  <2>2. CASE WorkerTake(w)
    <3>1. Head(queue) \in Slots /\ Tail(queue) \in Seq(Slots)
      BY <2>2 DEF WorkerTake, TypeOK
    <3>2. place[Head(queue)] \in Places \cup {NoPlace}
      BY <3>1 DEF TypeOK
    <3>. QED  BY <2>2, <3>1, <3>2 DEF WorkerTake, TypeOK
  <2>3. CASE WorkerRead(w)
    <3>1. PICK ok \in BOOLEAN :
            /\ job' = [job EXCEPT ![w].ok = ok]
            /\ buf' = [buf EXCEPT ![job[w].slot] = IF ok THEN job[w].place ELSE NoPlace]
      BY <2>3 DEF WorkerRead
    <3>2. job \in [Workers -> Jobs] /\ buf \in [Slots -> Places \cup {NoPlace}]
      BY DEF TypeOK
    <3>3. job[w] \in Jobs
      BY <3>2
    <3>4. [job[w] EXCEPT !.ok = ok] \in Jobs
      BY <3>3
    <3>5. job' \in [Workers -> Jobs]
      <4>1. job' = [job EXCEPT ![w] = [job[w] EXCEPT !.ok = ok]]
        BY <3>1
      <4>. HIDE DEF Jobs
      <4>. QED  BY <3>2, <3>4, <4>1
    <3>6. buf' \in [Slots -> Places \cup {NoPlace}]
      <4>1. (IF ok THEN job[w].place ELSE NoPlace) \in Places \cup {NoPlace}
        BY <3>3
      <4>. QED  BY <3>1, <3>2, <4>1
    <3>7. wpc' \in [Workers -> WorkerStates] /\ UNCHANGED <<table, queue, closing, caller>>
      BY <2>3 DEF WorkerRead, TypeOK
    <3>. HIDE DEF Jobs
    <3>8. TypeOK' 
      BY <3>5, <3>6, <3>7 DEF TypeOK, Jobs
    <3>. QED  BY <3>8
  <2>4. CASE WorkerDone(w)
    <3>1. 0 \in Slots
      BY StreamAssumption DEF Slots
    <3>2. NoJob \in Jobs
      BY <3>1 DEF NoJob
    <3>. QED  BY <2>4, <3>2 DEF WorkerDone, EndState, Woken, TypeOK
  <2>. QED  BY <1>14, <2>1, <2>2, <2>3, <2>4 DEF WorkerStep
<1>15. CASE UNCHANGED vars
  BY <1>15 DEF vars, TypeOK
<1>. QED
  BY <1>1, <1>2, <1>3, <1>4, <1>5, <1>6, <1>7, <1>8, <1>9, <1>10, <1>11, <1>12, <1>13, <1>14, <1>15
  DEF Next, HoldStep, PrefetchStep, WaitStep, Terminated

-----------------------------------------------------------------------------
(* Sequences, and what the caller's loop takes from its own. *)

LEMMA HeadTail ==
  ASSUME NEW T, NEW s \in Seq(T), s # <<>>
  PROVE  /\ Head(s) = s[1] /\ s[1] \in T /\ Len(s) \in Nat \ {0}
         /\ Tail(s) \in Seq(T) /\ Len(Tail(s)) = Len(s) - 1
         /\ \A n \in 1 .. Len(Tail(s)) : n + 1 \in 2 .. Len(s) /\ Tail(s)[n] = s[n + 1]
<1>1. Head(s) = s[1] /\ Len(s) \in Nat \ {0} /\ s[1] \in T
  OBVIOUS
<1>2. /\ Tail(s) \in Seq(T) /\ Len(Tail(s)) = Len(s) - 1
      /\ \A n \in 1 .. Len(Tail(s)) : Tail(s)[n] = s[n + 1]
  BY HeadTailProperties
<1>. QED  BY <1>1, <1>2

\* The rest of a sequence of different elements has not its first.
LEMMA DistinctTail ==
  ASSUME NEW T, NEW s \in Seq(T), s # <<>>, Distinct(s)
  PROVE  /\ Distinct(Tail(s))
         /\ \A n \in 1 .. Len(Tail(s)) : Tail(s)[n] # s[1]
<1>1. DOMAIN s = 1 .. Len(s) /\ DOMAIN Tail(s) = 1 .. Len(Tail(s))
  BY HeadTail, LenProperties
<1>2. \A m, n \in 1 .. Len(s) : s[m] = s[n] => m = n
  BY <1>1 DEF Distinct
<1>3. \A m, n \in 1 .. Len(Tail(s)) : Tail(s)[m] = Tail(s)[n] => m = n
  BY <1>2, HeadTail
<1>4. \A n \in 1 .. Len(Tail(s)) : Tail(s)[n] # s[1]
  BY <1>2, HeadTail
<1>. QED  BY <1>1, <1>3, <1>4 DEF Distinct

\* After Take the loop's places are still different and none is in the batch.
LEMMA TakeCaller ==
  ASSUME TypeOK, Distinct(todo), todo # <<>>,
         \A n \in 1 .. Len(todo) : todo[n] \notin batch,
         NEW i, Take(Head(todo), i)
  PROVE  /\ Distinct(todo')
         /\ \A n \in 1 .. Len(todo') : todo'[n] \notin batch'
<1>1. todo \in Seq(Places)
  BY DEF TypeOK
<1>2. todo' = Tail(todo) /\ batch' = batch \cup {todo[1]}
  BY <1>1, HeadTail DEF Take
<1>3. \A n \in 1 .. Len(Tail(todo)) : Tail(todo)[n] \notin batch
  BY <1>1, HeadTail
<1>. QED  BY <1>1, <1>2, <1>3, DistinctTail

-----------------------------------------------------------------------------
(* The reads: queue, workers and the slots marked as being read. *)

\* A slot that is marked as being read and put on the queue, its place
\* changed or not, was not being read by anyone.
LEMMA EnqueueReads ==
  ASSUME TypeOK, QueueOK, JobsOK, NoneLost, BytesOK,
         NEW i \in Slots, state[i] # "READING",
         state' = [state EXCEPT ![i] = "READING"], Enqueue(i),
         \A j \in Slots : j # i => place'[j] = place[j],
         job' = job, buf' = buf
  PROVE  QueueOK' /\ JobsOK' /\ NoneLost' /\ BytesOK'
<1>1. /\ queue \in Seq(Slots) /\ state \in [Slots -> SlotStates]
      /\ \A w \in Workers : job[w].slot \in Slots
  BY DEF TypeOK, SlotStates
<1>2. /\ \A j \in Slots : j # i => state'[j] = state[j]
      /\ state'[i] = "READING"
  BY <1>1
<1>3. /\ queue' \in Seq(Slots) /\ Len(queue') = Len(queue) + 1 /\ Len(queue) \in Nat
      /\ \A n \in 1 .. Len(queue) : queue'[n] = queue[n] /\ queue[n] \in Slots
      /\ queue'[Len(queue) + 1] = i
  BY <1>1, AppendProperties DEF Enqueue
<1>4. \A w \in Workers : (Busy(w)' <=> Busy(w)) /\ (wpc'[w] = "read" <=> wpc[w] = "read")
  BY SignalType DEF Enqueue
<1>5. \A n \in 1 .. Len(queue) : queue[n] # i
  BY DEF QueueOK
<1>6. \A w \in Workers : Busy(w) => job[w].slot # i
  BY DEF JobsOK
<1>7. QueueOK'
  <2>1. \A n \in 1 .. Len(queue') : state'[queue'[n]] = "READING"
    BY <1>2, <1>3 DEF QueueOK
  <2>2. \A m, n \in 1 .. Len(queue') : queue'[m] = queue'[n] => m = n
    BY <1>3, <1>5 DEF QueueOK
  <2>. QED  BY <2>1, <2>2 DEF QueueOK
<1>8. JobsOK'
  <2>1. ASSUME NEW w \in Workers, Busy(w)
        PROVE  /\ state'[job[w].slot] = "READING"
               /\ place'[job[w].slot] = job[w].place
               /\ job[w].place \in Places
               /\ \A n \in 1 .. Len(queue') : queue'[n] # job[w].slot
    BY <1>1, <1>2, <1>3, <1>6, <2>1 DEF JobsOK
  <2>. QED  BY <1>4, <2>1 DEF JobsOK
<1>9. NoneLost'
  <2>. SUFFICES ASSUME NEW j \in Slots, state'[j] = "READING"
                PROVE  \/ \E n \in 1 .. Len(queue') : queue'[n] = j
                       \/ \E w \in Workers : Busy(w)' /\ job'[w].slot = j
    BY DEF NoneLost
  <2>1. CASE j = i
    BY <1>3, <2>1
  <2>2. CASE j # i
    <3>1. \/ \E n \in 1 .. Len(queue) : queue[n] = j
          \/ \E w \in Workers : Busy(w) /\ job[w].slot = j
      BY <1>2, <2>2 DEF NoneLost
    <3>. QED  BY <1>3, <1>4, <3>1
  <2>. QED  BY <2>1, <2>2
<1>10. BytesOK'
  <2>1. \A j \in Slots : state'[j] = "READY" => buf'[j] = place'[j]
    BY <1>2 DEF BytesOK
  <2>2. \A w \in Workers : wpc'[w] = "read" /\ job'[w].ok => buf'[job'[w].slot] = job'[w].place
    BY <1>4 DEF BytesOK
  <2>. QED  BY <2>1, <2>2 DEF BytesOK
<1>. QED  BY <1>7, <1>8, <1>9, <1>10

-----------------------------------------------------------------------------
(* The tables. *)

LEMMA NoSlot == None \notin Slots
  BY DEF None, Slots

LEMMA NoPlaceIsNone == NoPlace \notin Places
  BY StreamAssumption

LEMMA TableTypes ==
  ASSUME TypeOK
  PROVE  /\ where \in [Places -> Slots \cup {None}] /\ place \in [Slots -> Places \cup {NoPlace}]
         /\ state \in [Slots -> SlotStates] /\ users \in [Slots -> Nat]
         /\ held \in [Places -> Nat] /\ batch \in SUBSET Places
         /\ \A q \in Places : where[q] # None => where[q] \in Slots
  BY DEF TypeOK, SlotStates

\* Where StartRead leaves the places and the slots, of which i was free and p
\* had none.
LEMMA StartReadTables ==
  ASSUME TypeOK, TableOK, UsersAreHolds, CallerOK,
         NEW i \in Slots, NEW p \in Places, NEW g \in BOOLEAN,
         i \in Evictable, where[p] = None, StartRead(i, p, g)
  PROVE  /\ where'[p] = i /\ place'[i] = p /\ state'[i] = "READING"
         /\ \A j \in Slots : j # i => place'[j] = place[j] /\ state'[j] = state[j]
         /\ \A q \in Places : q # p =>
              where'[q] = IF q = place[i] THEN None ELSE where[q]
         /\ \A q \in Places : where[q] = i <=> q = place[i]
         /\ state[i] # "READING" /\ users[i] = 0
         /\ place[i] \in Places => held[place[i]] = 0 /\ place[i] \notin batch
         /\ held[p] = 0 /\ p \notin batch
<1>1. /\ where \in [Places -> Slots \cup {None}] /\ place \in [Slots -> Places \cup {NoPlace}]
      /\ state \in [Slots -> SlotStates] /\ held \in [Places -> Nat] /\ i # None
      /\ NoPlace \notin Places
  BY TableTypes, NoSlot, NoPlaceIsNone
<1>2. /\ where'[p] = i /\ place'[i] = p /\ state'[i] = "READING"
      /\ \A j \in Slots : j # i => place'[j] = place[j] /\ state'[j] = state[j]
      /\ \A q \in Places : q # p =>
           where'[q] = IF q = place[i] THEN None ELSE where[q]
  BY <1>1 DEF StartRead
<1>3. state[i] # "READING" /\ users[i] = 0
  BY DEF Evictable
<1>4. \A q \in Places : where[q] = i <=> q = place[i]
  BY <1>1 DEF TableOK
<1>5. place[i] \in Places => held[place[i]] = 0 /\ place[i] \notin batch
  BY <1>1, <1>3, <1>4 DEF UsersAreHolds
<1>6. held[p] = 0 /\ p \notin batch
  BY DEF UsersAreHolds
<1>. QED  BY <1>2, <1>3, <1>4, <1>5, <1>6

\* TableOK, but for the slots' users, which Take and prefetch leave different.
LEMMA StartReadTableOK ==
  ASSUME TypeOK, TableOK, UsersAreHolds, CallerOK,
         NEW i \in Slots, NEW p \in Places, NEW g \in BOOLEAN,
         i \in Evictable, where[p] = None, StartRead(i, p, g),
         \A j \in Slots : j # i => users'[j] = users[j]
  PROVE  TableOK'
<1>1. /\ where \in [Places -> Slots \cup {None}] /\ place \in [Slots -> Places \cup {NoPlace}]
      /\ None \notin Slots /\ NoPlace \notin Places
  BY TableTypes, NoSlot, NoPlaceIsNone
<1>2. /\ where'[p] = i /\ place'[i] = p /\ state'[i] = "READING"
      /\ \A j \in Slots : j # i => place'[j] = place[j] /\ state'[j] = state[j]
      /\ \A q \in Places : q # p =>
           where'[q] = IF q = place[i] THEN None ELSE where[q]
      /\ \A q \in Places : where[q] = i <=> q = place[i]
  BY StartReadTables
<1>3. \A q \in Places : where'[q] # None => place'[where'[q]] = q
  BY <1>1, <1>2 DEF TableOK
<1>4. \A j \in Slots : place'[j] # NoPlace => where'[place'[j]] = j
  <2>. SUFFICES ASSUME NEW j \in Slots, place'[j] # NoPlace, j # i PROVE where'[place'[j]] = j
    BY <1>2
  <2>1. place[j] \in Places /\ where[place[j]] = j /\ place'[j] = place[j]
    BY <1>1, <1>2 DEF TableOK
  <2>2. place[j] # p /\ place[j] # place[i]
    BY <1>1, <1>2, <2>1
  <2>. QED  BY <1>2, <2>1, <2>2
<1>5. \A j \in Slots : place'[j] = NoPlace <=> state'[j] = "EMPTY"
  BY <1>1, <1>2 DEF TableOK
<1>6. \A j \in Slots : state'[j] = "EMPTY" => users'[j] = 0
  BY <1>2 DEF TableOK
<1>. QED  BY <1>3, <1>4, <1>5, <1>6 DEF TableOK

\* Held places keep their slots.
LEMMA StartReadHeld ==
  ASSUME TypeOK, TableOK, UsersAreHolds, CallerOK,
         NEW i \in Slots, NEW p \in Places, NEW g \in BOOLEAN,
         i \in Evictable, where[p] = None, StartRead(i, p, g)
  PROVE  \A q \in Places : held[q] > 0 => /\ where[q] # None /\ where'[q] = where[q]
                                          /\ state'[where[q]] = state[where[q]]
                                          /\ state[where[q]] = "READY"
<1>. SUFFICES ASSUME NEW q \in Places, held[q] > 0
             PROVE  /\ where[q] # None /\ where'[q] = where[q]
                    /\ state'[where[q]] = state[where[q]] /\ state[where[q]] = "READY"
  OBVIOUS
<1>1. where[q] # None /\ state[where[q]] = "READY"
  BY DEF CallerOK
<1>2. q # p /\ q # place[i]
  BY StartReadTables
<1>3. where[q] \in Slots /\ where[q] # i
  BY <1>1, <1>2, StartReadTables, TableTypes
<1>. QED  BY <1>1, <1>2, <1>3, StartReadTables

\* A place that had no slot is read and taken: hold's miss.
LEMMA MissInv ==
  ASSUME IInv, Holding, todo # <<>>, where[Head(todo)] = None,
         NEW i \in Slots, i \in Evictable, NEW st, Miss(Head(todo), i, st)
  PROVE  TableOK' /\ UsersAreHolds' /\ QueueOK' /\ JobsOK' /\ NoneLost' /\ BytesOK' /\ CallerOK'
<1>. DEFINE p == Head(todo)
<1>1. /\ TypeOK /\ TableOK /\ UsersAreHolds /\ QueueOK /\ JobsOK /\ NoneLost /\ BytesOK /\ CallerOK
  BY DEF IInv
<1>2. p \in Places /\ where[p] = None /\ FALSE \in BOOLEAN
  BY <1>1, HeadTail DEF TypeOK
<1>3. StartRead(i, p, FALSE) /\ Take(p, i) /\ UNCHANGED <<closing, buf, job, held>>
  BY DEF Miss
<1>4. Distinct(todo') /\ \A n \in 1 .. Len(todo') : todo'[n] \notin batch'
  BY <1>1, <1>3, TakeCaller DEF CallerOK
<1>. HIDE DEF p
<1>5. /\ users \in [Slots -> Nat] /\ held \in [Places -> Nat]
      /\ where \in [Places -> Slots \cup {None}] /\ None \notin Slots
  BY <1>1 DEF TypeOK, Slots, None
<1>6. users' = [users EXCEPT ![i] = @ + 1] /\ batch' = batch \cup {p} /\ pc' = "hold"
  BY <1>3 DEF Take
<1>t. /\ where'[p] = i /\ state[i] # "READING" /\ users[i] = 0
      /\ \A j \in Slots : j # i => place'[j] = place[j]
      /\ \A q \in Places : q # p => where'[q] = IF q = place[i] THEN None ELSE where[q]
      /\ \A q \in Places : where[q] = i <=> q = place[i]
      /\ place[i] \in Places => held[place[i]] = 0 /\ place[i] \notin batch
      /\ held[p] = 0
  <2>1. /\ where'[p] = i /\ place'[i] = p /\ state'[i] = "READING"
        /\ \A j \in Slots : j # i => place'[j] = place[j] /\ state'[j] = state[j]
        /\ \A q \in Places : q # p =>
             where'[q] = IF q = place[i] THEN None ELSE where[q]
        /\ \A q \in Places : where[q] = i <=> q = place[i]
        /\ state[i] # "READING" /\ users[i] = 0
        /\ place[i] \in Places => held[place[i]] = 0 /\ place[i] \notin batch
        /\ held[p] = 0 /\ p \notin batch
    BY <1>1, <1>2, <1>3, StartReadTables, Zenon
  <2>. QED  BY <2>1
<1>7. TableOK'
  BY <1>1, <1>2, <1>3, <1>5, <1>6, StartReadTableOK
<1>8. UsersAreHolds'
  <2>. SUFFICES ASSUME NEW q \in Places
                PROVE  IF where'[q] = None THEN held[q] = 0 /\ q \notin batch'
                       ELSE users'[where'[q]] = held[q] + (IF q \in batch' THEN 1 ELSE 0)
    BY <1>3 DEF UsersAreHolds
  <2>1. CASE q = p
    BY <1>5, <1>6, <1>t, <2>1, NoSlot
  <2>2. CASE q # p /\ q = place[i]
    BY <1>6, <1>t, <2>2
  <2>3. CASE q # p /\ q # place[i]
    <3>1. where'[q] = where[q] /\ where[q] # i
      BY <1>t, <2>3
    <3>2. q \in batch' <=> q \in batch
      BY <1>6, <2>3
    <3>3. where[q] # None => where[q] \in Slots /\ users'[where[q]] = users[where[q]]
      BY <1>5, <1>6, <3>1
    <3>. QED  BY <1>1, <3>1, <3>2, <3>3 DEF UsersAreHolds
  <2>. QED  BY <2>1, <2>2, <2>3
<1>9. QueueOK' /\ JobsOK' /\ NoneLost' /\ BytesOK'
  <2>1. /\ state[i] # "READING"
        /\ \A j \in Slots : j # i => place'[j] = place[j]
    BY <1>t
  <2>2. state' = [state EXCEPT ![i] = "READING"] /\ Enqueue(i)
    BY <1>3 DEF StartRead
  <2>. QED  BY <1>1, <1>3, <2>1, <2>2, EnqueueReads
<1>10. CallerOK'
  <2>1. \A q \in Places : held'[q] > 0 => where'[q] # None /\ state'[where'[q]] = "READY"
    BY <1>1, <1>2, <1>3, StartReadHeld
  <2>. QED  BY <1>4, <1>6, <2>1 DEF CallerOK
<1>. QED  BY <1>7, <1>8, <1>9, <1>10

\* A place that has a slot is taken, and read again if its prefetch failed.
LEMMA HoldResidentInv ==
  ASSUME IInv, HoldResident
  PROVE  TableOK' /\ UsersAreHolds' /\ QueueOK' /\ JobsOK' /\ NoneLost' /\ BytesOK' /\ CallerOK'
<1>. DEFINE p == Head(todo)
            i == where[p]
            again == state[i] = "FAILED" /\ users[i] = 0
<1>1. /\ TypeOK /\ TableOK /\ UsersAreHolds /\ QueueOK /\ JobsOK /\ NoneLost /\ BytesOK /\ CallerOK
  BY DEF IInv
<1>2. pc = "hold" /\ todo # <<>> /\ i # None
  BY DEF HoldResident
<1>3. p \in Places /\ p = todo[1] /\ todo \in Seq(Places) /\ Len(todo) \in Nat \ {0}
  BY <1>1, <1>2, HeadTail DEF TypeOK
<1>4. /\ users' = [users EXCEPT ![i] = @ + 1] /\ batch' = batch \cup {p} /\ pc' = "hold"
      /\ UNCHANGED <<where, place, buf, job, held>> /\ Take(p, i)
  BY DEF HoldResident, Take
<1>5. \/ again /\ state' = [state EXCEPT ![i] = "READING"] /\ Enqueue(i)
      \/ ~again /\ UNCHANGED <<state, queue, wpc>>
  BY DEF HoldResident
<1>6. Distinct(todo') /\ \A n \in 1 .. Len(todo') : todo'[n] \notin batch'
  BY <1>1, <1>2, <1>4, TakeCaller DEF CallerOK, Holding
<1>7. p \notin batch
  BY <1>1, <1>2, <1>3 DEF CallerOK, Holding
<1>8. i \in Slots /\ place[i] = p
  BY <1>1, <1>2, <1>3, TableTypes DEF TableOK
<1>. HIDE DEF p, i
<1>9. /\ where \in [Places -> Slots \cup {None}] /\ place \in [Slots -> Places \cup {NoPlace}]
      /\ state \in [Slots -> SlotStates] /\ users \in [Slots -> Nat] /\ held \in [Places -> Nat]
      /\ \A q \in Places : where[q] # None => where[q] \in Slots
  BY <1>1, TableTypes
<1>10. /\ \A j \in Slots : j # i => state'[j] = state[j] /\ users'[j] = users[j]
       /\ users'[i] = users[i] + 1
       /\ \A j \in Slots : state'[j] # state[j] => state[j] = "FAILED" /\ users[j] = 0 /\ j = i
       /\ \A j \in Slots : state'[j] # state[j] => state'[j] = "READING"
  BY <1>4, <1>5, <1>8, <1>9
<1>11. TableOK'
  <2>1. \A j \in Slots : place[j] = NoPlace <=> state'[j] = "EMPTY"
    BY <1>1, <1>10 DEF TableOK
  <2>2. \A j \in Slots : state'[j] = "EMPTY" => users'[j] = 0
    BY <1>1, <1>3, <1>8, <1>10, <2>1, NoPlaceIsNone DEF TableOK
  <2>. QED  BY <1>1, <1>4, <2>1, <2>2 DEF TableOK
<1>12. UsersAreHolds'
  <2>. SUFFICES ASSUME NEW q \in Places
                PROVE  IF where[q] = None THEN held[q] = 0 /\ q \notin batch'
                       ELSE users'[where[q]] = held[q] + (IF q \in batch' THEN 1 ELSE 0)
    BY <1>4 DEF UsersAreHolds
  <2>1. CASE q = p
    <3>1. where[q] = i
      BY <2>1 DEF i
    <3>2. users[i] = held[p]
      BY <1>1, <1>2, <1>3, <1>7, <1>9, <2>1, <3>1 DEF UsersAreHolds
    <3>. QED  BY <1>2, <1>4, <1>10, <2>1, <3>1, <3>2
  <2>2. CASE q # p
    <3>1. q \in batch' <=> q \in batch
      BY <1>4, <2>2
    <3>2. where[q] # None => where[q] \in Slots /\ place[where[q]] = q
      BY <1>1, <1>9 DEF TableOK
    <3>3. where[q] # None => users'[where[q]] = users[where[q]]
      BY <1>8, <1>10, <2>2, <3>2
    <3>. QED  BY <1>1, <3>1, <3>3 DEF UsersAreHolds
  <2>. QED  BY <2>1, <2>2
<1>13. QueueOK' /\ JobsOK' /\ NoneLost' /\ BytesOK'
  <2>1. CASE again /\ state' = [state EXCEPT ![i] = "READING"] /\ Enqueue(i)
    BY <1>1, <1>4, <1>8, <2>1, EnqueueReads
  <2>2. CASE ~again /\ UNCHANGED <<state, queue, wpc>>
    BY <1>1, <1>4, <2>2 DEF QueueOK, JobsOK, NoneLost, BytesOK, Busy
  <2>. QED  BY <1>5, <2>1, <2>2
<1>14. CallerOK'
  <2>1. \A q \in Places : held'[q] > 0 => where'[q] # None /\ state'[where'[q]] = "READY"
    <3>. SUFFICES ASSUME NEW q \in Places, held[q] > 0
                  PROVE  where[q] # None /\ state'[where[q]] = "READY"
      BY <1>4
    <3>1. where[q] # None /\ state[where[q]] = "READY"
      BY <1>1 DEF CallerOK
    <3>. QED  BY <1>9, <1>10, <3>1
  <2>. QED  BY <1>4, <1>6, <2>1 DEF CallerOK
<1>. QED  BY <1>11, <1>12, <1>13, <1>14

\* prefetch passes a place, begins its read, or stops.
LEMMA PrefetchPlaceInv ==
  ASSUME IInv, PrefetchPlace
  PROVE  TableOK' /\ UsersAreHolds' /\ QueueOK' /\ JobsOK' /\ NoneLost' /\ BytesOK' /\ CallerOK'
<1>. DEFINE p == Head(todo)
<1>1. /\ TypeOK /\ TableOK /\ UsersAreHolds /\ QueueOK /\ JobsOK /\ NoneLost /\ BytesOK /\ CallerOK
  BY DEF IInv
<1>2. pc = "prefetch" /\ todo # <<>> /\ UNCHANGED <<pc, batch, held>>
  BY DEF PrefetchPlace
<1>3. p \in Places /\ todo \in Seq(Places)
  BY <1>1, <1>2, HeadTail DEF TypeOK
<1>4. Distinct(Tail(todo)) /\ Distinct(<<>>)
  BY <1>1, <1>2, <1>3, DistinctTail DEF CallerOK, Distinct
<1>5. CASE UNCHANGED <<table, work>> /\ Distinct(todo')
  BY <1>1, <1>2, <1>5 DEF table, work, TableOK, UsersAreHolds, QueueOK, JobsOK, NoneLost, BytesOK,
     CallerOK, Busy, Holding
<1>6. ASSUME NEW i \in Slots, i \in Evictable, where[p] = None, StartRead(i, p, TRUE),
             todo' = Tail(todo), UNCHANGED <<uses, users, closing, buf, job>>
      PROVE  TableOK' /\ UsersAreHolds' /\ QueueOK' /\ JobsOK' /\ NoneLost' /\ BytesOK' /\ CallerOK'
  <2>. HIDE DEF p
  <2>0. TRUE \in BOOLEAN
    OBVIOUS
  <2>1. /\ where'[p] = i /\ place'[i] = p /\ state'[i] = "READING"
        /\ \A j \in Slots : j # i => place'[j] = place[j] /\ state'[j] = state[j]
        /\ \A q \in Places : q # p =>
             where'[q] = IF q = place[i] THEN None ELSE where[q]
        /\ \A q \in Places : where[q] = i <=> q = place[i]
        /\ state[i] # "READING" /\ users[i] = 0
        /\ place[i] \in Places => held[place[i]] = 0 /\ place[i] \notin batch
        /\ held[p] = 0 /\ p \notin batch
    BY <1>1, <1>3, <1>6, <2>0, StartReadTables, Zenon
  <2>2. TableOK'
    BY <1>1, <1>3, <1>6, <2>0, StartReadTableOK
  <2>3. UsersAreHolds'
    <3>. SUFFICES ASSUME NEW q \in Places
                  PROVE  IF where'[q] = None THEN held[q] = 0 /\ q \notin batch
                         ELSE users[where'[q]] = held[q] + (IF q \in batch THEN 1 ELSE 0)
      BY <1>2, <1>6 DEF UsersAreHolds
    <3>1. CASE q = p
      BY <2>1, <3>1, NoSlot
    <3>2. CASE q # p /\ q = place[i]
      BY <2>1, <3>2
    <3>3. CASE q # p /\ q # place[i]
      BY <1>1, <2>1, <3>3 DEF UsersAreHolds
    <3>. QED  BY <3>1, <3>2, <3>3
  <2>4. QueueOK' /\ JobsOK' /\ NoneLost' /\ BytesOK'
    <3>1. state' = [state EXCEPT ![i] = "READING"] /\ Enqueue(i)
      BY <1>6 DEF StartRead
    <3>. QED  BY <1>1, <1>6, <2>1, <3>1, EnqueueReads
  <2>5. CallerOK'
    <3>1. \A q \in Places : held'[q] > 0 => where'[q] # None /\ state'[where'[q]] = "READY"
      BY <1>1, <1>2, <1>3, <1>6, <2>0, StartReadHeld
    <3>. QED  BY <1>2, <1>4, <1>6, <3>1 DEF CallerOK, Holding
  <2>. QED  BY <2>2, <2>3, <2>4, <2>5
<1>7. \A i \in Slots : IsFree(i, uses) => i \in Evictable
  BY DEF IsFree
<1>. QED  BY <1>4, <1>5, <1>6, <1>7 DEF PrefetchPlace

\* wait hands the batch out: each of its places has a slot, which was read.
LEMMA WaitReturnInv ==
  ASSUME IInv, WaitReturn
  PROVE  TableOK' /\ UsersAreHolds' /\ QueueOK' /\ JobsOK' /\ NoneLost' /\ BytesOK' /\ CallerOK'
<1>1. /\ TypeOK /\ TableOK /\ UsersAreHolds /\ QueueOK /\ JobsOK /\ NoneLost /\ BytesOK /\ CallerOK
  BY DEF IInv
<1>2. /\ pc' = "idle" /\ batch' = {}
      /\ UNCHANGED <<where, place, state, users, queue, buf, wpc, job, todo>>
      /\ held' = [p \in Places |-> IF p \in batch THEN held[p] + 1 ELSE held[p]]
      /\ \A p \in batch : state[where[p]] = "READY"
  BY DEF WaitReturn, table, work, BatchSlots
<1>3. TableOK' /\ QueueOK' /\ JobsOK' /\ NoneLost' /\ BytesOK'
  BY <1>1, <1>2 DEF TableOK, QueueOK, JobsOK, NoneLost, BytesOK, Busy
<1>4. \A q \in batch : q \in Places /\ where[q] # None
  BY <1>1 DEF UsersAreHolds, TypeOK
<1>5. held \in [Places -> Nat]
  BY <1>1, TableTypes
<1>6. UsersAreHolds'
  <2>. SUFFICES ASSUME NEW q \in Places
                PROVE  IF where[q] = None THEN held'[q] = 0
                       ELSE users[where[q]] = held'[q]
    BY <1>2, <1>5 DEF UsersAreHolds
  <2>1. CASE q \in batch
    BY <1>1, <1>2, <1>4, <1>5, <2>1 DEF UsersAreHolds
  <2>2. CASE q \notin batch
    BY <1>1, <1>2, <1>5, <2>2 DEF UsersAreHolds
  <2>. QED  BY <2>1, <2>2
<1>7. CallerOK'
  <2>1. ASSUME NEW q \in Places, held'[q] > 0
        PROVE  where'[q] # None /\ state'[where'[q]] = "READY"
    <3>1. CASE q \in batch
      BY <1>2, <1>4, <3>1
    <3>2. CASE q \notin batch
      BY <1>1, <1>2, <2>1, <3>2 DEF CallerOK
    <3>. QED  BY <3>1, <3>2
  <2>. QED  BY <1>1, <1>2, <2>1 DEF CallerOK, Holding
<1>. QED  BY <1>3, <1>6, <1>7

\* wait lets the whole batch go, and empties those of its slots that nobody
\* else holds and whose read failed.
LEMMA WaitFailInv ==
  ASSUME IInv, WaitFail
  PROVE  TableOK' /\ UsersAreHolds' /\ QueueOK' /\ JobsOK' /\ NoneLost' /\ BytesOK' /\ CallerOK'
<1>. DEFINE left(i) == IF i \in BatchSlots /\ users[i] > 0 THEN users[i] - 1 ELSE users[i]
            emptied == {i \in BatchSlots : state[i] = "FAILED" /\ left(i) = 0}
<1>1. /\ TypeOK /\ TableOK /\ UsersAreHolds /\ QueueOK /\ JobsOK /\ NoneLost /\ BytesOK /\ CallerOK
  BY DEF IInv
<1>2. /\ pc' = "idle" /\ batch' = {}
      /\ UNCHANGED <<queue, buf, wpc, job, todo, held>>
  BY DEF WaitFail, work
<1>3. /\ users' = [i \in Slots |-> left(i)]
      /\ where' = [p \in Places |-> IF where[p] \in emptied THEN None ELSE where[p]]
      /\ place' = [i \in Slots |-> IF i \in emptied THEN NoPlace ELSE place[i]]
      /\ state' = [i \in Slots |-> IF i \in emptied THEN "EMPTY" ELSE state[i]]
  BY DEF WaitFail, LetGo
<1>4. /\ where \in [Places -> Slots \cup {None}] /\ users \in [Slots -> Nat]
      /\ state \in [Slots -> SlotStates] /\ held \in [Places -> Nat] /\ batch \in SUBSET Places
      /\ \A q \in Places : where[q] # None => where[q] \in Slots
      /\ place \in [Slots -> Places \cup {NoPlace}]
  BY <1>1, TableTypes
<1>5. /\ \A q \in batch : where[q] # None
      /\ \A i \in BatchSlots : i \in Slots
  BY <1>1, <1>4 DEF UsersAreHolds, BatchSlots
<1>6. \A q \in Places : where[q] # None => (where[q] \in BatchSlots <=> q \in batch)
  BY <1>1, <1>4, <1>5 DEF TableOK, BatchSlots
<1>7. \A i \in emptied : i \in Slots /\ state[i] = "FAILED" /\ left(i) = 0
  BY <1>5
<1>8. \A i \in Slots : left(i) \in Nat /\ left(i) <= users[i]
  BY <1>4
<1>. HIDE DEF emptied
<1>9. TableOK'
  <2>1. \A q \in Places : where'[q] # None => place'[where'[q]] = q
    BY <1>1, <1>3, <1>4 DEF TableOK
  <2>2. ASSUME NEW j \in Slots, place'[j] # NoPlace PROVE where'[place'[j]] = j
    <3>1. j \notin emptied /\ place'[j] = place[j] /\ place[j] \in Places /\ where[place[j]] = j
      BY <1>1, <1>3, <1>4, <2>2 DEF TableOK
    <3>. QED  BY <1>3, <3>1
  <2>3. \A j \in Slots : place'[j] = NoPlace <=> state'[j] = "EMPTY"
    BY <1>1, <1>3 DEF TableOK
  <2>4. ASSUME NEW j \in Slots, state'[j] = "EMPTY" PROVE users'[j] = 0
    <3>1. CASE j \in emptied
      BY <1>3, <1>7, <3>1
    <3>2. CASE j \notin emptied
      <4>1. users[j] = 0
        BY <1>1, <1>3, <2>4, <3>2 DEF TableOK
      <4>. QED  BY <1>3, <4>1
    <3>. QED  BY <3>1, <3>2
  <2>. QED  BY <2>1, <2>2, <2>3, <2>4 DEF TableOK
<1>10. UsersAreHolds'
  <2>1. ASSUME NEW q \in Places, where[q] # None
        PROVE  left(where[q]) = held[q]
    <3>1. users[where[q]] = held[q] + (IF q \in batch THEN 1 ELSE 0)
      BY <1>1, <2>1 DEF UsersAreHolds
    <3>. QED  BY <1>4, <1>6, <2>1, <3>1
  <2>. HIDE DEF left
  <2>2. ASSUME NEW q \in Places
        PROVE  IF where'[q] = None THEN held[q] = 0 ELSE users'[where'[q]] = held[q]
    <3>1. CASE where[q] = None
      <4>1. where'[q] = None /\ held[q] = 0
        BY <1>1, <1>3, <3>1 DEF UsersAreHolds
      <4>. QED  BY <4>1
    <3>2. CASE where[q] # None /\ where[q] \in emptied
      BY <1>3, <1>7, <2>1, <3>2
    <3>3. CASE where[q] # None /\ where[q] \notin emptied
      <4>1. where'[q] = where[q] /\ where[q] \in Slots /\ users'[where[q]] = left(where[q])
        BY <1>3, <1>4, <3>3
      <4>. QED  BY <2>1, <3>3, <4>1
    <3>. QED  BY <3>1, <3>2, <3>3
  <2>. QED  BY <1>2, <1>4, <2>2 DEF UsersAreHolds
<1>11. \A j \in Slots : /\ state'[j] = "READING" <=> state[j] = "READING"
                        /\ state'[j] = "READY" => state[j] = "READY" /\ place'[j] = place[j]
                        /\ state[j] = "READING" => place'[j] = place[j]
                        /\ state[j] = "READY" => state'[j] = "READY"
  BY <1>3, <1>7
<1>12. /\ queue \in Seq(Slots) /\ Len(queue) \in Nat /\ \A n \in 1 .. Len(queue) : queue[n] \in Slots
       /\ \A w \in Workers : job[w].slot \in Slots
  BY <1>1 DEF TypeOK
<1>13. QueueOK'
  BY <1>1, <1>2, <1>11, <1>12 DEF QueueOK
<1>14. JobsOK'
  BY <1>1, <1>2, <1>11, <1>12 DEF JobsOK, Busy
<1>15. NoneLost'
  BY <1>1, <1>2, <1>11 DEF NoneLost, Busy
<1>16. BytesOK'
  BY <1>1, <1>2, <1>11 DEF BytesOK
<1>17. CallerOK'
  <2>1. ASSUME NEW q \in Places, held'[q] > 0
        PROVE  where'[q] # None /\ state'[where'[q]] = "READY"
    <3>1. where[q] # None /\ state[where[q]] = "READY" /\ where[q] \in Slots
      BY <1>1, <1>2, <1>4, <2>1 DEF CallerOK
    <3>2. where'[q] = where[q]
      BY <1>3, <1>7, <3>1
    <3>. QED  BY <1>11, <3>1, <3>2
  <2>. QED  BY <1>1, <1>2, <2>1 DEF CallerOK, Holding
<1>. QED  BY <1>9, <1>10, <1>13, <1>14, <1>15, <1>16, <1>17

\* Places are given back.
LEMMA ReleaseInv ==
  ASSUME IInv, NEW S \in SUBSET {p \in Places : held[p] > 0}, Release(S)
  PROVE  TableOK' /\ UsersAreHolds' /\ QueueOK' /\ JobsOK' /\ NoneLost' /\ BytesOK' /\ CallerOK'
<1>1. /\ TypeOK /\ TableOK /\ UsersAreHolds /\ QueueOK /\ JobsOK /\ NoneLost /\ BytesOK /\ CallerOK
  BY DEF IInv
<1>2. /\ pc = "idle" /\ UNCHANGED <<where, place, state, queue, buf, wpc, job, pc, todo, batch>>
      /\ users' = [i \in Slots |-> IF users[i] > 0 /\ \E p \in S : where[p] = i
                                   THEN users[i] - 1 ELSE users[i]]
      /\ held' = [p \in Places |-> IF p \in S THEN held[p] - 1 ELSE held[p]]
  BY DEF Release, work
<1>3. /\ where \in [Places -> Slots \cup {None}] /\ users \in [Slots -> Nat]
      /\ held \in [Places -> Nat]
      /\ \A q \in Places : where[q] # None => where[q] \in Slots
      /\ \A q \in S : q \in Places /\ held[q] > 0
      /\ batch = {}
  BY <1>1, <1>2, TableTypes DEF CallerOK
<1>4. QueueOK' /\ JobsOK' /\ NoneLost' /\ BytesOK'
  BY <1>1, <1>2 DEF QueueOK, JobsOK, NoneLost, BytesOK, Busy
<1>5. TableOK'
  <2>1. \A i \in Slots : users[i] = 0 => users'[i] = 0
    BY <1>2, <1>3
  <2>. QED  BY <1>1, <1>2, <2>1 DEF TableOK
<1>6. UsersAreHolds'
  <2>0. \A q \in Places : held'[q] \in Nat
    BY <1>2, <1>3
  <2>1. where' = where /\ batch' = {}
    BY <1>2, <1>3
  <2>2. ASSUME NEW q \in Places
        PROVE  IF where[q] = None THEN held'[q] = 0 ELSE users'[where[q]] = held'[q]
    <3>1. IF where[q] = None THEN held[q] = 0 ELSE users[where[q]] = held[q]
      BY <1>1, <1>3 DEF UsersAreHolds
    <3>2. where[q] # None => ((\E p \in S : where[p] = where[q]) <=> q \in S)
      BY <1>1, <1>3 DEF TableOK
    <3>. QED  BY <1>2, <1>3, <3>1, <3>2
  <2>. QED  BY <2>0, <2>1, <2>2 DEF UsersAreHolds
<1>7. CallerOK'
  <2>1. \A q \in Places : held'[q] > 0 => held[q] > 0
    BY <1>2, <1>3
  <2>. QED  BY <1>1, <1>2, <2>1 DEF CallerOK, Holding
<1>. QED  BY <1>4, <1>5, <1>6, <1>7

\* A place that is read is held once more.
LEMMA HoldReadyInv ==
  ASSUME IInv, NEW p \in Places, HoldReady(p)
  PROVE  TableOK' /\ UsersAreHolds' /\ QueueOK' /\ JobsOK' /\ NoneLost' /\ BytesOK' /\ CallerOK'
<1>1. /\ TypeOK /\ TableOK /\ UsersAreHolds /\ QueueOK /\ JobsOK /\ NoneLost /\ BytesOK /\ CallerOK
  BY DEF IInv
<1>2. /\ pc = "idle" /\ UNCHANGED <<where, place, state, queue, buf, wpc, job, pc, todo, batch>>
      /\ where[p] # None /\ state[where[p]] = "READY"
      /\ users' = [users EXCEPT ![where[p]] = @ + 1]
      /\ held' = [held EXCEPT ![p] = @ + 1]
  BY DEF HoldReady, Readable, work
<1>3. /\ where \in [Places -> Slots \cup {None}] /\ users \in [Slots -> Nat]
      /\ held \in [Places -> Nat]
      /\ \A q \in Places : where[q] # None => where[q] \in Slots
      /\ batch = {}
  BY <1>1, <1>2, TableTypes DEF CallerOK
<1>4. QueueOK' /\ JobsOK' /\ NoneLost' /\ BytesOK'
  BY <1>1, <1>2 DEF QueueOK, JobsOK, NoneLost, BytesOK, Busy
<1>5. TableOK'
  <2>1. \A i \in Slots : state[i] = "EMPTY" => users'[i] = users[i]
    BY <1>2, <1>3
  <2>. QED  BY <1>1, <1>2, <2>1 DEF TableOK
<1>6. UsersAreHolds'
  <2>. SUFFICES ASSUME NEW q \in Places
                PROVE  IF where[q] = None THEN held'[q] = 0 ELSE users'[where[q]] = held'[q]
    BY <1>2, <1>3 DEF UsersAreHolds
  <2>1. IF where[q] = None THEN held[q] = 0 ELSE users[where[q]] = held[q]
    BY <1>1, <1>3 DEF UsersAreHolds
  <2>2. where[q] # None => (where[p] = where[q] <=> q = p)
    BY <1>1, <1>2, <1>3 DEF TableOK
  <2>. QED  BY <1>2, <1>3, <2>1, <2>2
<1>7. CallerOK'
  <2>1. \A q \in Places : held'[q] > 0 => where[q] # None /\ state[where[q]] = "READY"
    BY <1>1, <1>2, <1>3 DEF CallerOK
  <2>. QED  BY <1>1, <1>2, <2>1 DEF CallerOK, Holding
<1>. QED  BY <1>4, <1>5, <1>6, <1>7

-----------------------------------------------------------------------------
(* The workers. *)

LEMMA WorkerTakeInv ==
  ASSUME IInv, NEW w \in Workers, WorkerTake(w)
  PROVE  TableOK' /\ UsersAreHolds' /\ QueueOK' /\ JobsOK' /\ NoneLost' /\ BytesOK' /\ CallerOK'
<1>1. /\ TypeOK /\ TableOK /\ UsersAreHolds /\ QueueOK /\ JobsOK /\ NoneLost /\ BytesOK /\ CallerOK
  BY DEF IInv
<1>2. /\ wpc[w] = "ready" /\ queue # <<>>
      /\ queue' = Tail(queue)
      /\ wpc' = [wpc EXCEPT ![w] = "reading"]
      /\ UNCHANGED <<where, place, state, users, buf, pc, todo, batch, held>>
  BY DEF WorkerTake, table, caller
<1>. DEFINE i == Head(queue)
<1>3. job' = [job EXCEPT ![w] = [slot |-> i, place |-> place[i], ok |-> FALSE]]
  BY DEF WorkerTake
<1>4. /\ queue \in Seq(Slots) /\ i \in Slots /\ i = queue[1] /\ Len(queue) \in Nat \ {0}
      /\ Len(queue') = Len(queue) - 1
      /\ \A n \in 1 .. Len(queue') : n + 1 \in 2 .. Len(queue) /\ queue'[n] = queue[n + 1]
  BY <1>1, <1>2, HeadTail DEF TypeOK
<1>5. /\ \A v \in Workers : v # w => job'[v] = job[v] /\ (Busy(v)' <=> Busy(v)) /\ wpc'[v] = wpc[v]
      /\ job'[w].slot = i /\ job'[w].place = place[i]
      /\ Busy(w)' /\ ~Busy(w) /\ wpc'[w] = "reading"
  BY <1>1, <1>2, <1>3 DEF TypeOK, Busy
<1>6. state[i] = "READING" /\ place[i] \in Places
  <2>1. state[i] = "READING"
    BY <1>1, <1>4 DEF QueueOK
  <2>. QED  BY <1>1, <1>4, <2>1, TableTypes DEF TableOK
<1>. HIDE DEF i
<1>7. TableOK' /\ UsersAreHolds' /\ CallerOK'
  BY <1>1, <1>2 DEF TableOK, UsersAreHolds, CallerOK, Holding
<1>8. QueueOK'
  BY <1>1, <1>2, <1>4 DEF QueueOK
<1>9. \A n \in 1 .. Len(queue') : queue'[n] # i
  BY <1>1, <1>4 DEF QueueOK
<1>10. JobsOK'
  <2>1. ASSUME NEW v \in Workers, Busy(v)'
        PROVE  /\ state[job'[v].slot] = "READING"
               /\ place[job'[v].slot] = job'[v].place
               /\ job'[v].place \in Places
               /\ \A n \in 1 .. Len(queue') : queue'[n] # job'[v].slot
    <3>1. CASE v = w
      BY <1>5, <1>6, <1>9, <3>1
    <3>2. CASE v # w
      BY <1>1, <1>4, <1>5, <2>1, <3>2 DEF JobsOK
    <3>. QED  BY <3>1, <3>2
  <2>2. \A v \in Workers : v # w /\ Busy(v)' => job'[v].slot # i
    BY <1>1, <1>4, <1>5 DEF JobsOK
  <2>3. ASSUME NEW u \in Workers, NEW v \in Workers, Busy(u)', Busy(v)', job'[u].slot = job'[v].slot
        PROVE  u = v
    BY <1>1, <1>5, <2>2, <2>3 DEF JobsOK
  <2>. QED  BY <1>2, <2>1, <2>3 DEF JobsOK
<1>11. NoneLost'
  <2>. SUFFICES ASSUME NEW j \in Slots, state[j] = "READING"
                PROVE  \/ \E n \in 1 .. Len(queue') : queue'[n] = j
                       \/ \E v \in Workers : Busy(v)' /\ job'[v].slot = j
    BY <1>2 DEF NoneLost
  <2>1. CASE \E v \in Workers : Busy(v) /\ job[v].slot = j
    BY <1>5, <2>1
  <2>2. ASSUME NEW n \in 1 .. Len(queue), queue[n] = j
        PROVE  \/ \E m \in 1 .. Len(queue') : queue'[m] = j
               \/ \E v \in Workers : Busy(v)' /\ job'[v].slot = j
    <3>1. CASE n = 1
      BY <1>4, <1>5, <2>2, <3>1
    <3>2. CASE n # 1
      <4>1. n - 1 \in 1 .. Len(queue') /\ (n - 1) + 1 = n
        BY <1>4, <3>2
      <4>. QED  BY <1>4, <2>2, <4>1
    <3>. QED  BY <3>1, <3>2
  <2>. QED  BY <1>1, <2>1, <2>2 DEF NoneLost
<1>12. BytesOK'
  BY <1>1, <1>2, <1>5 DEF BytesOK
<1>. QED  BY <1>7, <1>8, <1>10, <1>11, <1>12

LEMMA WorkerReadInv ==
  ASSUME IInv, NEW w \in Workers, WorkerRead(w)
  PROVE  TableOK' /\ UsersAreHolds' /\ QueueOK' /\ JobsOK' /\ NoneLost' /\ BytesOK' /\ CallerOK'
<1>1. /\ TypeOK /\ TableOK /\ UsersAreHolds /\ QueueOK /\ JobsOK /\ NoneLost /\ BytesOK /\ CallerOK
  BY DEF IInv
<1>2. /\ wpc[w] = "reading"
      /\ wpc' = [wpc EXCEPT ![w] = "read"]
      /\ UNCHANGED <<where, place, state, users, queue, pc, todo, batch, held>>
  BY DEF WorkerRead, table, caller
<1>3. PICK ok \in BOOLEAN :
        /\ job' = [job EXCEPT ![w].ok = ok]
        /\ buf' = [buf EXCEPT ![job[w].slot] = IF ok THEN job[w].place ELSE NoPlace]
  BY DEF WorkerRead
<1>4. /\ \A v \in Workers : job'[v].slot = job[v].slot /\ job'[v].place = job[v].place
      /\ \A v \in Workers : v # w => job'[v] = job[v] /\ wpc'[v] = wpc[v]
      /\ \A v \in Workers : Busy(v)' <=> Busy(v)
      /\ job'[w].ok = ok /\ Busy(w)
  <2>1. job \in [Workers -> Jobs] /\ wpc \in [Workers -> WorkerStates]
    BY <1>1 DEF TypeOK, Jobs, WorkerStates
  <2>2. \A v \in Workers : v # w => job'[v] = job[v]
    BY <1>3, <2>1
  <2>3. job'[w] = [job[w] EXCEPT !.ok = ok] /\ job[w] \in Jobs
    BY <1>3, <2>1
  <2>4. job'[w].slot = job[w].slot /\ job'[w].place = job[w].place /\ job'[w].ok = ok
    BY <2>3 DEF Jobs
  <2>. QED  BY <1>2, <2>1, <2>2, <2>4 DEF Busy
<1>5. /\ \A v \in Workers : job[v].slot \in Slots
      /\ buf \in [Slots -> Places \cup {NoPlace}]
  BY <1>1 DEF TypeOK
<1>6. /\ \A i \in Slots : i # job[w].slot => buf'[i] = buf[i]
      /\ ok => buf'[job[w].slot] = job[w].place
      /\ state[job[w].slot] = "READING"
      /\ \A v \in Workers : v # w /\ Busy(v) => job[v].slot # job[w].slot
  BY <1>1, <1>3, <1>4, <1>5 DEF JobsOK
<1>7. TableOK' /\ UsersAreHolds' /\ CallerOK' /\ QueueOK'
  BY <1>1, <1>2 DEF TableOK, UsersAreHolds, CallerOK, Holding, QueueOK
<1>8. JobsOK'
  BY <1>1, <1>2, <1>4 DEF JobsOK
<1>9. NoneLost'
  BY <1>1, <1>2, <1>4 DEF NoneLost
<1>10. BytesOK'
  <2>1. \A i \in Slots : state'[i] = "READY" => buf'[i] = place'[i]
    BY <1>1, <1>2, <1>6 DEF BytesOK
  <2>2. ASSUME NEW v \in Workers, wpc'[v] = "read", job'[v].ok
        PROVE  buf'[job'[v].slot] = job'[v].place
    <3>1. CASE v = w
      BY <1>4, <1>6, <2>2, <3>1
    <3>2. CASE v # w
      <4>1. Busy(v) /\ wpc[v] = "read" /\ job[v].ok
        BY <1>4, <2>2, <3>2 DEF Busy
      <4>. QED  BY <1>1, <1>4, <1>5, <1>6, <3>2, <4>1 DEF BytesOK
    <3>. QED  BY <3>1, <3>2
  <2>. QED  BY <2>1, <2>2 DEF BytesOK
<1>. QED  BY <1>7, <1>8, <1>9, <1>10

LEMMA WorkerDoneInv ==
  ASSUME IInv, NEW w \in Workers, WorkerDone(w)
  PROVE  TableOK' /\ UsersAreHolds' /\ QueueOK' /\ JobsOK' /\ NoneLost' /\ BytesOK' /\ CallerOK'
<1>. DEFINE i == job[w].slot
<1>1. /\ TypeOK /\ TableOK /\ UsersAreHolds /\ QueueOK /\ JobsOK /\ NoneLost /\ BytesOK /\ CallerOK
  BY DEF IInv
<1>2. /\ wpc[w] = "read"
      /\ state' = [state EXCEPT ![i] = EndState(w)]
      /\ pc' = Woken
      /\ wpc' = [wpc EXCEPT ![w] = "ready"]
      /\ job' = [job EXCEPT ![w] = NoJob]
      /\ UNCHANGED <<where, place, users, queue, buf, todo, batch, held>>
  BY DEF WorkerDone
<1>3. /\ i \in Slots /\ state[i] = "READING" /\ place[i] = job[w].place /\ place[i] \in Places
      /\ \A n \in 1 .. Len(queue) : queue[n] # i
      /\ \A v \in Workers : v # w /\ Busy(v) => job[v].slot # i
  BY <1>1, <1>2 DEF TypeOK, JobsOK, Busy
<1>. HIDE DEF i
<1>4. /\ \A v \in Workers : v # w => job'[v] = job[v] /\ wpc'[v] = wpc[v] /\ (Busy(v)' <=> Busy(v))
      /\ ~Busy(w)' /\ wpc'[w] = "ready"
  BY <1>1, <1>2 DEF TypeOK, Busy
<1>5. /\ \A j \in Slots : j # i => state'[j] = state[j]
      /\ state'[i] = EndState(w) /\ EndState(w) \in {"READY", "FAILED"}
      /\ EndState(w) = "READY" => job[w].ok
  BY <1>1, <1>2, <1>3, TableTypes DEF EndState
<1>6. TableOK'
  <2>1. \A j \in Slots : place[j] = NoPlace <=> state'[j] = "EMPTY"
    BY <1>1, <1>3, <1>5, NoPlaceIsNone DEF TableOK
  <2>2. \A j \in Slots : state'[j] = "EMPTY" => users[j] = 0
    BY <1>1, <1>5 DEF TableOK
  <2>. QED  BY <1>1, <1>2, <2>1, <2>2 DEF TableOK
<1>7. UsersAreHolds'
  BY <1>1, <1>2 DEF UsersAreHolds
<1>8. QueueOK'
  <2>1. \A n \in 1 .. Len(queue) : queue[n] \in Slots
    BY <1>1 DEF TypeOK
  <2>. QED  BY <1>1, <1>2, <1>3, <1>5, <2>1 DEF QueueOK
<1>9. JobsOK'
  <2>1. ASSUME NEW v \in Workers, Busy(v)'
        PROVE  v # w /\ job'[v] = job[v] /\ Busy(v) /\ state'[job[v].slot] = "READING"
    <3>1. v # w /\ job'[v] = job[v] /\ Busy(v)
      BY <1>4, <2>1
    <3>2. job[v].slot \in Slots /\ state[job[v].slot] = "READING"
      BY <1>1, <3>1 DEF TypeOK, JobsOK
    <3>. QED  BY <1>3, <1>5, <3>1, <3>2
  <2>. QED  BY <1>1, <1>2, <2>1 DEF JobsOK
<1>10. NoneLost'
  <2>1. ASSUME NEW j \in Slots, state'[j] = "READING"
        PROVE  j # i /\ state[j] = "READING"
    BY <1>5, <2>1
  <2>2. \A v \in Workers : Busy(v) /\ job[v].slot # i => Busy(v)' /\ job'[v].slot = job[v].slot
    BY <1>4 DEF i
  <2>. QED  BY <1>1, <1>2, <2>1, <2>2 DEF NoneLost
<1>11. BytesOK'
  <2>1. ASSUME NEW j \in Slots, state'[j] = "READY" PROVE buf[j] = place[j]
    <3>1. CASE j = i
      <4>1. job[w].ok
        BY <1>5, <2>1, <3>1
      <4>2. buf[job[w].slot] = job[w].place
        BY <1>1, <1>2, <4>1 DEF BytesOK
      <4>. QED  BY <1>3, <3>1, <4>2 DEF i
    <3>2. CASE j # i
      BY <1>1, <1>5, <2>1, <3>2 DEF BytesOK
    <3>. QED  BY <3>1, <3>2
  <2>2. \A v \in Workers : wpc'[v] = "read" /\ job'[v].ok => buf[job'[v].slot] = job'[v].place
    BY <1>1, <1>4 DEF BytesOK
  <2>. QED  BY <1>2, <2>1, <2>2 DEF BytesOK
<1>12. CallerOK'
  <2>1. /\ Holding' <=> Holding
        /\ pc' \in {"hold_asleep", "hold_woken"} => pc \in {"hold_asleep", "hold_woken"}
        /\ pc' \in {"idle", "joining", "closed"} => pc \in {"idle", "joining", "closed"}
    BY <1>2 DEF Woken, Holding
  <2>2. ASSUME NEW q \in Places, held[q] > 0 PROVE where[q] # None /\ state'[where[q]] = "READY"
    <3>1. where[q] # None /\ state[where[q]] = "READY" /\ where[q] \in Slots
      BY <1>1, <2>2, TableTypes DEF CallerOK
    <3>. QED  BY <1>3, <1>5, <3>1
  <2>. QED  BY <1>1, <1>2, <2>1, <2>2 DEF CallerOK
<1>. QED  BY <1>6, <1>7, <1>8, <1>9, <1>10, <1>11, <1>12

-----------------------------------------------------------------------------
(* The steps that move nothing but where a thread stands. *)

\* Hold and Prefetch bring a new batch of places to the loop.
LEMMA BeginInv ==
  ASSUME IInv, NEW s \in Batches, Hold(s) \/ Prefetch(s)
  PROVE  TableOK' /\ UsersAreHolds' /\ QueueOK' /\ JobsOK' /\ NoneLost' /\ BytesOK' /\ CallerOK'
<1>1. /\ TableOK /\ UsersAreHolds /\ QueueOK /\ JobsOK /\ NoneLost /\ BytesOK /\ CallerOK
  BY DEF IInv
<1>2. /\ UNCHANGED <<where, place, state, users, queue, buf, wpc, job, batch, held>>
      /\ todo' = s
      /\ (pc = "idle" /\ pc' = "hold") \/ pc' = "prefetch"
  BY DEF Hold, Prefetch, table, work
<1>3. TableOK' /\ UsersAreHolds' /\ QueueOK' /\ JobsOK' /\ NoneLost' /\ BytesOK'
  BY <1>1, <1>2 DEF TableOK, UsersAreHolds, QueueOK, JobsOK, NoneLost, BytesOK, Busy
<1>4. CallerOK'
  BY <1>1, <1>2, BatchesType DEF CallerOK, Holding
<1>. QED  BY <1>3, <1>4

LEMMA PcInv ==
  ASSUME IInv, HoldSleep \/ HoldReturn \/ PrefetchReturn \/ WaitSleep \/ Closed
                 \/ (pc = "hold_woken" /\ pc' = "hold_asleep" /\ UNCHANGED <<table, work, todo, batch, held>>)
  PROVE  TableOK' /\ UsersAreHolds' /\ QueueOK' /\ JobsOK' /\ NoneLost' /\ BytesOK' /\ CallerOK'
<1>1. /\ TypeOK /\ TableOK /\ UsersAreHolds /\ QueueOK /\ JobsOK /\ NoneLost /\ BytesOK /\ CallerOK
  BY DEF IInv
<1>2. UNCHANGED <<where, place, state, users, queue, buf, wpc, job, todo, batch, held>>
  BY DEF HoldSleep, HoldReturn, PrefetchReturn, WaitSleep, Closed, table, work
<1>3. \/ /\ Holding /\ pc' \in {"hold_asleep"} /\ todo # <<>> /\ where[Head(todo)] = None
      \/ pc' = "holding"
      \/ pc' = "due"
      \/ pc' = "idle" /\ batch = {}
      \/ pc' = "wait_asleep"
      \/ pc' = "closed" /\ pc = "joining"
      \/ Holding /\ pc' = "hold_asleep" /\ pc = "hold_woken"
  BY DEF HoldSleep, HoldReturn, PrefetchReturn, WaitSleep, Closed, Holding
<1>4. todo # <<>> => Head(todo) = todo[1]
  BY <1>1, HeadTail DEF TypeOK
<1>5. TableOK' /\ UsersAreHolds' /\ QueueOK' /\ JobsOK' /\ NoneLost' /\ BytesOK'
  BY <1>1, <1>2 DEF TableOK, UsersAreHolds, QueueOK, JobsOK, NoneLost, BytesOK, Busy
<1>6. CallerOK'
  BY <1>1, <1>2, <1>3, <1>4 DEF CallerOK, Holding
<1>. QED  BY <1>5, <1>6

\* A worker goes to sleep or stops; close() wakes those that sleep.
LEMMA WorkerPcInv ==
  ASSUME IInv, Close \/ \E w \in Workers : WorkerSleep(w) \/ WorkerStop(w)
  PROVE  TableOK' /\ UsersAreHolds' /\ QueueOK' /\ JobsOK' /\ NoneLost' /\ BytesOK' /\ CallerOK'
<1>1. /\ TypeOK /\ TableOK /\ UsersAreHolds /\ QueueOK /\ JobsOK /\ NoneLost /\ BytesOK /\ CallerOK
  BY DEF IInv
<1>2. UNCHANGED <<where, place, state, users, queue, buf, job, todo, batch, held>>
  BY DEF Close, WorkerSleep, WorkerStop, table, caller
<1>3. pc' = pc \/ (pc = "idle" /\ pc' = "joining")
  <2>1. CASE Close
    BY <2>1 DEF Close
  <2>2. ASSUME NEW w \in Workers, WorkerSleep(w) \/ WorkerStop(w) PROVE pc' = pc
    BY <2>2 DEF WorkerSleep, WorkerStop, caller
  <2>. QED  BY <2>1, <2>2
<1>4. \A w \in Workers : (Busy(w)' <=> Busy(w)) /\ (wpc'[w] = "read" <=> wpc[w] = "read")
  BY <1>1 DEF Close, WorkerSleep, WorkerStop, Busy, TypeOK
<1>5. TableOK' /\ UsersAreHolds' /\ QueueOK'
  BY <1>1, <1>2 DEF TableOK, UsersAreHolds, QueueOK
<1>6. JobsOK'
  BY <1>1, <1>2, <1>4 DEF JobsOK
<1>7. NoneLost'
  BY <1>1, <1>2, <1>4 DEF NoneLost
<1>8. BytesOK'
  BY <1>1, <1>2, <1>4 DEF BytesOK
<1>9. CallerOK'
  BY <1>1, <1>2, <1>3 DEF CallerOK, Holding
<1>. QED  BY <1>5, <1>6, <1>7, <1>8, <1>9

-----------------------------------------------------------------------------
(* The invariant holds. *)

LEMMA InitIInv == Init => IInv
<1>. SUFFICES ASSUME Init PROVE IInv
  OBVIOUS
<1>. USE DEF Init
<1>1. 0 \in Slots
  BY StreamAssumption DEF Slots
<1>2. TypeOK
  <2>1. NoJob \in Jobs
    BY <1>1 DEF NoJob, Jobs
  <2>2. job \in [Workers -> Jobs]
    BY <2>1
  <2>3. /\ where \in [Places -> Slots \cup {None}] /\ uses \in [Places -> Nat]
        /\ place \in [Slots -> Places \cup {NoPlace}]
        /\ users \in [Slots -> Nat] /\ last_use \in [Slots -> Nat]
        /\ prefetched \in [Slots -> BOOLEAN] /\ buf \in [Slots -> Places \cup {NoPlace}]
        /\ held \in [Places -> Nat]
    OBVIOUS
  <2>4. state \in [Slots -> SlotStates] /\ wpc \in [Workers -> WorkerStates]
    BY DEF SlotStates, WorkerStates
  <2>5. stats \in Counts /\ clock \in Nat
    BY DEF Counts
  <2>6. queue \in Seq(Slots) /\ todo \in Seq(Places) /\ batch \in SUBSET Places
    OBVIOUS
  <2>8. closing \in BOOLEAN
    BY Zenon
  <2>7. pc = "idle"
    OBVIOUS
  <2>. QED  BY ONLY <2>2, <2>3, <2>4, <2>5, <2>6, <2>7, <2>8 DEF TypeOK, Jobs, SlotStates, WorkerStates, Counts
<1>3. TableOK
  BY NoPlaceIsNone DEF TableOK
<1>4. UsersAreHolds
  BY DEF UsersAreHolds
<1>5. QueueOK /\ JobsOK /\ NoneLost /\ BytesOK
  BY DEF QueueOK, JobsOK, NoneLost, BytesOK, Busy
<1>6. CallerOK
  BY DEF CallerOK, Distinct, Holding
<1>. QED  BY <1>2, <1>3, <1>4, <1>5, <1>6 DEF IInv

LEMMA NextIInv == IInv /\ [Next]_vars => IInv'
<1>. DEFINE Rest == TableOK /\ UsersAreHolds /\ QueueOK /\ JobsOK /\ NoneLost /\ BytesOK /\ CallerOK
<1>. SUFFICES ASSUME IInv, [Next]_vars PROVE Rest'
  BY TypeNext DEF IInv
<1>1. ASSUME NEW s \in Batches, Hold(s) \/ Prefetch(s) PROVE Rest'
  BY <1>1, BeginInv
<1>2. CASE HoldResident
  BY <1>2, HoldResidentInv
<1>3. CASE HoldMiss
  <2>1. PICK i \in Slots : IsFree(i, UsesAfter(Head(todo))) /\ Miss(Head(todo), i, Acquired)
    BY <1>3 DEF HoldMiss
  <2>2. Holding /\ todo # <<>> /\ where[Head(todo)] = None /\ i \in Evictable
    BY <1>3, <2>1 DEF HoldMiss, Holding, IsFree
  <2>. QED  BY <2>1, <2>2, MissInv
<1>4. CASE HoldWoken
  <2>1. Holding /\ todo # <<>> /\ where[Head(todo)] = None
    <3>1. todo \in Seq(Places) /\ todo # <<>> /\ where[todo[1]] = None /\ Holding
      BY <1>4 DEF HoldWoken, IInv, CallerOK, TypeOK, Holding
    <3>. QED  BY <3>1, HeadTail
  <2>2. ASSUME NEW i \in Slots, IsFree(i, uses), Miss(Head(todo), i, stats) PROVE Rest'
    <3>1. i \in Evictable
      BY <2>2 DEF IsFree
    <3>. QED  BY <2>1, <2>2, <3>1, MissInv
  <2>3. CASE pc = "hold_woken" /\ pc' = "hold_asleep" /\ UNCHANGED <<table, work, todo, batch, held>>
    BY <2>3, PcInv
  <2>. QED  BY <1>4, <2>2, <2>3 DEF HoldWoken
<1>5. CASE HoldSleep \/ HoldReturn \/ PrefetchReturn \/ WaitSleep \/ Closed
  BY <1>5, PcInv
<1>6. CASE PrefetchPlace
  BY <1>6, PrefetchPlaceInv
<1>7. CASE WaitReturn
  BY <1>7, WaitReturnInv
<1>8. CASE WaitFail
  BY <1>8, WaitFailInv
<1>9. ASSUME NEW S \in SUBSET {p \in Places : held[p] > 0}, Release(S) PROVE Rest'
  BY <1>9, ReleaseInv
<1>10. ASSUME NEW p \in Places, HoldReady(p) PROVE Rest'
  BY <1>10, HoldReadyInv
<1>11. CASE Close
  BY <1>11, WorkerPcInv
<1>12. ASSUME NEW w \in Workers, WorkerStep(w) PROVE Rest'
  BY <1>12, WorkerPcInv, WorkerTakeInv, WorkerReadInv, WorkerDoneInv DEF WorkerStep
<1>13. CASE UNCHANGED vars
  BY <1>13 DEF IInv, vars, table, work, caller, TableOK, UsersAreHolds, QueueOK, JobsOK,
     NoneLost, BytesOK, CallerOK, Busy, Holding
<1>. HIDE DEF Rest
<1>14. CASE Next
  BY <1>14, <1>1, <1>2, <1>3, <1>4, <1>5, <1>6, <1>7, <1>8, <1>9, <1>10, <1>11, <1>12, <1>13
  DEF Next, HoldStep, PrefetchStep, WaitStep, Terminated
<1>. QED  BY <1>13, <1>14

\* The strengthening that everything below rests on.
THEOREM Invariance == Spec => []IInv
<1>1. Init => IInv
  BY InitIInv
<1>2. IInv /\ [Next]_vars => IInv'
  BY NextIInv
<1>. QED  BY <1>1, <1>2, PTL DEF Spec

\* Every variable keeps its type, whatever the number of places, slots and threads.
THEOREM TypeCorrect == Spec => []TypeOK
<1>1. IInv => TypeOK
  BY DEF IInv
<1>. QED  BY <1>1, Invariance, PTL

\* The slots' users are the caller's holds: a wait that fails, a hold that
\* slept and a release leave none behind.
THEOREM UsersCorrect == Spec => []UsersAreHolds
<1>1. IInv => UsersAreHolds
  BY DEF IInv
<1>. QED  BY <1>1, Invariance, PTL

\* What was handed out is read, is the place's own, and is not being written.
THEOREM HeldCorrect == Spec => []HeldIsReadable
<1>1. IInv => HeldIsReadable
  <2>. SUFFICES ASSUME IInv, NEW p \in Places, held[p] > 0
                PROVE  /\ where[p] # None
                       /\ state[where[p]] = "READY"
                       /\ buf[where[p]] = p
                       /\ \A w \in Workers : Busy(w) => job[w].slot # where[p]
    BY DEF HeldIsReadable
  <2>1. where[p] # None /\ state[where[p]] = "READY"
    BY DEF IInv, CallerOK
  <2>2. where[p] \in Slots /\ place[where[p]] = p
    BY <2>1, TableTypes DEF IInv, TableOK
  <2>3. buf[where[p]] = p
    BY <2>1, <2>2 DEF IInv, BytesOK
  <2>4. \A w \in Workers : Busy(w) => job[w].slot # where[p]
    BY <2>1 DEF IInv, JobsOK
  <2>. QED  BY <2>1, <2>3, <2>4
<1>. QED  BY <1>1, Invariance, PTL

\* No read is lost and none is done twice.
THEOREM ReadsCorrect == Spec => []ReadsOnce
<1>1. IInv => ReadsOnce
  <2>. SUFFICES ASSUME IInv PROVE ReadsOnce
    OBVIOUS
  <2>1. /\ queue \in Seq(Slots) /\ DOMAIN queue = 1 .. Len(queue)
        /\ \A n \in 1 .. Len(queue) : queue[n] \in Slots
        /\ \A w \in Workers : job[w].slot \in Slots
    BY DEF IInv, TypeOK
  <2>2. Distinct(queue)
    BY <2>1 DEF IInv, QueueOK, Distinct
  <2>3. \A v, w \in Workers : Busy(v) /\ Busy(w) /\ v # w => job[v].slot # job[w].slot
    BY DEF IInv, JobsOK
  <2>. DEFINE queued == {queue[n] : n \in DOMAIN queue}
              taken == {job[w].slot : w \in {v \in Workers : Busy(v)}}
  <2>4. queued \cap taken = {}
    BY <2>1 DEF IInv, JobsOK
  <2>5. queued \cup taken \subseteq {i \in Slots : state[i] = "READING"}
    BY <2>1 DEF IInv, JobsOK, QueueOK
  <2>6. {i \in Slots : state[i] = "READING"} \subseteq queued \cup taken
    BY <2>1 DEF IInv, NoneLost
  <2>7. \A w \in Workers : Busy(w) => place[job[w].slot] = job[w].place
    BY DEF IInv, JobsOK
  <2>8. queued \cup taken = {i \in Slots : state[i] = "READING"}
    BY <2>5, <2>6
  <2>. QED  BY <2>2, <2>3, <2>4, <2>7, <2>8 DEF ReadsOnce
<1>. QED  BY <1>1, Invariance, PTL

-----------------------------------------------------------------------------
(* Action properties and counts. *)

\* Only a slot that nobody holds changes its place: StartRead takes a free one,
\* and a failed wait empties those it was the last to hold.
LEMMA HeldKeepsSlot ==
  ASSUME IInv, Next, NEW p \in Places, held[p] > 0
  PROVE  where'[p] = where[p]
<1>1. /\ TypeOK /\ TableOK /\ UsersAreHolds /\ CallerOK
  BY DEF IInv
<1>2. where[p] # None /\ state[where[p]] = "READY"
  BY <1>1 DEF CallerOK
<1>3. ASSUME NEW q \in Places, NEW i \in Slots, NEW g \in BOOLEAN, NEW u,
             where[q] = None, IsFree(i, u), StartRead(i, q, g)
      PROVE  where'[p] = where[p]
  <2>1. i \in Evictable
    BY <1>3 DEF IsFree
  <2>. QED  BY <1>1, <1>3, <2>1, StartReadHeld
<1>4. todo # <<>> => Head(todo) \in Places /\ Head(todo) = todo[1]
  BY <1>1, HeadTail DEF TypeOK
<1>5. CASE HoldMiss
  <2>1. PICK i \in Slots : IsFree(i, UsesAfter(Head(todo))) /\ Miss(Head(todo), i, Acquired)
    BY <1>5 DEF HoldMiss
  <2>2. StartRead(i, Head(todo), FALSE) /\ where[Head(todo)] = None /\ Head(todo) \in Places
    BY <1>4, <1>5, <2>1 DEF HoldMiss, Miss
  <2>. QED  BY <1>3, <2>1, <2>2
<1>6. CASE HoldWoken
  <2>1. Head(todo) \in Places /\ where[Head(todo)] = None
    BY <1>1, <1>4, <1>6 DEF HoldWoken, CallerOK
  <2>2. ASSUME NEW i \in Slots, IsFree(i, uses), Miss(Head(todo), i, stats) PROVE where'[p] = where[p]
    <3>1. StartRead(i, Head(todo), FALSE)
      BY <2>2 DEF Miss
    <3>. QED  BY <1>3, <2>1, <2>2, <3>1
  <2>. QED  BY <1>6, <2>2 DEF HoldWoken, table
<1>7. CASE PrefetchPlace
  <2>1. Head(todo) \in Places
    BY <1>4, <1>7 DEF PrefetchPlace
  <2>2. ASSUME NEW i \in Slots, where[Head(todo)] = None, IsFree(i, uses),
               StartRead(i, Head(todo), TRUE)
        PROVE  where'[p] = where[p]
    BY <1>3, <2>1, <2>2
  <2>. QED  BY <1>7, <2>2 DEF PrefetchPlace, table
<1>8. CASE WaitFail
  <2>1. where' = [q \in Places |->
          IF where[q] \in {i \in BatchSlots : state[i] = "FAILED" /\
                             (IF i \in BatchSlots /\ users[i] > 0 THEN users[i] - 1 ELSE users[i]) = 0}
          THEN None ELSE where[q]]
    BY <1>8 DEF WaitFail, LetGo
  <2>. QED  BY <1>2, <2>1
<1>9. CASE where' = where
  BY <1>9
<1>10. CASE ~(HoldMiss \/ HoldWoken \/ PrefetchPlace \/ WaitFail)
  <2>1. where' = where
    <3>1. ASSUME NEW s \in Batches, Hold(s) \/ Prefetch(s) PROVE where' = where
      BY <3>1 DEF Hold, Prefetch, table
    <3>2. ASSUME HoldResident \/ HoldSleep \/ HoldReturn \/ PrefetchReturn \/ WaitSleep \/ WaitReturn
          PROVE  where' = where
      BY <3>2 DEF HoldResident, HoldSleep, HoldReturn, PrefetchReturn, WaitSleep, WaitReturn, table
    <3>3. ASSUME NEW S \in SUBSET {q \in Places : held[q] > 0}, Release(S) PROVE where' = where
      BY <3>3 DEF Release
    <3>4. ASSUME NEW q \in Places, HoldReady(q) PROVE where' = where
      BY <3>4 DEF HoldReady
    <3>5. ASSUME Close \/ Closed \/ Terminated PROVE where' = where
      BY <3>5 DEF Close, Closed, Terminated, vars, table
    <3>6. ASSUME NEW w \in Workers, WorkerStep(w) PROVE where' = where
      BY <3>6 DEF WorkerStep, WorkerSleep, WorkerStop, WorkerTake, WorkerRead, WorkerDone, table
    <3>. QED  BY <1>10, <3>1, <3>2, <3>3, <3>4, <3>5, <3>6
              DEF Next, HoldStep, PrefetchStep, WaitStep
  <2>. QED  BY <2>1
<1>. QED  BY <1>5, <1>6, <1>7, <1>8, <1>10

\* A held place stays in its slot, and its bytes stay as they are.
THEOREM HeldStays == Spec => HeldStaysPut
<1>1. IInv => \A p \in Places : held[p] > 0 => buf[where[p]] = p
  BY TableTypes DEF IInv, CallerOK, BytesOK, TableOK
<1>2. ASSUME IInv, IInv', [Next]_vars, NEW p \in Places, held[p] > 0, held'[p] > 0
      PROVE  where'[p] = where[p] /\ buf'[where[p]] = buf[where[p]]
  <2>1. where'[p] = where[p]
    BY <1>2, HeldKeepsSlot DEF vars, table
  <2>2. buf[where[p]] = p
    BY <1>1, <1>2
  <2>3. buf'[where'[p]] = p
    BY <1>2, TableTypes DEF IInv, CallerOK, BytesOK, TableOK, TypeOK
  <2>. QED  BY <2>1, <2>2, <2>3
<1>3. IInv /\ IInv' /\ [Next]_vars =>
        [\A p \in Places : held[p] > 0 /\ held'[p] > 0 =>
           where'[p] = where[p] /\ buf'[where[p]] = buf[where[p]]]_vars
  BY <1>2
<1>. QED  BY <1>3, Invariance, PTL DEF Spec, HeldStaysPut

\* Remainders, of the acquisitions by the period of the halvings.
LEMMA Remainder ==
  ASSUME NEW q \in Int, NEW r \in Int, NEW h \in Int, 0 <= r, r < h
  PROVE  (h * q + r) % h = r
  BY Z3T(60)

LEMMA NextRemainder ==
  ASSUME NEW a \in Nat, NEW h \in Nat \ {0}
  PROVE  /\ a % h \in 0 .. h - 1
         /\ (a + 1) % h = IF (a % h) + 1 = h THEN 0 ELSE (a % h) + 1
<1>. DEFINE q == a \div h
            r == a % h
<1>1. q \in Int /\ r \in 0 .. h - 1
  OBVIOUS
<1>2. a = h * q + r
  BY SMTT(60)
<1>. HIDE DEF q, r
<1>3. CASE r + 1 < h
  <2>1. a + 1 = h * q + (r + 1)
    BY <1>1, <1>2
  <2>2. (h * q + (r + 1)) % h = r + 1
    BY <1>1, <1>3, Remainder
  <2>. QED  BY <1>1, <1>3, <2>1, <2>2 DEF r
<1>4. CASE r + 1 = h
  <2>1. a + 1 = h * (q + 1) + 0
    BY <1>1, <1>2, <1>4
  <2>2. (h * (q + 1) + 0) % h = 0
    BY <1>1, Remainder
  <2>. QED  BY <1>1, <1>4, <2>1, <2>2 DEF r
<1>5. r + 1 < h \/ r + 1 = h
  BY <1>1
<1>. QED  BY <1>3, <1>4, <1>5

\* One acquisition more, halved when it is due.
LEMMA UsesAfterBounded ==
  ASSUME TypeOK, UsesBounded, NEW p \in Places, NEW q \in Places
  PROVE  UsesAfter(p)[q] < HalveEvery + ((stats.acquired + 1) % HalveEvery)
<1>. DEFINE a == stats.acquired
            u == [uses EXCEPT ![p] = @ + 1]
<1>1. a \in Nat /\ HalveEvery \in Nat \ {0} /\ uses \in [Places -> Nat]
  BY StreamAssumption DEF TypeOK
<1>2. u[q] \in Nat /\ u[q] <= uses[q] + 1 /\ DOMAIN u = Places
  BY <1>1
<1>3. uses[q] < HalveEvery + (a % HalveEvery)
  BY DEF UsesBounded
<1>4. /\ a % HalveEvery \in 0 .. HalveEvery - 1
      /\ (a + 1) % HalveEvery = IF (a % HalveEvery) + 1 = HalveEvery THEN 0 ELSE (a % HalveEvery) + 1
  BY <1>1, NextRemainder
<1>5. CASE (a + 1) % HalveEvery = 0
  <2>1. UsesAfter(p)[q] = u[q] \div 2
    BY <1>2, <1>5 DEF UsesAfter
  <2>2. u[q] <= 2 * HalveEvery - 1
    BY <1>1, <1>2, <1>3, <1>4
  <2>3. u[q] \div 2 <= HalveEvery - 1
    <3>. HIDE DEF u
    <3>. QED  BY <1>1, <1>2, <2>2
  <2>. QED  BY <1>1, <1>2, <1>5, <2>1, <2>3
<1>6. CASE (a + 1) % HalveEvery # 0
  <2>1. UsesAfter(p)[q] = u[q]
    BY <1>6 DEF UsesAfter
  <2>2. (a + 1) % HalveEvery = (a % HalveEvery) + 1
    BY <1>4, <1>6
  <2>. QED  BY <1>1, <1>2, <1>3, <1>4, <2>1, <2>2
<1>. QED  BY <1>5, <1>6

\* The counts of uses never pass twice the period of their halvings.
THEOREM UsesStayBounded == Spec => []UsesBounded
<1>1. Init => UsesBounded
  <2>. SUFFICES ASSUME Init, NEW q \in Places
                PROVE  uses[q] < HalveEvery + (stats.acquired % HalveEvery)
    BY DEF UsesBounded
  <2>1. uses[q] = 0 /\ stats.acquired = 0 /\ HalveEvery \in Nat \ {0}
    BY StreamAssumption DEF Init
  <2>2. 0 % HalveEvery \in 0 .. HalveEvery - 1
    BY <2>1, NextRemainder
  <2>. QED  BY <2>1, <2>2
<1>2. ASSUME IInv, UsesBounded, [Next]_vars PROVE UsesBounded'
  <2>1. TypeOK
    BY <1>2 DEF IInv
  <2>2. stats \in Counts
    BY <2>1 DEF TypeOK, Counts
  <2>3. CASE uses' = uses /\ stats'.acquired = stats.acquired
    BY <1>2, <2>3 DEF UsesBounded
  <2>4. CASE /\ todo # <<>> /\ uses' = UsesAfter(Head(todo))
             /\ stats'.acquired = stats.acquired + 1
    <3>1. Head(todo) \in Places
      BY <2>1, <2>4, HeadTail DEF TypeOK
    <3>2. \A q \in Places : UsesAfter(Head(todo))[q] < HalveEvery + ((stats.acquired + 1) % HalveEvery)
      BY <1>2, <2>1, <3>1, UsesAfterBounded
    <3>. QED  BY <2>4, <3>2 DEF UsesBounded
  <2>5. Acquired.acquired = stats.acquired + 1 /\ Acquired \in Counts
    BY <2>1, <2>2, AcquiredType DEF Acquired, Counts
  <2>6. ASSUME NEW st \in Counts, NEW p, NEW i, Miss(p, i, st)
        PROVE  stats'.acquired = st.acquired
    BY <2>6 DEF Miss, Counts
  <2>7. CASE HoldResident
    <3>1. stats'.acquired = Acquired.acquired
      BY <2>5, <2>7 DEF HoldResident, Counts
    <3>. QED  BY <2>4, <2>5, <2>7, <3>1 DEF HoldResident
  <2>8. CASE HoldMiss
    BY <2>4, <2>5, <2>6, <2>8 DEF HoldMiss
  <2>9. CASE HoldSleep
    BY <2>4, <2>5, <2>9 DEF HoldSleep
  <2>10. CASE HoldWoken
    BY <2>2, <2>3, <2>6, <2>10 DEF HoldWoken, table
  <2>11. CASE PrefetchPlace
    <3>1. stats'.acquired = stats.acquired /\ uses' = uses
      BY <2>2, <2>11 DEF PrefetchPlace, table, Counts
    <3>. QED  BY <2>3, <3>1
  <2>12. ASSUME NEW s \in Batches, Hold(s) \/ Prefetch(s) PROVE UNCHANGED <<uses, stats>>
    BY <2>12 DEF Hold, Prefetch, table
  <2>13. ASSUME HoldReturn \/ PrefetchReturn \/ WaitStep PROVE UNCHANGED <<uses, stats>>
    BY <2>13 DEF HoldReturn, PrefetchReturn, WaitStep, WaitSleep, WaitReturn, WaitFail, table
  <2>14. ASSUME NEW S \in SUBSET {p \in Places : held[p] > 0}, Release(S) PROVE UNCHANGED <<uses, stats>>
    BY <2>14 DEF Release
  <2>15. ASSUME NEW p \in Places, HoldReady(p) PROVE UNCHANGED <<uses, stats>>
    BY <2>15 DEF HoldReady
  <2>16. ASSUME Close \/ Closed \/ UNCHANGED vars PROVE UNCHANGED <<uses, stats>>
    BY <2>16 DEF Close, Closed, vars, table
  <2>17. ASSUME NEW w \in Workers, WorkerStep(w) PROVE UNCHANGED <<uses, stats>>
    BY <2>17 DEF WorkerStep, WorkerSleep, WorkerStop, WorkerTake, WorkerRead, WorkerDone, table
  <2>. QED
    BY <1>2, <2>3, <2>7, <2>8, <2>9, <2>10, <2>11, <2>12, <2>13, <2>14, <2>15, <2>16, <2>17
    DEF Next, HoldStep, PrefetchStep, Terminated
<1>. QED  BY <1>1, <1>2, Invariance, PTL DEF Spec

-----------------------------------------------------------------------------
(* The expert stream implements ExpertCache: what the caller sees of the      *)
(* slots, the queue and the threads is a set of resident places, one of which *)
(* makes room for another only while nobody holds or waits for it.  Each       *)
(* action of the stream is one of the cache's or leaves it as it is.           *)

\* The mapping of ImplementsCache, by name.
Resident == {p \in Places : where[p] # None /\ state[where[p]] = "READY"}
Shown == [p \in Places |-> IF held[p] > 0 THEN buf[where[p]] ELSE NoPlace]

\* The caller reads a held place's own bytes, so what it is shown follows
\* from what it holds.
LEMMA ShownIsHeld ==
  ASSUME IInv
  PROVE  /\ Shown = [p \in Places |-> IF held[p] > 0 THEN p ELSE NoPlace]
         /\ \A p \in Places : held[p] > 0 => p \in Resident
<1>1. \A p \in Places : held[p] > 0 => where[p] \in Slots /\ state[where[p]] = "READY"
                                       /\ where[p] # None /\ buf[where[p]] = p
  BY TableTypes DEF IInv, CallerOK, BytesOK, TableOK
<1>. QED  BY <1>1 DEF Shown, Resident

LEMMA ShownNext ==
  ASSUME IInv'
  PROVE  Shown' = [p \in Places |-> IF held'[p] > 0 THEN p ELSE NoPlace]
<1>1. (IInv => Shown = [p \in Places |-> IF held[p] > 0 THEN p ELSE NoPlace])'
  BY ShownIsHeld, PTL
<1>. QED  BY <1>1

LEMMA ShownSame ==
  ASSUME IInv, IInv', held' = held
  PROVE  Shown' = Shown
<1>1. Shown = [p \in Places |-> IF held[p] > 0 THEN p ELSE NoPlace]
  BY ShownIsHeld
<1>. QED  BY <1>1, ShownNext

-----------------------------------------------------------------------------
(* The cache's actions, in the terms of the mapping. *)

\* The instance's Cardinality is that of FiniteSets.
LEMMA SameCardinality == \A S : Cache!Cardinality(S) = Cardinality(S)
  BY DEF Cache!Cardinality, Cardinality

LEMMA StutterMaps ==
  ASSUME Resident' = Resident, batch' = batch, held' = held, Shown' = Shown
  PROVE  UNCHANGED Cache!vars
  BY DEF Cache!vars, Resident, Shown

LEMMA WantMaps ==
  ASSUME NEW p \in Places, p \notin batch, batch' = batch \cup {p},
         NEW S \in SUBSET Resident, Cardinality(S) <= 1,
         \A q \in S : held[q] = 0 /\ q \notin batch,
         p \in Resident => S = {}, Resident' = Resident \ S,
         held' = held, Shown' = Shown
  PROVE  Cache!Next
<1>1. Cache!Want(p)
  BY SameCardinality DEF Cache!Want, Cache!Room, Cache!Idle, Resident, Shown
<1>. QED  BY <1>1 DEF Cache!Next

LEMMA EvictMaps ==
  ASSUME NEW p \in Resident, held[p] = 0, p \notin batch, Resident' = Resident \ {p},
         batch' = batch, held' = held, Shown' = Shown
  PROVE  Cache!Next
<1>1. Cache!Evict(p) /\ p \in Places
  BY DEF Cache!Evict, Cache!Idle, Resident, Shown
<1>. QED  BY <1>1 DEF Cache!Next

LEMMA ArriveMaps ==
  ASSUME NEW p \in Places \ Resident, Cardinality(Resident) < NSlots,
         Resident' = Resident \cup {p}, batch' = batch, held' = held, Shown' = Shown
  PROVE  Cache!Next
<1>1. Cache!Arrive(p)
  BY SameCardinality DEF Cache!Arrive, Resident, Shown
<1>. QED  BY <1>1 DEF Cache!Next

-----------------------------------------------------------------------------
(* A slot given to another place. *)

\* The places in the slot that is given up: those of place[i] that are read.
LEMMA StartReadResident ==
  ASSUME IInv, NEW i \in Slots, NEW p \in Places, NEW g \in BOOLEAN,
         i \in Evictable, where[p] = None, StartRead(i, p, g)
  PROVE  /\ p \notin Resident
         /\ \/ Resident' = Resident
            \/ /\ place[i] \in Resident /\ Resident' = Resident \ {place[i]}
               /\ held[place[i]] = 0 /\ place[i] \notin batch
<1>1. TypeOK /\ TableOK /\ UsersAreHolds /\ CallerOK
  BY DEF IInv
<1>2. /\ where'[p] = i /\ state'[i] = "READING"
      /\ \A j \in Slots : j # i => state'[j] = state[j]
      /\ \A q \in Places : q # p => where'[q] = IF q = place[i] THEN None ELSE where[q]
      /\ \A q \in Places : where[q] = i <=> q = place[i]
      /\ place[i] \in Places => held[place[i]] = 0 /\ place[i] \notin batch
  BY <1>1, StartReadTables
<1>3. p \notin Resident
  BY DEF Resident
<1>4. \A q \in Places : where[q] # None => where[q] \in Slots
  BY <1>1, TableTypes
<1>5. Resident' = Resident \ {place[i]}
  <2>1. \A q \in Places : q \in Resident' <=> q \in Resident /\ q # place[i]
    <3>. SUFFICES ASSUME NEW q \in Places PROVE q \in Resident' <=> q \in Resident /\ q # place[i]
      OBVIOUS
    <3>1. CASE q = p
      BY <1>2, <1>3, <3>1 DEF Resident
    <3>2. CASE q # p /\ q = place[i]
      BY <1>2, <3>2 DEF Resident
    <3>3. CASE q # p /\ q # place[i]
      BY <1>2, <1>4, <3>3 DEF Resident
    <3>. QED  BY <3>1, <3>2, <3>3
  <2>. QED  BY <2>1 DEF Resident
<1>6. CASE place[i] \in Resident
  BY <1>2, <1>3, <1>5, <1>6 DEF Resident
<1>7. CASE place[i] \notin Resident
  BY <1>3, <1>5, <1>7
<1>. QED  BY <1>6, <1>7

\* hold's miss is a place wanted, and another given up for it if it was there.
LEMMA MissMaps ==
  ASSUME IInv, IInv', Holding, todo # <<>>, where[Head(todo)] = None,
         NEW i \in Slots, i \in Evictable, NEW st, Miss(Head(todo), i, st)
  PROVE  Cache!Next
<1>. DEFINE p == Head(todo)
<1>1. TypeOK /\ CallerOK /\ UsersAreHolds
  BY DEF IInv
<1>2. p \in Places /\ where[p] = None
  BY <1>1, HeadTail DEF TypeOK
<1>3. p \notin batch
  BY <1>1, <1>2 DEF UsersAreHolds
<1>. HIDE DEF p
<1>4. StartRead(i, p, FALSE) /\ batch' = batch \cup {p} /\ held' = held
  BY DEF Miss, Take, p
<1>5. Shown' = Shown
  BY <1>4, ShownSame
<1>6. /\ p \notin Resident
      /\ \/ Resident' = Resident
         \/ /\ place[i] \in Resident /\ Resident' = Resident \ {place[i]}
            /\ held[place[i]] = 0 /\ place[i] \notin batch
  BY <1>2, <1>4, StartReadResident
<1>7. CASE Resident' = Resident
  <2>1. {} \in SUBSET Resident /\ Cardinality({}) <= 1 /\ Resident' = Resident \ {}
    BY <1>7, FS_EmptySet
  <2>. QED  BY <1>2, <1>3, <1>4, <1>5, <2>1, WantMaps
<1>8. CASE /\ place[i] \in Resident /\ Resident' = Resident \ {place[i]}
           /\ held[place[i]] = 0 /\ place[i] \notin batch
  <2>1. Cardinality({place[i]}) <= 1
    <3>1. Cardinality({place[i]}) = 1
      BY FS_Singleton, Zenon
    <3>. QED  BY <3>1
  <2>2. {place[i]} \in SUBSET Resident
    BY <1>8
  <2>. QED  BY <1>2, <1>3, <1>4, <1>5, <1>6, <1>8, <2>1, <2>2, WantMaps
<1>. QED  BY <1>6, <1>7, <1>8

\* A place that has a slot is wanted, and nothing is given up.
LEMMA HoldResidentMaps ==
  ASSUME IInv, IInv', HoldResident
  PROVE  Cache!Next
<1>. DEFINE p == Head(todo)
            i == where[p]
<1>1. TypeOK /\ CallerOK /\ TableOK
  BY DEF IInv
<1>2. p \in Places /\ p = todo[1] /\ 1 \in 1 .. Len(todo) /\ i \in Slots /\ i # None
  BY <1>1, HeadTail, TableTypes DEF HoldResident, TypeOK
<1>3. p \notin batch
  BY <1>1, <1>2 DEF CallerOK, HoldResident, Holding
<1>4. batch' = batch \cup {p} /\ held' = held /\ where' = where
  BY DEF HoldResident, Take
<1>5. state' = state \/ (state[i] = "FAILED" /\ state' = [state EXCEPT ![i] = "READING"])
  BY DEF HoldResident
<1>6. state \in [Slots -> SlotStates] /\ \A q \in Places : where[q] # None => where[q] \in Slots
  BY <1>1, TableTypes
<1>. HIDE DEF p, i
<1>7. Resident' = Resident
  BY <1>2, <1>4, <1>5, <1>6 DEF Resident
<1>8. Shown' = Shown
  BY <1>4, ShownSame
<1>9. {} \in SUBSET Resident /\ Cardinality({}) <= 1 /\ Resident' = Resident \ {}
  BY <1>7, FS_EmptySet
<1>. QED  BY <1>2, <1>3, <1>4, <1>8, <1>9, WantMaps

\* prefetch gives up a place for the one it has read ahead.
LEMMA PrefetchMaps ==
  ASSUME IInv, IInv', PrefetchPlace
  PROVE  Cache!Next \/ UNCHANGED Cache!vars
<1>. DEFINE p == Head(todo)
<1>1. batch' = batch /\ held' = held
  BY DEF PrefetchPlace
<1>2. Shown' = Shown
  BY <1>1, ShownSame
<1>3. CASE UNCHANGED <<table, work>>
  <2>1. Resident' = Resident
    BY <1>3 DEF table, Resident
  <2>. QED  BY <1>1, <1>2, <2>1, StutterMaps
<1>4. ASSUME NEW i \in Slots, i \in Evictable, StartRead(i, p, TRUE), todo # <<>>, where[p] = None
      PROVE  Cache!Next \/ UNCHANGED Cache!vars
  <2>1. p \in Places
    BY <1>4, HeadTail DEF IInv, TypeOK
  <2>. HIDE DEF p
  <2>2. \/ Resident' = Resident
        \/ /\ place[i] \in Resident /\ Resident' = Resident \ {place[i]}
           /\ held[place[i]] = 0 /\ place[i] \notin batch
    BY <1>4, <2>1, StartReadResident
  <2>. QED  BY <1>1, <1>2, <2>2, StutterMaps, EvictMaps
<1>. QED  BY <1>3, <1>4 DEF PrefetchPlace, IsFree

-----------------------------------------------------------------------------
(* wait, release and hold_ready. *)

\* wait hands out a batch all of which is read.  An empty one changes nothing.
LEMMA WaitReturnMaps ==
  ASSUME IInv, IInv', WaitReturn
  PROVE  Cache!Next \/ UNCHANGED Cache!vars
<1>1. Resident' = Resident
  BY DEF WaitReturn, table, Resident
<1>2. /\ Shown = [p \in Places |-> IF held[p] > 0 THEN p ELSE NoPlace]
      /\ Shown' = [p \in Places |-> IF held'[p] > 0 THEN p ELSE NoPlace]
  BY ShownIsHeld, ShownNext
<1>3. batch \in SUBSET Places /\ held \in [Places -> Nat]
  BY TableTypes DEF IInv
<1>4. held' = [p \in Places |-> IF p \in batch THEN held[p] + 1 ELSE held[p]] /\ batch' = {}
  BY DEF WaitReturn
<1>5. CASE batch = {}
  <2>1. held' = held
    BY <1>3, <1>4, <1>5
  <2>2. Shown' = Shown
    BY <2>1, ShownSame
  <2>. QED  BY <1>1, <1>4, <1>5, <2>1, <2>2, StutterMaps
<1>6. CASE batch # {}
  <2>1. batch \subseteq Resident
    <3>. SUFFICES ASSUME NEW p \in batch PROVE p \in Resident
      OBVIOUS
    <3>1. where[p] # None
      BY <1>3 DEF IInv, UsersAreHolds
    <3>2. state[where[p]] = "READY"
      BY DEF WaitReturn, BatchSlots
    <3>. QED  BY <1>3, <3>1, <3>2 DEF Resident
  <2>2. Shown' = [p \in Places |-> IF p \in batch THEN p ELSE Shown[p]]
    BY <1>2, <1>3, <1>4
  <2>3. Cache!HandOut
    BY <1>1, <1>4, <1>6, <2>1, <2>2 DEF Cache!HandOut, Resident, Shown
  <2>. QED  BY <2>3 DEF Cache!Next
<1>. QED  BY <1>5, <1>6

\* wait that fails gives up on a batch not all of which is read, and only a
\* slot whose read failed is emptied.
LEMMA WaitFailMaps ==
  ASSUME IInv, IInv', WaitFail
  PROVE  Cache!Next
<1>1. /\ where \in [Places -> Slots \cup {None}] /\ state \in [Slots -> SlotStates]
      /\ batch \in SUBSET Places
  BY TableTypes DEF IInv
<1>2. held' = held /\ batch' = {}
  BY DEF WaitFail
<1>3. Shown' = Shown
  BY <1>2, ShownSame
<1>4. PICK E \in SUBSET BatchSlots :
        /\ \A i \in E : state[i] = "FAILED"
        /\ where' = [p \in Places |-> IF where[p] \in E THEN None ELSE where[p]]
        /\ state' = [i \in Slots |-> IF i \in E THEN "EMPTY" ELSE state[i]]
  BY DEF WaitFail, LetGo
<1>5. Resident' = Resident
  BY <1>1, <1>4 DEF Resident
<1>6. PICK p \in batch : state[where[p]] # "READY"
  BY DEF WaitFail, BatchSlots
<1>7. ~(batch \subseteq Resident)
  BY <1>6 DEF Resident
<1>8. Cache!GiveUp
  BY <1>2, <1>3, <1>5, <1>7 DEF Cache!GiveUp, Resident, Shown
<1>. QED  BY <1>8 DEF Cache!Next

LEMMA ReleaseMaps ==
  ASSUME IInv, IInv', NEW S \in SUBSET {p \in Places : held[p] > 0}, Release(S)
  PROVE  Cache!Next
<1>1. Resident' = Resident /\ batch' = batch
  BY DEF Release, Resident
<1>2. /\ Shown = [p \in Places |-> IF held[p] > 0 THEN p ELSE NoPlace]
      /\ Shown' = [p \in Places |-> IF held'[p] > 0 THEN p ELSE NoPlace]
  BY ShownIsHeld, ShownNext
<1>3. held \in [Places -> Nat]
  BY TableTypes DEF IInv
<1>4. held' = [p \in Places |-> IF p \in S THEN held[p] - 1 ELSE held[p]]
  BY DEF Release
<1>5. Shown' = [p \in Places |-> IF p \in S /\ held[p] = 1 THEN NoPlace ELSE Shown[p]]
  BY <1>2, <1>3, <1>4
<1>6. Cache!Release(S)
  BY <1>1, <1>4, <1>5 DEF Cache!Release, Resident, Shown
<1>. QED  BY <1>6 DEF Cache!Next

LEMMA HoldReadyMaps ==
  ASSUME IInv, IInv', NEW r \in Places, HoldReady(r)
  PROVE  Cache!Next
<1>1. Resident' = Resident /\ batch' = batch /\ r \in Resident
  BY DEF HoldReady, Readable, Resident
<1>2. /\ Shown = [p \in Places |-> IF held[p] > 0 THEN p ELSE NoPlace]
      /\ Shown' = [p \in Places |-> IF held'[p] > 0 THEN p ELSE NoPlace]
  BY ShownIsHeld, ShownNext
<1>3. held \in [Places -> Nat] /\ held' = [held EXCEPT ![r] = @ + 1]
  BY TableTypes DEF IInv, HoldReady
<1>4. Shown' = [Shown EXCEPT ![r] = r]
  BY <1>2, <1>3
<1>5. Cache!HoldReady(r)
  BY <1>1, <1>3, <1>4 DEF Cache!HoldReady, Resident, Shown
<1>. QED  BY <1>5 DEF Cache!Next

-----------------------------------------------------------------------------
(* The workers. *)

\* While a slot is being read there is one place less than slots resident.
LEMMA RoomToArrive ==
  ASSUME IInv, NEW i \in Slots, state[i] = "READING"
  PROVE  Cardinality(Resident) < NSlots
<1>1. /\ where \in [Places -> Slots \cup {None}] /\ None \notin Slots
      /\ \A p \in Places : where[p] # None => place[where[p]] = p
  BY TableTypes, NoSlot DEF IInv, TableOK
<1>. DEFINE Others == Slots \ {i}
            f == [p \in Resident |-> where[p]]
<1>2. f \in Injection(Resident, Others)
  <2>1. \A p \in Resident : where[p] \in Others /\ place[where[p]] = p
    BY <1>1 DEF Resident
  <2>2. f \in [Resident -> Others]
    BY <2>1
  <2>3. \A p, q \in Resident : f[p] = f[q] => p = q
    BY <2>1
  <2>. QED  BY <2>2, <2>3 DEF Injection, IsInjective
<1>3. NSlots \in Nat /\ 0 \in Int /\ NSlots - 1 \in Int
  BY StreamAssumption
<1>4. IsFiniteSet(Slots) /\ Cardinality(Slots) = NSlots
  <2>1. /\ IsFiniteSet(0 .. NSlots - 1)
        /\ Cardinality(0 .. NSlots - 1) = IF 0 > NSlots - 1 THEN 0 ELSE NSlots - 1 - 0 + 1
    BY <1>3, FS_Interval
  <2>2. NSlots > 0
    BY <1>3 DEF Slots
  <2>. QED  BY <1>3, <2>1, <2>2 DEF Slots
<1>5. IsFiniteSet(Others) /\ Cardinality(Others) = NSlots - 1
  BY <1>4, FS_RemoveElement
<1>6. IsFiniteSet(Resident) /\ Cardinality(Resident) <= Cardinality(Others)
  <2>. HIDE DEF Others, f
  <2>. QED  BY <1>2, <1>5, FS_Injection
<1>7. Cardinality(Resident) \in Nat
  BY <1>6, FS_CardinalityType
<1>. QED  BY <1>3, <1>5, <1>6, <1>7

\* A read that ends well makes its place resident; one that fails, nothing.
LEMMA WorkerDoneMaps ==
  ASSUME IInv, IInv', NEW w \in Workers, WorkerDone(w)
  PROVE  Cache!Next \/ UNCHANGED Cache!vars
<1>. DEFINE i == job[w].slot
            p == job[w].place
<1>1. /\ where \in [Places -> Slots \cup {None}] /\ state \in [Slots -> SlotStates]
      /\ place \in [Slots -> Places \cup {NoPlace}] /\ None \notin Slots /\ NoPlace \notin Places
  BY TableTypes, NoSlot, NoPlaceIsNone DEF IInv
<1>2. i \in Slots /\ state[i] = "READING" /\ place[i] = p /\ p \in Places
  BY DEF IInv, JobsOK, Busy, WorkerDone, TypeOK
<1>3. where[p] = i /\ \A q \in Places : where[q] = i => q = p
  BY <1>1, <1>2 DEF IInv, TableOK
<1>4. /\ where' = where /\ batch' = batch /\ held' = held
      /\ state' = [state EXCEPT ![i] = IF job[w].ok THEN "READY" ELSE "FAILED"]
  BY DEF WorkerDone, EndState
<1>5. Shown' = Shown
  BY <1>4, ShownSame
<1>6. p \notin Resident
  BY <1>2, <1>3 DEF Resident
<1>. HIDE DEF i, p
<1>7. CASE job[w].ok
  <2>1. Resident' = Resident \cup {p}
    BY <1>1, <1>2, <1>3, <1>4, <1>7 DEF Resident
  <2>2. Cardinality(Resident) < NSlots
    BY <1>2, RoomToArrive
  <2>. QED  BY <1>2, <1>4, <1>5, <1>6, <2>1, <2>2, ArriveMaps
<1>8. CASE ~job[w].ok
  <2>1. Resident' = Resident
    BY <1>1, <1>2, <1>3, <1>4, <1>6, <1>8 DEF Resident
  <2>. QED  BY <1>4, <1>5, <2>1, StutterMaps
<1>. QED  BY <1>7, <1>8

-----------------------------------------------------------------------------
(* The refinement. *)

\* What leaves the tables' places and states, the batch and the holds alone.
LEMMA QuietMaps ==
  ASSUME IInv, IInv', UNCHANGED <<where, state, batch, held>>
  PROVE  UNCHANGED Cache!vars
<1>1. Resident' = Resident
  BY DEF Resident
<1>. QED  BY <1>1, ShownSame, StutterMaps

LEMMA InitMaps == Init => Cache!Init
  BY DEF Init, Cache!Init

\* Every step of the stream is a step of the cache's or changes nothing there.
LEMMA StepMaps ==
  ASSUME IInv, IInv', Next \/ UNCHANGED vars
  PROVE  Cache!Next \/ UNCHANGED Cache!vars
<1>. DEFINE Maps == Cache!Next \/ UNCHANGED Cache!vars
<1>. SUFFICES Maps  OBVIOUS
<1>. USE DEF table, caller
<1>1. ASSUME NEW s \in Batches, Hold(s) \/ Prefetch(s) PROVE Maps
  BY <1>1, QuietMaps DEF Hold, Prefetch
<1>2. CASE HoldResident
  BY <1>2, HoldResidentMaps
<1>3. CASE HoldMiss
  <2>1. PICK i \in Slots : IsFree(i, UsesAfter(Head(todo))) /\ Miss(Head(todo), i, Acquired)
    BY <1>3 DEF HoldMiss
  <2>2. Holding /\ todo # <<>> /\ where[Head(todo)] = None /\ i \in Evictable
    BY <1>3, <2>1 DEF HoldMiss, Holding, IsFree
  <2>. QED  BY <2>1, <2>2, MissMaps
<1>4. CASE HoldWoken
  <2>1. Holding /\ todo # <<>> /\ where[Head(todo)] = None
    <3>1. todo \in Seq(Places) /\ todo # <<>> /\ where[todo[1]] = None /\ Holding
      BY <1>4 DEF HoldWoken, IInv, CallerOK, TypeOK, Holding
    <3>. QED  BY <3>1, HeadTail
  <2>2. ASSUME NEW i \in Slots, IsFree(i, uses), Miss(Head(todo), i, stats) PROVE Maps
    <3>1. i \in Evictable
      BY <2>2 DEF IsFree
    <3>. QED  BY <2>1, <2>2, <3>1, MissMaps
  <2>3. CASE UNCHANGED <<table, work, todo, batch, held>>
    BY <2>3, QuietMaps
  <2>. QED  BY <1>4, <2>2, <2>3 DEF HoldWoken
<1>5. CASE HoldSleep \/ HoldReturn \/ PrefetchReturn \/ WaitSleep \/ Close \/ Closed
  BY <1>5, QuietMaps DEF HoldSleep, HoldReturn, PrefetchReturn, WaitSleep, Close, Closed
<1>6. CASE PrefetchPlace
  BY <1>6, PrefetchMaps
<1>7. CASE WaitReturn
  BY <1>7, WaitReturnMaps
<1>8. CASE WaitFail
  BY <1>8, WaitFailMaps
<1>9. ASSUME NEW S \in SUBSET {p \in Places : held[p] > 0}, Release(S) PROVE Maps
  BY <1>9, ReleaseMaps
<1>10. ASSUME NEW p \in Places, HoldReady(p) PROVE Maps
  BY <1>10, HoldReadyMaps
<1>11. ASSUME NEW w \in Workers, WorkerStep(w) PROVE Maps
  <2>1. CASE WorkerSleep(w) \/ WorkerStop(w) \/ WorkerTake(w) \/ WorkerRead(w)
    BY <2>1, QuietMaps DEF WorkerSleep, WorkerStop, WorkerTake, WorkerRead
  <2>. QED  BY <1>11, <2>1, WorkerDoneMaps DEF WorkerStep
<1>12. CASE UNCHANGED vars
  BY <1>12, QuietMaps DEF vars
<1>. HIDE DEF Maps
<1>13. CASE HoldStep \/ PrefetchStep \/ WaitStep
  BY <1>13, <1>2, <1>3, <1>4, <1>5, <1>6, <1>7, <1>8
  DEF HoldStep, PrefetchStep, WaitStep
<1>14. CASE \E S \in SUBSET {p \in Places : held[p] > 0} : S # {} /\ Release(S)
  BY <1>14, <1>9
<1>15. CASE \E p \in Places : HoldReady(p)
  BY <1>15, <1>10
<1>16. CASE \E w \in Workers : WorkerStep(w)
  BY <1>16, <1>11
<1>17. CASE \E s \in Batches : Hold(s) \/ Prefetch(s)
  BY <1>17, <1>1
<1>. QED
  BY <1>5, <1>12, <1>13, <1>14, <1>15, <1>16, <1>17 DEF Maps, Next, Terminated

\* The stream keeps what expert_stream.h promises, for any number of places,
\* slots and reading threads: it implements ExpertCache.
THEOREM Refinement == Spec => ImplementsCache
<1>1. Init => Cache!Init
  BY InitMaps
<1>2. IInv /\ IInv' /\ [Next]_vars => [Cache!Next]_(Cache!vars)
  BY StepMaps
<1>. QED  BY <1>1, <1>2, Invariance, PTL DEF Spec, ImplementsCache, Cache!Spec
=============================================================================
