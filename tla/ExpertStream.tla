---------------------------- MODULE ExpertStream ----------------------------
(***************************************************************************)
(* The expert stream (engine/src/expert_stream.c): a cache of a few slots  *)
(* for the experts of a checkpoint too large for memory, filled from the   *)
(* drive by worker threads.  One lock guards every table.  The caller (the *)
(* thread that runs the model) holds a batch of places, may prefetch the   *)
(* next layer's, waits for its batch, reads the bytes, and releases them.  *)
(*                                                                         *)
(* Each action is what one thread does while it owns the lock, or between  *)
(* two ownings.  The caller keeps the lock through the loops of hold() and *)
(* prefetch(), one place to an action; LockFree is false in between, so no *)
(* worker steps in.  The condition variables are explicit: a sleeping      *)
(* thread runs again only when it is signalled.                            *)
(*                                                                         *)
(* The caller is the one model.c and model_cuda.cu are: one batch between  *)
(* hold and wait, at most K places, and at most PMax places still held for *)
(* copies to a GPU when it holds the next batch.                           *)
(***************************************************************************)
EXTENDS Integers, Sequences, FiniteSets, Functions

CONSTANTS
  Places,        \* the experts, each a place in the files
  NoPlace,       \* the -1 of an empty slot
  NSlots,        \* n_slots
  Workers,       \* the reading threads
  K,             \* the most places of a batch: experts a token goes through
  PMax,          \* the most places held for copies when a batch is held
  HalveEvery,    \* 65536 in the code: acquisitions between halvings of uses
  MaxAcquired,   \* bound of the model: acquisitions in all
  MaxPrefetches  \* bound of the model: prefetch reads in all

\* stream_experts refuses a cache below twice a token's experts, and p_max
\* leaves that many slots to the batches.
ASSUME StreamAssumption ==
  /\ IsFiniteSet(Places) /\ NoPlace \notin Places
  /\ IsFiniteSet(Workers) /\ Workers # {}
  /\ NSlots \in Nat /\ K \in Nat \ {0} /\ PMax \in Nat
  /\ 2 * K + PMax <= NSlots
  /\ HalveEvery \in Nat \ {0}
  /\ MaxAcquired \in Nat /\ MaxPrefetches \in Nat

Slots == 0 .. NSlots - 1
None == -1

VARIABLES
  where, uses,               \* per place: its slot or None, its acquisitions
  place, state, users,       \* per slot: what it is for, its state, its holders
  last_use, prefetched,      \* per slot: for eviction, and for the statistics
  clock, stats,              \* the last_use clock and the counts
  queue, closing,            \* slots waiting to be read; close() was called
  buf,                       \* per slot: whose bytes are in it, NoPlace for torn ones
  wpc, job,                  \* per worker: where it is, and the read it took
  pc, todo, batch, held      \* the caller: where it is, the places its loop has
                             \* left, those held and not waited for, and the
                             \* holds it has after wait or hold_ready

table == <<where, uses, place, state, users, last_use, prefetched, clock, stats>>
work == <<queue, closing, buf, wpc, job>>
caller == <<pc, todo, batch, held>>
vars == <<table, work, caller>>

-----------------------------------------------------------------------------
NoJob == [slot |-> 0, place |-> NoPlace, ok |-> FALSE]

Init ==
  /\ where = [p \in Places |-> None]
  /\ uses = [p \in Places |-> 0]
  /\ place = [i \in Slots |-> NoPlace]
  /\ state = [i \in Slots |-> "EMPTY"]
  /\ users = [i \in Slots |-> 0]
  /\ last_use = [i \in Slots |-> 0]
  /\ prefetched = [i \in Slots |-> FALSE]
  /\ clock = 0
  /\ stats = [acquired |-> 0, hits |-> 0, in_flight |-> 0, misses |-> 0,
              prefetched |-> 0, prefetch_used |-> 0]
  /\ queue = <<>>
  /\ closing = FALSE
  /\ buf = [i \in Slots |-> NoPlace]
  /\ wpc = [w \in Workers |-> "ready"]
  /\ job = [w \in Workers |-> NoJob]
  /\ pc = "idle"
  /\ todo = <<>>
  /\ batch = {}
  /\ held = [p \in Places |-> 0]

LockFree == pc \notin {"hold", "prefetch"}

\* The places the caller holds and has been handed, each as often as it holds it.
HeldTotal == FoldFunction(+, 0, held)

Distinct(s) == \A m, n \in DOMAIN s : s[m] = s[n] => m = n

\* What the caller passes: up to K different places, in the router's order.
Batches == {s \in UNION {[1 .. k -> Places] : k \in 1 .. K} : Distinct(s)}

-----------------------------------------------------------------------------
(* The tables, changed with the lock held. *)

\* Mutant: a slot that is being read may be given up.
EvictableReading == {i \in Slots : users[i] = 0}

\* Mutant: a held slot may be given up.
EvictableHeld == {i \in Slots : state[i] # "READING"}

Evictable == {i \in Slots : users[i] = 0 /\ state[i] # "READING"}

\* free_slot: the first empty slot, or else the least used, u counting the
\* uses, the least recently used between equals.
IsFree(i, u) ==
  LET empty == {j \in Evictable : place[j] = NoPlace}
      Before(j) == \/ u[place[i]] < u[place[j]]
                   \/ u[place[i]] = u[place[j]] /\ last_use[i] < last_use[j]
  IN  /\ i \in Evictable
      /\ IF empty # {} THEN i \in empty /\ \A j \in empty : i <= j
                       ELSE \A j \in Evictable \ {i} : Before(j)

\* vitna_cond_signal on work: one sleeping worker wakes, if one sleeps.
Signal ==
  LET asleep == {w \in Workers : wpc[w] = "asleep"}
  IN  IF asleep = {} THEN wpc' = wpc
                     ELSE \E w \in asleep : wpc' = [wpc EXCEPT ![w] = "ready"]

Enqueue(i) == queue' = Append(queue, i) /\ Signal

\* Whether slot i was read for a prefetch and not acquired since.
Mark(i, guessed) == [prefetched EXCEPT ![i] = guessed]

\* Mutant: the slot's old place still points at it.
StartReadStale(i, p, prefetch) ==
  /\ where' = [where EXCEPT ![p] = i]
  /\ place' = [place EXCEPT ![i] = p]
  /\ state' = [state EXCEPT ![i] = "READING"]
  /\ prefetched' = Mark(i, prefetch)
  /\ clock' = clock + 1
  /\ last_use' = [last_use EXCEPT ![i] = clock + 1]
  /\ Enqueue(i)

StartRead(i, p, prefetch) ==
  /\ where' = [q \in Places |-> IF q = p THEN i
                                ELSE IF q = place[i] THEN None ELSE where[q]]
  /\ place' = [place EXCEPT ![i] = p]
  /\ state' = [state EXCEPT ![i] = "READING"]
  /\ prefetched' = Mark(i, prefetch)
  /\ clock' = clock + 1
  /\ last_use' = [last_use EXCEPT ![i] = clock + 1]
  /\ Enqueue(i)

-----------------------------------------------------------------------------
(* hold(): the caller owns the lock from Hold to HoldReturn, but for its    *)
(* sleeps on done.                                                          *)

Hold(s) ==
  /\ pc = "idle"
  /\ HeldTotal <= PMax
  /\ stats.acquired + Len(s) <= MaxAcquired
  /\ pc' = "hold"
  /\ todo' = s
  /\ UNCHANGED <<table, work, batch, held>>

\* Mutant: the counts are never halved.
UsesOnlyGrow(p) == [uses EXCEPT ![p] = @ + 1]

\* The uses after one more acquisition, that of p.
UsesAfter(p) ==
  LET u == [uses EXCEPT ![p] = @ + 1]
  IN  IF (stats.acquired + 1) % HalveEvery = 0
      THEN [q \in Places |-> u[q] \div 2]
      ELSE u

Acquired == [stats EXCEPT !.acquired = @ + 1]

One(b) == IF b THEN 1 ELSE 0

Take(p, i) ==
  /\ users' = [users EXCEPT ![i] = @ + 1]
  /\ batch' = batch \cup {p}
  /\ todo' = Tail(todo)
  /\ pc' = "hold"

\* Place p has a slot.  A prefetch that failed is read again.
HoldResident ==
  /\ pc = "hold" /\ todo # <<>> /\ where[Head(todo)] # None
  /\ LET p == Head(todo)
         i == where[p]
         again == state[i] = "FAILED" /\ users[i] = 0
         reading == state[i] = "READING"
     IN  /\ uses' = UsesAfter(p)
         /\ IF again THEN /\ state' = [state EXCEPT ![i] = "READING"]
                          /\ Enqueue(i)
                     ELSE UNCHANGED <<state, queue, wpc>>
         /\ stats' = [Acquired EXCEPT !.misses = @ + One(again),
                                      !.in_flight = @ + One(reading),
                                      !.hits = @ + One(~again /\ ~reading),
                                      !.prefetch_used = @ + One(prefetched[i])]
         /\ prefetched' = Mark(i, FALSE)
         /\ clock' = clock + 1
         /\ last_use' = [last_use EXCEPT ![i] = clock + 1]
         /\ Take(p, i)
  /\ UNCHANGED <<where, place, closing, buf, job, held>>

Miss(p, i, st) ==
  /\ StartRead(i, p, FALSE)
  /\ stats' = [st EXCEPT !.misses = @ + 1]
  /\ Take(p, i)
  /\ UNCHANGED <<closing, buf, job, held>>

HoldMiss ==
  /\ pc = "hold" /\ todo # <<>> /\ where[Head(todo)] = None
  /\ LET p == Head(todo)
     IN  /\ uses' = UsesAfter(p)
         /\ \E i \in Slots : IsFree(i, UsesAfter(p)) /\ Miss(p, i, Acquired)

\* Every slot is held or being read: wait for a read to finish.
HoldSleep ==
  /\ pc = "hold" /\ todo # <<>> /\ where[Head(todo)] = None
  /\ Evictable = {}
  /\ uses' = UsesAfter(Head(todo))
  /\ stats' = Acquired
  /\ pc' = "hold_asleep"
  /\ UNCHANGED <<where, place, state, users, last_use, prefetched, clock, work, todo, batch, held>>

HoldWoken ==
  /\ pc = "hold_woken"
  /\ \/ \E i \in Slots : IsFree(i, uses) /\ Miss(Head(todo), i, stats) /\ UNCHANGED uses
     \/ /\ Evictable = {}
        /\ pc' = "hold_asleep"
        /\ UNCHANGED <<table, work, todo, batch, held>>

HoldReturn ==
  /\ pc = "hold" /\ todo = <<>>
  /\ pc' = "holding"
  /\ UNCHANGED <<table, work, todo, batch, held>>

-----------------------------------------------------------------------------
(* prefetch(): never waits, and stops at the first place it has no slot for. *)
(* The caller does so once between hold and wait, or with no batch held.    *)

Prefetch(s) ==
  /\ pc \in {"idle", "holding"}
  /\ stats.prefetched + Len(s) <= MaxPrefetches
  /\ pc' = "prefetch"
  /\ todo' = s
  /\ UNCHANGED <<table, work, batch, held>>

PrefetchPlace ==
  /\ pc = "prefetch" /\ todo # <<>>
  /\ LET p == Head(todo)
     IN  \/ /\ where[p] # None
            /\ todo' = Tail(todo)
            /\ UNCHANGED <<table, work>>
         \/ /\ where[p] = None
            /\ \E i \in Slots : IsFree(i, uses) /\ StartRead(i, p, TRUE)
            /\ stats' = [stats EXCEPT !.prefetched = @ + 1]
            /\ todo' = Tail(todo)
            /\ UNCHANGED <<uses, users, closing, buf, job>>
         \/ /\ where[p] = None /\ Evictable = {}
            /\ todo' = <<>>
            /\ UNCHANGED <<table, work>>
  /\ UNCHANGED <<pc, batch, held>>

PrefetchReturn ==
  /\ pc = "prefetch" /\ todo = <<>>
  /\ pc' = IF batch = {} THEN "idle" ELSE "due"
  /\ UNCHANGED <<table, work, todo, batch, held>>

-----------------------------------------------------------------------------
(* wait(), release() and hold_ready().  wait()'s loop only ever leaves the  *)
(* lock to sleep, and a held slot whose read ended stays as it is, so one   *)
(* look at the whole batch stands for the loop from where it slept.         *)

Waits == {"holding", "due", "wait_woken"}

BatchSlots == {where[p] : p \in batch}

WaitedFor(S) == \A i \in S : state[i] # "READING"

WaitSleep ==
  /\ pc \in Waits
  /\ ~WaitedFor(BatchSlots)
  /\ pc' = "wait_asleep"
  /\ UNCHANGED <<table, work, todo, batch, held>>

WaitReturn ==
  /\ pc \in Waits
  /\ WaitedFor(BatchSlots)
  /\ \A i \in BatchSlots : state[i] = "READY"
  /\ held' = [p \in Places |-> IF p \in batch THEN held[p] + 1 ELSE held[p]]
  /\ batch' = {}
  /\ pc' = "idle"
  /\ UNCHANGED <<table, work, todo>>

\* Mutant: the slots that were read are let go of, those that failed are not.
LetGoOfRead(S) ==
  /\ users' = [i \in Slots |-> IF i \in S /\ state[i] = "READY" THEN users[i] - 1 ELSE users[i]]
  /\ UNCHANGED <<where, place, state, prefetched>>

\* Let go of the slots of S; one whose read failed and nobody holds is emptied.
LetGo(S) ==
  LET left(i) == IF i \in S /\ users[i] > 0 THEN users[i] - 1 ELSE users[i]
      emptied == {i \in S : state[i] = "FAILED" /\ left(i) = 0}
  IN  /\ users' = [i \in Slots |-> left(i)]
      /\ where' = [p \in Places |-> IF where[p] \in emptied THEN None ELSE where[p]]
      /\ place' = [i \in Slots |-> IF i \in emptied THEN NoPlace ELSE place[i]]
      /\ state' = [i \in Slots |-> IF i \in emptied THEN "EMPTY" ELSE state[i]]
      /\ prefetched' = [i \in Slots |-> prefetched[i] /\ i \notin emptied]

\* A read failed: wait returns false and acquires none of the batch.
WaitFail ==
  /\ pc \in Waits
  /\ WaitedFor(BatchSlots)
  /\ \E i \in BatchSlots : state[i] # "READY"
  /\ LetGo(BatchSlots)
  /\ batch' = {}
  /\ pc' = "idle"
  /\ UNCHANGED <<uses, last_use, clock, stats, work, todo, held>>

\* The caller gives back one hold on each of the places S.
Release(S) ==
  /\ pc = "idle"
  /\ users' = [i \in Slots |-> IF users[i] > 0 /\ \E p \in S : where[p] = i
                               THEN users[i] - 1 ELSE users[i]]
  /\ held' = [p \in Places |-> IF p \in S THEN held[p] - 1 ELSE held[p]]
  /\ UNCHANGED <<where, uses, place, state, last_use, prefetched, clock, stats, work, pc, todo, batch>>

Readable(p) == where[p] # None /\ state[where[p]] = "READY"

\* hold_ready: p only if it is read already; otherwise nothing changes.
HoldReady(p) ==
  /\ pc = "idle" /\ PMax > 0 /\ HeldTotal < PMax + K
  /\ Readable(p)
  /\ users' = [users EXCEPT ![where[p]] = @ + 1]
  /\ held' = [held EXCEPT ![p] = @ + 1]
  /\ UNCHANGED <<where, uses, place, state, last_use, prefetched, clock, stats, work, pc, todo, batch>>

-----------------------------------------------------------------------------
(* close(): nothing may be held. *)

Close ==
  /\ pc = "idle" /\ HeldTotal = 0
  /\ closing' = TRUE
  /\ wpc' = [w \in Workers |-> IF wpc[w] = "asleep" THEN "ready" ELSE wpc[w]]
  /\ pc' = "joining"
  /\ UNCHANGED <<table, queue, buf, job, todo, batch, held>>

\* Every worker has been joined: the memory is freed.
Closed ==
  /\ pc = "joining" /\ \A w \in Workers : wpc[w] = "stopped"
  /\ pc' = "closed"
  /\ UNCHANGED <<table, work, todo, batch, held>>

-----------------------------------------------------------------------------
(* worker_main() *)

WorkerSleep(w) ==
  /\ wpc[w] = "ready" /\ LockFree
  /\ queue = <<>> /\ ~closing
  /\ wpc' = [wpc EXCEPT ![w] = "asleep"]
  /\ UNCHANGED <<table, queue, closing, buf, job, caller>>

WorkerStop(w) ==
  /\ wpc[w] = "ready" /\ LockFree /\ closing
  /\ wpc' = [wpc EXCEPT ![w] = "stopped"]
  /\ UNCHANGED <<table, queue, closing, buf, job, caller>>

WorkerTake(w) ==
  /\ wpc[w] = "ready" /\ LockFree /\ ~closing
  /\ queue # <<>>
  /\ queue' = Tail(queue)
  /\ job' = [job EXCEPT ![w] = [slot |-> Head(queue), place |-> place[Head(queue)], ok |-> FALSE]]
  /\ wpc' = [wpc EXCEPT ![w] = "reading"]
  /\ UNCHANGED <<table, closing, buf, caller>>

\* The reads themselves, without the lock.  A failed one leaves what it may.
WorkerRead(w) ==
  /\ wpc[w] = "reading"
  /\ \E ok \in BOOLEAN :
       /\ job' = [job EXCEPT ![w].ok = ok]
       /\ buf' = [buf EXCEPT ![job[w].slot] = IF ok THEN job[w].place ELSE NoPlace]
  /\ wpc' = [wpc EXCEPT ![w] = "read"]
  /\ UNCHANGED <<table, queue, closing, caller>>

\* Mutant: a short read counts as a good one.
ReadState(w) == "READY"

EndState(w) == IF job[w].ok THEN "READY" ELSE "FAILED"

\* Mutant: a caller asleep in wait is not woken.
WokenInHold == IF pc = "hold_asleep" THEN "hold_woken" ELSE pc

\* vitna_cond_broadcast on done: the caller wakes, whatever it sleeps for.
Woken == CASE pc = "hold_asleep" -> "hold_woken"
           [] pc = "wait_asleep" -> "wait_woken"
           [] OTHER -> pc

WorkerDone(w) ==
  /\ wpc[w] = "read" /\ LockFree
  /\ state' = [state EXCEPT ![job[w].slot] = EndState(w)]
  /\ pc' = Woken
  /\ wpc' = [wpc EXCEPT ![w] = "ready"]
  /\ job' = [job EXCEPT ![w] = NoJob]
  /\ UNCHANGED <<where, uses, place, users, last_use, prefetched, clock, stats,
                 queue, closing, buf, todo, batch, held>>

-----------------------------------------------------------------------------
HoldStep == HoldResident \/ HoldMiss \/ HoldSleep \/ HoldWoken \/ HoldReturn

PrefetchStep == PrefetchPlace \/ PrefetchReturn

WaitStep == WaitSleep \/ WaitReturn \/ WaitFail

WorkerStep(w) ==
  \/ WorkerSleep(w) \/ WorkerStop(w) \/ WorkerTake(w)
  \/ WorkerRead(w) \/ WorkerDone(w)

\* The process may rest once the stream is closed.
Terminated == pc = "closed" /\ UNCHANGED vars

Next ==
  \/ \E s \in Batches : Hold(s) \/ Prefetch(s)
  \/ HoldStep \/ PrefetchStep \/ WaitStep
  \/ \E S \in SUBSET {p \in Places : held[p] > 0} : S # {} /\ Release(S)
  \/ \E p \in Places : HoldReady(p)
  \/ Close \/ Closed
  \/ \E w \in Workers : WorkerStep(w)
  \/ Terminated

Spec == Init /\ [][Next]_vars

\* The operating system runs every thread that can run, and the lock is
\* given to a worker that waits for it though the caller takes it now and
\* then: a layer is computed between two calls.  A call goes on once begun,
\* and hold is followed by wait; that the caller holds again is not assumed.
Fairness ==
  /\ WF_vars(HoldStep) /\ WF_vars(PrefetchStep) /\ WF_vars(WaitStep) /\ WF_vars(Closed)
  /\ \A w \in Workers : SF_vars(WorkerStep(w))

FairSpec == Spec /\ Fairness

-----------------------------------------------------------------------------
(* Properties *)

TypeOK ==
  /\ where \in [Places -> Slots \cup {None}]
  /\ uses \in [Places -> Nat]
  /\ place \in [Slots -> Places \cup {NoPlace}]
  /\ state \in [Slots -> {"EMPTY", "READING", "READY", "FAILED"}]
  /\ users \in [Slots -> Nat]
  /\ last_use \in [Slots -> Nat]
  /\ prefetched \in [Slots -> BOOLEAN]
  /\ clock \in Nat
  /\ stats \in [acquired : Nat, hits : Nat, in_flight : Nat, misses : Nat,
                prefetched : Nat, prefetch_used : Nat]
  /\ queue \in Seq(Slots)
  /\ closing \in BOOLEAN
  /\ buf \in [Slots -> Places \cup {NoPlace}]
  /\ wpc \in [Workers -> {"ready", "asleep", "reading", "read", "stopped"}]
  /\ job \in [Workers -> [slot : Slots, place : Places \cup {NoPlace}, ok : BOOLEAN]]
  /\ pc \in {"idle", "hold", "hold_asleep", "hold_woken", "holding", "prefetch", "due",
             "wait_asleep", "wait_woken", "joining", "closed"}
  /\ todo \in Seq(Places)
  /\ batch \in SUBSET Places
  /\ held \in [Places -> Nat]

Busy(w) == wpc[w] \in {"reading", "read"}

\* The slots' places and the places' slots are one table, and a slot with no
\* place is an empty one that nobody holds (expert_stream.c:132-141,362-373).
TableOK ==
  /\ \A p \in Places : where[p] # None => place[where[p]] = p
  /\ \A i \in Slots : place[i] # NoPlace => where[place[i]] = i
  /\ \A i \in Slots : place[i] = NoPlace <=> state[i] = "EMPTY"
  /\ \A i \in Slots : state[i] = "EMPTY" => users[i] = 0

\* Each slot marked as being read is waited on by exactly one entry of the
\* queue or one worker, and nothing else is: no read is lost, none is done
\* twice, and the ring of n_slots entries never overflows, whichever way the
\* workers and the caller interleave (expert_stream.c:179-205,362-373,391-395).
ReadsOnce ==
  LET queued == {queue[n] : n \in DOMAIN queue}
      taken == {job[w].slot : w \in {v \in Workers : Busy(v)}}
  IN  /\ Distinct(queue)
      /\ \A v, w \in Workers : Busy(v) /\ Busy(w) /\ v # w => job[v].slot # job[w].slot
      /\ queued \cap taken = {}
      /\ queued \cup taken = {i \in Slots : state[i] = "READING"}
      /\ \A w \in Workers : Busy(w) => place[job[w].slot] = job[w].place

\* A slot's users are the holds of its place, the caller's and its batch's,
\* and a place without a slot is held by nobody.  So a wait that fails has
\* taken back every hold of its batch (expert_stream.c:440-456).
UsersAreHolds ==
  \A p \in Places :
    IF where[p] = None THEN held[p] = 0 /\ p \notin batch
    ELSE users[where[p]] = held[p] + (IF p \in batch THEN 1 ELSE 0)

\* What wait or hold_ready handed out is read, holds the place's own bytes,
\* and no worker is writing there (expert_stream.h:94-100,117-124).
HeldIsReadable ==
  \A p \in Places : held[p] > 0 =>
    /\ where[p] # None
    /\ state[where[p]] = "READY"
    /\ buf[where[p]] = p
    /\ \A w \in Workers : Busy(w) => job[w].slot # where[p]

\* While it is held a place stays in its slot, and its bytes stay as they
\* are (expert_stream.h:96 "They stay where they are until released").
HeldStaysPut ==
  [][\A p \in Places : held[p] > 0 /\ held'[p] > 0 =>
       where'[p] = where[p] /\ buf'[where[p]] = buf[where[p]]]_vars

\* Halving keeps every count of uses below twice the period, far from the
\* end of its 32 bits, however long the stream runs (expert_stream.c:381-384).
UsesBounded ==
  \A p \in Places : uses[p] < HalveEvery + (stats.acquired % HalveEvery)

\* A call that has begun returns, so a wait is never starved by what is held
\* for copies or prefetched; close returns too, with reads still queued.
CallsReturn ==
  /\ (pc # "idle") ~> (pc \in {"idle", "closed"})
  /\ (batch # {}) ~> (batch = {})

-----------------------------------------------------------------------------
\* The stream is an ExpertCache: the resident places are those of the READY
\* slots, and what the caller is shown is what its slot's memory holds
\* (expert_stream.h:94-124).
Cache == INSTANCE ExpertCache WITH
  resident <- {p \in Places : where[p] # None /\ state[where[p]] = "READY"},
  wanted <- batch,
  shown <- [p \in Places |-> IF held[p] > 0 THEN buf[where[p]] ELSE NoPlace]

ImplementsCache == Cache!Spec

=============================================================================
