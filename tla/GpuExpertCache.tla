--------------------------- MODULE GpuExpertCache ---------------------------
(***************************************************************************)
(* The expert cache on the GPU (engine/src/model_cuda.cu): slots of device *)
(* memory, each with an expert's weights.  The host thread decides which   *)
(* expert goes where and only queues work: copies into slots on one        *)
(* stream, kernels that read slots on another.  Each stream runs its work  *)
(* in order, at any time later.  Events tie them together: `filled` makes  *)
(* a kernel wait for a copy, and `done` tells the host that a copy's       *)
(* source, which the expert stream holds for it, can be released.          *)
(*                                                                         *)
(* The host's calls are vitna_cuda_moe_experts, a token's experts at one   *)
(* layer; the same with the experts the device lacks split between the     *)
(* CPU and the bus (moe_experts_split); and vitna_cuda_moe_rows_experts,   *)
(* the experts of many tokens, in waves that fit the cache.  A token's     *)
(* experts are one wave.  Which of the slots that may be given up is, and  *)
(* how many experts the CPU takes, depend on counts and times: here any.   *)
(* Of the expert stream only its promise is used: a source that is held    *)
(* stays as it is, one that is not may be read over (ExpertCache).         *)
(***************************************************************************)
EXTENDS Integers, Sequences, FiniteSets, FiniteSetsExt

CONSTANTS
  NLayers,     \* the model's layers
  Experts,     \* the experts of a layer
  K,           \* n_used: the experts a token goes through at a layer
  Slots,       \* the slots of the device's cache
  Openings,    \* the ways the model may be opened: see opened
  PMax,        \* p_max: the most sources held for copies when a batch is held
  PendingMax,  \* PENDING_MAX: entries of the ring of copies under way
  NoPlace,     \* the -1 of an empty slot
  NoSlot,      \* the -1 of a place in no slot
  Failures,    \* the calls to the device that may fail: "fill", "launch"
  MaxQueued    \* bound of the model: copies still queued when a call begins

Layers == 0 .. NLayers - 1
Places == Layers \X Experts
PlacesAt(l) == {l} \X Experts

ASSUME CacheAssumption ==
  /\ NLayers \in Nat \ {0} /\ K \in Nat \ {0}
  /\ IsFiniteSet(Experts) /\ Cardinality(Experts) >= K
  /\ IsFiniteSet(Slots) /\ Cardinality(Slots) >= 2 * K
  /\ Openings \subseteq [streamed : BOOLEAN, cpu : BOOLEAN, rows : BOOLEAN]
  /\ PMax \in 0 .. PendingMax /\ PendingMax \in Nat \ {0}
  /\ NoPlace \notin Layers \X Experts /\ NoSlot \notin Slots
  /\ Failures \subseteq {"fill", "launch"} /\ MaxQueued \in Nat

VARIABLES
  opened,   \* whether experts are streamed or mapped, the CPU takes a share, and rows may be run
  place,    \* slots[s].place
  where,    \* the slot holding each place, or NoSlot
  held,     \* slots[s].held: the slots not to be given up now
  filling,  \* slots[s].filling: a copy is not known to have finished
  bytes,    \* whose weights are in each slot; NoPlace when nobody's
  copies,   \* the copy stream's work: slots, and whose weights go there
  kernels,  \* the kernel stream's work: what it reads, and the copies it waits for
  pending,  \* the ring: places, and the copies until each is done
  users,    \* how often the expert stream holds each place for this cache
  pc,       \* where the host thread is
  call      \* its locals: see CallOf

queues == <<copies, kernels, pending, users>>
table  == <<place, where, held, filling>>
vars   == <<opened, place, where, held, filling, bytes, copies, kernels, pending, users, pc, call>>

\* The locals of a call: rows is whether it is of many tokens; want the
\* places of later waves, wave those of this one not yet looked at, missing
\* those the device lacks, cpu those of them the CPU runs, use the slots to
\* run and what they should hold, ahead the guess at the next layer, cur the
\* place whose copy waits for room in the ring.
CallOf(l, r, ids, first, guess) ==
  [layer |-> l, rows |-> r, want |-> ids \ first, wave |-> first, missing |-> {},
   cpu |-> {}, use |-> {}, ahead |-> guess, cur |-> NoPlace]

\* Between calls: the layer the next is for.
Rest(l, r) == CallOf(l, r, {}, {}, {})

Init ==
  /\ opened \in Openings
  /\ place = [s \in Slots |-> NoPlace]
  /\ where = [p \in Places |-> NoSlot]
  /\ held = [s \in Slots |-> FALSE]
  /\ filling = [s \in Slots |-> FALSE]
  /\ bytes = [s \in Slots |-> NoPlace]
  /\ copies = <<>> /\ kernels = <<>> /\ pending = <<>>
  /\ users = [p \in Places |-> 0]
  /\ pc = "idle"
  /\ call = Rest(0, FALSE)

-----------------------------------------------------------------------------
(* The device *)

Sooner(n) == IF n = 0 THEN 0 ELSE n - 1

\* The oldest copy finishes, and with it the events recorded behind it.
CopyDone ==
  /\ copies # <<>>
  /\ bytes' = [bytes EXCEPT ![Head(copies).slot] = Head(copies).place]
  /\ copies' = Tail(copies)
  /\ kernels' = [i \in DOMAIN kernels |-> [kernels[i] EXCEPT !.wait = Sooner(@)]]
  /\ pending' = [i \in DOMAIN pending |-> [pending[i] EXCEPT !.left = Sooner(@)]]
  /\ UNCHANGED <<opened, table, users, pc, call>>

\* The oldest kernel, its waits over, finishes.
KernelDone ==
  /\ kernels # <<>> /\ Head(kernels).wait = 0
  /\ kernels' = Tail(kernels)
  /\ UNCHANGED <<opened, table, bytes, copies, pending, users, pc, call>>

\* A copy into s is queued.  With the event `filled` of s a kernel waits for
\* the last of them.
CopiesTo(s) == {i \in DOMAIN copies : copies[i].slot = s}

-----------------------------------------------------------------------------
(* Sources *)

Once(S) == [p \in Places |-> IF p \in S THEN 1 ELSE 0]
Plus(f, g) == [p \in Places |-> f[p] + g[p]]
Less(f, g) == [p \in Places |-> f[p] - g[p]]

\* A copy still queued whose source nobody holds any more brings whatever is
\* read there next.
Spoilt(q, u) ==
  [i \in DOMAIN q |->
     IF opened.streamed /\ q[i].place \in Places /\ u[q[i].place] = 0
     THEN [q[i] EXCEPT !.place = NoPlace] ELSE q[i]]

\* vitna_expert_stream_release of the places S, once more copies are queued.
Release(S, queued) ==
  /\ users' = IF opened.streamed THEN Less(users, Once(S)) ELSE users
  /\ copies' = Spoilt(queued, users')

\* The finished copies at the ring's front.
Finished == {n \in 0 .. Len(pending) : \A i \in 1 .. n : pending[i].left = 0}

Oldest(n) == [p \in Places |-> Cardinality({i \in 1 .. n : pending[i].place = p})]

\* settle: every finished copy's source is released.
Settle ==
  /\ pending' = SubSeq(pending, Max(Finished) + 1, Len(pending))
  /\ users' = Less(users, Oldest(Max(Finished)))
  /\ copies' = Spoilt(copies, users')

-----------------------------------------------------------------------------
(* A call begins *)

Idle == pc = "idle"
Split == opened.cpu /\ ~call.rows

\* The most experts of a wave.
W == Cardinality(Slots) - K

\* Sets of a wave's size, or all that is left.
FirstOf(S) == {T \in SUBSET S : Cardinality(T) = IF Cardinality(S) < W THEN Cardinality(S) ELSE W}

\* A step's experts, and how many of its guess are copied ahead.
StepIds(l) == kSubset(K, PlacesAt(l))
StepGuesses(l) == UNION {kSubset(n, PlacesAt(l)) : n \in 0 .. (K + 1) \div 2}

\* The rows' experts at a layer: those of one token, or of several.
RowsIds(l) == {S \in SUBSET PlacesAt(l) : Cardinality(S) >= K}

Guesses(l, r) ==
  CASE l + 1 \notin Layers -> {{}}
    [] l + 1 \in Layers /\ r -> SUBSET PlacesAt(l + 1)
    [] OTHER -> StepGuesses(l + 1)

\* vitna_cuda_moe_route, vitna_cuda_moe_rows_route: the host waits for the
\* kernel stream, so every earlier layer's kernels are done.
Synchronised == kernels = <<>>

\* A layer is routed, and its experts are to be run: the layer after the
\* last call's, or the first one's of another pass.
Begin(l, r) ==
  /\ Idle /\ Synchronised /\ Len(copies) <= MaxQueued
  /\ l \in {0, call.layer}
  /\ IF l = 0 THEN r => opened.rows ELSE r = call.rows
  /\ \E ids \in IF r THEN RowsIds(l) ELSE StepIds(l), guess \in Guesses(l, r) :
       \E first \in FirstOf(ids) : call' = CallOf(l, r, ids, first, guess)
  /\ Settle
  /\ pc' = "visit"
  /\ UNCHANGED <<opened, table, bytes, kernels>>

-----------------------------------------------------------------------------
(* Where the host is in "run": what is left to do decides *)

Unheld == [s \in Slots |-> FALSE]

\* Every copy of the batch is queued: what is missing is the CPU's.
Copied == pc = "run" /\ call.missing \subseteq call.cpu

\* And the wave's kernels are to be queued, or all are.
Launching == Copied /\ call.wave = {} /\ call.use # {}
Launched == Copied /\ call.wave = {} /\ call.use = {}

\* The last wave's are: the guess is next.
Guessing == Launched /\ call.want = {}

\* The wave before is finished by the device, and its slots can be given up.
NextWave ==
  /\ Launched /\ call.want # {} /\ kernels = <<>>
  /\ \E first \in FirstOf(call.want) :
       call' = [call EXCEPT !.wave = first, !.want = @ \ first]
  /\ held' = Unheld
  /\ pc' = "visit"
  /\ UNCHANGED <<opened, place, where, filling, bytes, queues>>

-----------------------------------------------------------------------------
(* The experts the device holds, and those it lacks *)

\* Where the host goes with what is missing: to hold it in the stream or,
\* with nothing missing or the file mapped, on.
Fetch(missing) == IF missing # {} /\ opened.streamed THEN "drain" ELSE "run"

\* The parts of a wave the host looks at before it fetches: all of it, or as
\* far as the first K that are missing.
Lacks(S) == {p \in S : where[p] = NoSlot}
Batches ==
  {S \in SUBSET call.wave :
     \/ Cardinality(Lacks(S)) = K
     \/ S = call.wave /\ Cardinality(Lacks(S)) < K}

\* Experts are looked at.  The slots of those the device holds are held, and
\* for each still filling the host asks whether the copy has finished: it
\* has in seen, and may have since in others.
Look(S, seen) ==
  LET has == S \ Lacks(S)
      slots == {where[p] : p \in has}
  IN  /\ seen \subseteq {s \in slots : filling[s] /\ CopiesTo(s) = {}}
      /\ held' = [s \in Slots |-> held[s] \/ s \in slots]
      /\ filling' = [s \in Slots |-> filling[s] /\ s \notin seen]
      /\ call' = [call EXCEPT !.wave = @ \ S, !.missing = Lacks(S),
                              !.use = @ \cup {<<where[p], p>> : p \in has}]

Visit ==
  /\ pc = "visit" \/ (Copied /\ call.wave # {})
  /\ \E S \in Batches, seen \in SUBSET Slots : Look(S, seen)
  /\ pc' = IF Split THEN "share" ELSE Fetch(call'.missing)
  /\ UNCHANGED <<opened, place, where, bytes, queues>>

\* The kernels' waits for the slots in use that are still being filled.
Latest(use) ==
  Max({0} \cup UNION {CopiesTo(u[1]) : u \in {v \in use : filling[v[1]]}})

\* Mutant: kernels start without waiting for a slot's copy.
StartAtOnce(use) == Append(kernels, [reads |-> use, wait |-> 0])

\* Kernels that read these slots are queued.
Start(use) == Append(kernels, [reads |-> use, wait |-> Latest(use)])

\* moe_experts_split: the CPU takes a share of the missing, and the kernels
\* of the experts whose copies have finished begin.
SplitShare ==
  LET ready == {u \in call.use : ~filling[u[1]]} IN
  /\ pc = "share"
  /\ \E share \in SUBSET call.missing : call' = [call EXCEPT !.cpu = share]
  /\ kernels' = IF ready = {} THEN kernels ELSE Start(ready)
  /\ pc' = Fetch(call.missing)
  /\ UNCHANGED <<opened, table, bytes, copies, pending, users>>

-----------------------------------------------------------------------------
(* Failure *)

\* Mutant: a failing copy's source is released, those of the copies not yet
\* made are not.
ReleaseOne(queued, p) == Release({p} \ {NoPlace}, queued)

\* The call fails: the source of the copy that failed and those of the
\* copies not yet made are released.
ReleaseRest(queued, p) == Release((call.missing \cup {p}) \ {NoPlace}, queued)

-----------------------------------------------------------------------------
(* The missing are held in the expert stream *)

\* drain: the oldest copies are waited for until p_max are left.
Drain ==
  /\ pc = "drain" /\ Len(pending) > PMax /\ Head(pending).left = 0
  /\ Release({Head(pending).place}, copies)
  /\ pending' = Tail(pending)
  /\ UNCHANGED <<opened, table, bytes, kernels, pc, call>>

\* vitna_expert_stream_hold, which counts the batch's users as it goes.
Hold ==
  /\ pc = "drain" /\ Len(pending) <= PMax
  /\ users' = Plus(users, Once(call.missing))
  /\ pc' = "wait"
  /\ UNCHANGED <<opened, table, bytes, copies, kernels, pending, call>>

\* vitna_expert_stream_wait returns true.
Arrived ==
  /\ pc = "wait"
  /\ pc' = "run"
  /\ UNCHANGED <<opened, table, bytes, queues, call>>

\* It returns false, having released the batch; kernels begun go on.
ReadFails ==
  /\ pc = "wait"
  /\ Release(call.missing, copies)
  /\ held' = Unheld
  /\ pc' = "idle" /\ call' = Rest(0, call.rows)
  /\ UNCHANGED <<opened, place, where, filling, bytes, kernels, pending>>

-----------------------------------------------------------------------------
(* Copies *)

\* free_slot: an empty slot, or else one that is not held.
FreeSlots ==
  LET free == {s \in Slots : ~held[s]}
      empty == {s \in free : place[s] = NoPlace}
  IN  IF empty # {} THEN empty ELSE free

\* Mutant: the place that was in s is not told.
MovedOnly(s, p) == [where EXCEPT ![p] = s]

\* The table with s given to p.
Moved(s, p) ==
  [q \in Places |-> IF q = p THEN s ELSE IF q = place[s] THEN NoSlot ELSE where[q]]

\* The ring's next entry, done when all that is queued is.
Entry(p, n) == [place |-> p, left |-> n]

\* fill: slot s is given to p, and the copy queued; locals is the call after
\* it.  With the ring full the host waits for its oldest copy (RingFull).
Fill(s, p, locals) ==
  LET full == opened.streamed /\ Len(pending) = PendingMax IN
  /\ place' = [place EXCEPT ![s] = p]
  /\ where' = Moved(s, p)
  /\ held' = [held EXCEPT ![s] = TRUE]
  /\ filling' = [filling EXCEPT ![s] = TRUE]
  /\ copies' = Append(copies, [slot |-> s, place |-> p])
  /\ pending' = IF opened.streamed /\ ~full THEN Append(pending, Entry(p, Len(copies'))) ELSE pending
  /\ call' = IF full THEN [locals EXCEPT !.cur = p] ELSE locals
  /\ pc' = IF full THEN "full" ELSE pc

\* A batch's copy.  There always is a slot for it (RoomForReads), so that
\* moe_experts_split never has to give it to the CPU for want of one.
FillMissing(s, p) ==
  /\ pc = "run" /\ p \in call.missing \ call.cpu /\ s \in FreeSlots
  /\ Fill(s, p, [call EXCEPT !.missing = @ \ {p}, !.use = @ \cup {<<s, p>>}])
  /\ UNCHANGED <<opened, bytes, kernels, users>>

\* fill, its drain: the oldest copy is done, and its entry is the new one's.
RingFull ==
  /\ pc = "full" /\ Head(pending).left = 0
  /\ Release({Head(pending).place}, copies)
  /\ pending' = Append(Tail(pending), Entry(call.cur, Len(copies)))
  /\ call' = [call EXCEPT !.cur = NoPlace]
  /\ pc' = "run"
  /\ UNCHANGED <<opened, table, bytes, kernels>>

\* fill fails, before the copy was queued or after: the slot is emptied,
\* and the call fails.
FillFails(s, p) ==
  /\ "fill" \in Failures
  /\ pc = "run" /\ p \in call.missing \ call.cpu /\ s \in FreeSlots
  /\ place' = [place EXCEPT ![s] = NoPlace]
  /\ where' = [Moved(s, p) EXCEPT ![p] = NoSlot]
  /\ filling' = [filling EXCEPT ![s] = TRUE]
  /\ held' = Unheld
  /\ \E queued \in {copies, Append(copies, [slot |-> s, place |-> p])} : ReleaseRest(queued, p)
  /\ pc' = "idle" /\ call' = Rest(0, call.rows)
  /\ UNCHANGED <<opened, bytes, kernels, pending>>

\* Its drain fails, the copy queued: the same.
RingFails ==
  /\ "fill" \in Failures
  /\ pc = "full"
  /\ place' = [place EXCEPT ![where[call.cur]] = NoPlace]
  /\ where' = [where EXCEPT ![call.cur] = NoSlot]
  /\ held' = Unheld
  /\ ReleaseRest(copies, call.cur)
  /\ pc' = "idle" /\ call' = Rest(0, call.rows)
  /\ UNCHANGED <<opened, filling, bytes, kernels, pending>>

-----------------------------------------------------------------------------
(* The kernels *)

\* A step's experts are run at once; the rows' one by one, or with
\* --precision fast many to a launch.
Portions == IF call.rows THEN {call.use} \cup {{u} : u \in call.use} ELSE {call.use}

Launch(some) ==
  /\ Launching
  /\ kernels' = Start(some)
  /\ call' = [call EXCEPT !.use = @ \ some]
  /\ UNCHANGED <<opened, table, bytes, copies, pending, users, pc>>

\* A launch, a wait of the kernels for a copy, or the host's for the oldest
\* copies fails; before the batch is held there is nothing to release.
LaunchFails ==
  /\ "launch" \in Failures
  /\ pc = "drain" \/ Launching
  /\ IF pc = "drain" THEN UNCHANGED <<users, copies>> ELSE ReleaseRest(copies, NoPlace)
  /\ held' = Unheld
  /\ pc' = "idle" /\ call' = Rest(0, call.rows)
  /\ UNCHANGED <<opened, place, where, filling, bytes, kernels, pending>>

-----------------------------------------------------------------------------
(* The guess, and the return *)

\* Mutant: as many guesses as there are slots for.
AnyRoom == TRUE

\* A guess is copied only while the ring has fewer than p_max.
RoomAhead == Len(pending) < PMax

\* A guessed expert the device lacks, from memory that has it now.
GuessCopy(s, p) ==
  /\ Guessing /\ p \in call.ahead /\ where[p] = NoSlot /\ s \in FreeSlots
  /\ opened.streamed => RoomAhead
  /\ users' = IF opened.streamed THEN Plus(users, Once({p})) ELSE users
  /\ Fill(s, p, [call EXCEPT !.ahead = @ \ {p}])
  /\ UNCHANGED <<opened, bytes, kernels>>

\* The guess's copy fails, which lets go of its own source.
GuessFails(s, p) ==
  /\ "fill" \in Failures
  /\ Guessing /\ p \in call.ahead /\ where[p] = NoSlot /\ s \in FreeSlots
  /\ opened.streamed => RoomAhead
  /\ place' = [place EXCEPT ![s] = NoPlace]
  /\ where' = Moved(s, NoPlace)
  /\ filling' = [filling EXCEPT ![s] = TRUE]
  /\ held' = Unheld
  /\ \E queued \in {copies, Append(copies, [slot |-> s, place |-> p])} :
       ReleaseRest(queued, NoPlace)
  /\ pc' = "idle" /\ call' = Rest(0, call.rows)
  /\ UNCHANGED <<opened, bytes, kernels, pending>>

\* One the device holds, or that the stream has not read, is passed over.
GuessSkip(p) ==
  /\ Guessing /\ p \in call.ahead
  /\ where[p] # NoSlot \/ opened.streamed
  /\ call' = [call EXCEPT !.ahead = @ \ {p}]
  /\ UNCHANGED <<opened, table, bytes, queues, pc>>

\* No slot is left for the guesses.
GuessNone ==
  /\ Guessing /\ call.ahead # {} /\ FreeSlots = {}
  /\ call' = [call EXCEPT !.ahead = {}]
  /\ UNCHANGED <<opened, table, bytes, queues, pc>>

\* The CPU has run its share, whose sources are released, and the call
\* returns with no slot held.
Return ==
  /\ Guessing /\ call.ahead = {}
  /\ Release(call.missing, copies)
  /\ held' = Unheld
  /\ pc' = "idle"
  /\ call' = Rest((call.layer + 1) % NLayers, call.rows)
  /\ UNCHANGED <<opened, place, where, filling, bytes, kernels, pending>>

\* free_experts: the copies are waited for and their sources released.
Free ==
  /\ Idle /\ copies = <<>>
  /\ users' = Less(users, Oldest(Len(pending)))
  /\ pending' = <<>>
  /\ pc' = "freed"
  /\ UNCHANGED <<opened, table, bytes, copies, kernels, call>>

Terminated == pc = "freed" /\ UNCHANGED vars

-----------------------------------------------------------------------------
Device == CopyDone \/ KernelDone

Copy ==
  \/ \E s \in Slots, p \in Places : FillMissing(s, p) \/ FillFails(s, p)
  \/ RingFull \/ RingFails

Guess ==
  \/ \E s \in Slots, p \in Places : GuessCopy(s, p) \/ GuessFails(s, p)
  \/ \E p \in Places : GuessSkip(p)
  \/ GuessNone

Host ==
  \/ NextWave \/ Visit \/ SplitShare \/ Drain \/ Hold \/ Arrived \/ ReadFails \/ Copy
  \/ \E some \in Portions : Launch(some)
  \/ LaunchFails \/ Guess \/ Return

Next ==
  \/ \E l \in Layers, r \in BOOLEAN : Begin(l, r)
  \/ Host \/ Device \/ Free \/ Terminated

Spec == Init /\ [][Next]_vars

-----------------------------------------------------------------------------
(* Properties *)

Work == [slot : Slots, place : Places \cup {NoPlace}]

\* The variables have their types.
TypeOK ==
  /\ opened \in Openings
  /\ pc \in {"idle", "visit", "share", "drain", "wait", "run", "full", "freed"}
  /\ place \in [Slots -> Places \cup {NoPlace}]
  /\ where \in [Places -> Slots \cup {NoSlot}]
  /\ held \in [Slots -> BOOLEAN] /\ filling \in [Slots -> BOOLEAN]
  /\ bytes \in [Slots -> Places \cup {NoPlace}]
  /\ copies \in Seq(Work)
  /\ \A i \in DOMAIN kernels : kernels[i].wait \in 0 .. Len(copies)
  /\ \A i \in DOMAIN pending : pending[i].left \in 0 .. Len(copies)
  /\ Len(pending) <= PendingMax
  /\ users \in [Places -> Nat]

\* A kernel that may run reads slots that hold the experts it was queued
\* for, and no copy into them is queued or under way: not the copy it waited
\* for, which is done, nor one for another expert (model_cuda.cu:4652-4656).
ReadsRight ==
  \A i \in DOMAIN kernels : kernels[i].wait = 0 =>
    \A u \in kernels[i].reads : bytes[u[1]] = u[2] /\ CopiesTo(u[1]) = {}

\* What a call has held in the stream and not given to a copy.
InHand ==
  IF pc \in {"wait", "run", "full"}
  THEN (call.missing \cup {call.cur}) \ {NoPlace} ELSE {}

\* Every hold of this cache's in the expert stream is owed to a copy in the
\* ring or to the call under way, and to one of them only: whichever calls
\* fail, none is forgotten, which would starve the stream in the end, and
\* none is released twice (model_cuda.cu:4189-4201,4236-4272,4526-4530).
HoldsAreOwed ==
  \A p \in Places :
    users[p] = (IF opened.streamed /\ p \in InHand THEN 1 ELSE 0)
                 + Cardinality({i \in DOMAIN pending : pending[i].place = p})

\* The stream has room for a batch when it is held: no more than p_max
\* places are held for copies, and at no time has the stream more holds, each
\* owed to the ring or to the call, than p_max and a batch
\* (model_cuda.cu:277,3582-3586).  And an expert to be copied in finds a slot
\* not held, whatever earlier calls did: without one the code would fill
\* slots[-1] (model_cuda.cu:4724,5149).
RoomForReads ==
  /\ pc = "wait" => Len(pending) <= PMax
  /\ opened.streamed => Len(pending) + Cardinality(InHand) <= PMax + K
  /\ pc = "run" /\ ~Copied => FreeSlots # {}

\* A slot that the table says holds an expert does, once the copies into it
\* are done, and the two tables are each other's inverse.
TableTrue ==
  /\ \A p \in Places : where[p] # NoSlot => place[where[p]] = p
  /\ \A s \in Slots : place[s] # NoPlace => where[place[s]] = s
  /\ \A s \in Slots : place[s] # NoPlace /\ CopiesTo(s) = {} => bytes[s] = place[s]
=============================================================================
