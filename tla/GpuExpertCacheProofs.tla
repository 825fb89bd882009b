------------------------ MODULE GpuExpertCacheProofs ------------------------
(***************************************************************************)
(* Proofs about GpuExpertCache, for every number of layers, experts, slots *)
(* and ring entries, however the model is opened and whichever calls fail. *)
(***************************************************************************)
EXTENDS GpuExpertCache, SequenceTheorems, FiniteSetTheorems, WellFoundedInduction, TLAPS

-----------------------------------------------------------------------------
(* The inductive invariant.  That a kernel reads the right bytes rests on a   *)
(* slot's last copy being that of the expert the table names; that this copy  *)
(* is not spoilt, on the ring or the call holding its source until it is      *)
(* done; and that no slot a kernel reads is given away, on held.              *)

Resting == pc \in {"idle", "freed"}

\* The queues and the call's locals have their types, besides TypeOK.
Kernels == [reads : SUBSET (Slots \X Places), wait : Nat]
Entries == [place : Places, left : Nat]
Calls ==
  [layer : Layers, rows : BOOLEAN, want : SUBSET Places, wave : SUBSET Places,
   missing : SUBSET Places, cpu : SUBSET Places, use : SUBSET (Slots \X Places),
   ahead : SUBSET Places, cur : Places \cup {NoPlace}]

QueuesOK ==
  /\ TypeOK
  /\ kernels \in Seq(Kernels) /\ pending \in Seq(Entries) /\ call \in Calls

\* The two tables are each other's inverse.
TablesOK ==
  /\ \A p \in Places : where[p] # NoSlot => place[where[p]] = p
  /\ \A s \in Slots : place[s] # NoPlace => where[place[s]] = s

\* The locals of a call at each place of the host's; a step's experts are
\* one wave, and only a step has a share for the CPU.
CallOK ==
  /\ pc = "full" <=> call.cur # NoPlace
  /\ call.cur \notin call.missing
  /\ Resting => call = Rest(call.layer, call.rows) /\ held = Unheld
  /\ call.rows => call.cpu = {}
  /\ ~call.rows => call.want = {} /\ (pc # "visit" => call.wave = {})
  /\ pc = "visit" => call.missing = {} /\ call.cpu = {} /\ call.use = {}
  /\ pc = "share" => call.cpu = {} /\ ~call.rows
  /\ pc \in {"drain", "wait", "full"} => opened.streamed
  /\ \A p \in call.missing \ call.cpu : where[p] = NoSlot

\* The ring is used for streamed experts, and the host waits when it is full.
RingOK ==
  /\ pc = "full" => Len(pending) > 0
  /\ ~opened.streamed => Len(pending) = 0

\* What the call is to run is in the slots it holds.
UseOK == \A u \in call.use : place[u[1]] = u[2] /\ held[u[1]]

\* Until the call ends, the slots its kernels read are held and not those of
\* the copy that waits for the ring; and a kernel waits for every copy there.
KernelsOK ==
  \A n \in DOMAIN kernels : \A u \in kernels[n].reads :
    /\ place[u[1]] = u[2]
    /\ ~Resting => held[u[1]]
    /\ pc = "full" => u[2] # call.cur
    /\ \A i \in CopiesTo(u[1]) : i <= kernels[n].wait

\* The source of the copy i is held, for a place p, until the copy is done.
Covered(i, p) ==
  \/ \E j \in DOMAIN pending : pending[j].place = p /\ pending[j].left >= i
  \/ pc = "full" /\ call.cur = p

LastTo(s, i) == i \in CopiesTo(s) /\ \A j \in CopiesTo(s) : j <= i

\* A slot given to an expert has it, or is to have it from its last copy.
SlotTrue(s) ==
  place[s] # NoPlace =>
    /\ CopiesTo(s) = {} => bytes[s] = place[s]
    /\ \A i \in DOMAIN copies : LastTo(s, i) =>
         /\ copies[i].place = place[s]
         /\ opened.streamed => Covered(i, place[s])

BytesOK == \A s \in Slots : SlotTrue(s) /\ (CopiesTo(s) # {} => filling[s])

\* A step's wave, and any batch, are of K experts at most.
SizesOK ==
  /\ ~call.rows => Cardinality(call.wave) <= K
  /\ Cardinality(call.missing) <= K

\* While batches are copied, slots are held for what the wave has so far.
HeldSlots == {s \in Slots : held[s]}
Ahead == call.want = {} /\ call.wave = {} /\ call.missing \subseteq call.cpu /\ call.use = {}
RoomOK ==
  /\ Ahead \/ Cardinality(HeldSlots) + Cardinality(call.wave)
                + Cardinality(call.missing \ call.cpu) <= W
  /\ pc = "wait" => Len(pending) <= PMax
  /\ opened.streamed => Len(pending) + Cardinality(InHand) <= PMax + K

IInv ==
  /\ QueuesOK /\ TablesOK /\ CallOK /\ RingOK /\ UseOK /\ KernelsOK /\ BytesOK
  /\ HoldsAreOwed /\ SizesOK /\ RoomOK

-----------------------------------------------------------------------------
(* Numbers: the least and the greatest of a set. *)

LEMMA LeastNatural ==
  ASSUME NEW T \in SUBSET Nat, T # {}
  PROVE  \E m \in T : \A k \in T : m <= k
<1>. DEFINE R == OpToRel(<, Nat)
<1>1. IsWellFoundedOn(R, Nat)
  BY NatLessThanWellFounded
<1>2. \A x, y \in Nat : x < y => <<x, y>> \in R
  BY DEF OpToRel
<1>. HIDE DEF R
<1>3. \E x \in T : \A y \in T : ~ (<<y, x>> \in R)
  BY <1>1, WFMin
<1>4. PICK m \in T : \A k \in T : ~ (<<k, m>> \in R)
  BY <1>3
<1>5. ASSUME NEW k \in T PROVE m <= k
  <2>1. k \in Nat /\ m \in Nat /\ ~ (<<k, m>> \in R)
    BY <1>4
  <2>2. ~ (k < m)
    BY <2>1, <1>2
  <2>. QED  BY <2>1, <2>2
<1>. QED  BY <1>5

\* It is the least of the numbers above all of the set's.
LEMMA MaxIsMax ==
  ASSUME NEW n \in Nat, NEW S \in SUBSET (0 .. n), S # {}
  PROVE  Max(S) \in S /\ \A k \in S : k <= Max(S)
<1>. DEFINE U == {m \in Nat : \A y \in S : y <= m}
<1>1. PICK m \in U : \A k \in U : m <= k
  <2>1. n \in U
    OBVIOUS
  <2>2. U \in SUBSET Nat /\ U # {}
    BY <2>1
  <2>. HIDE DEF U
  <2>. QED  BY <2>2, LeastNatural
<1>2. m \in S
  <2>. SUFFICES ASSUME m \notin S PROVE FALSE
    OBVIOUS
  <2>1. \A y \in S : y \in Nat /\ y <= m - 1
    BY <1>1
  <2>2. PICK y \in S : y \in Nat /\ y <= m - 1
    BY <2>1
  <2>3. m - 1 \in Nat
    BY <2>2
  <2>4. m - 1 \in U
    BY <2>1, <2>3
  <2>. QED  BY <2>4, <1>1
<1>3. \E x \in S : \A y \in S : x >= y
  BY <1>1, <1>2
<1>4. Max(S) \in S /\ \A y \in S : Max(S) >= y
  BY <1>3 DEF Max
<1>. QED  BY <1>4

-----------------------------------------------------------------------------
(* The ring's entries, counted by place. *)

Owed(q, p) == Cardinality({i \in DOMAIN q : q[i].place = p})

LEMMA OwedType ==
  ASSUME NEW q \in Seq(Entries), NEW p
  PROVE  /\ IsFiniteSet({i \in DOMAIN q : q[i].place = p})
         /\ Owed(q, p) \in Nat
         /\ \A i \in DOMAIN q : q[i].place = p => Owed(q, p) > 0
<1>. DEFINE S == {i \in DOMAIN q : q[i].place = p}
<1>1. Len(q) \in Nat /\ DOMAIN q = 1 .. Len(q)
  BY LenProperties
<1>2. IsFiniteSet(1 .. Len(q))
  BY <1>1, FS_Interval
<1>3. S \in SUBSET (1 .. Len(q))
  BY <1>1
<1>4. IsFiniteSet(S)
  BY <1>2, <1>3, FS_Subset
<1>5. Cardinality(S) \in Nat /\ (Cardinality(S) = 0 <=> S = {})
  <2>. HIDE DEF S
  <2>. QED  BY <1>4, FS_CardinalityType, FS_EmptySet
<1>6. \A i \in DOMAIN q : q[i].place = p => S # {}
  OBVIOUS
<1>7. Owed(q, p) = Cardinality(S)
  BY DEF Owed
<1>. HIDE DEF S
<1>8. \A i \in DOMAIN q : q[i].place = p => Owed(q, p) > 0
  BY <1>5, <1>6, <1>7
<1>. QED  BY <1>4, <1>5, <1>7, <1>8 DEF S

\* Only the places count.
LEMMA OwedSame ==
  ASSUME NEW q, NEW r, NEW p, DOMAIN q = DOMAIN r,
         \A i \in DOMAIN q : q[i].place = r[i].place
  PROVE  Owed(q, p) = Owed(r, p)
<1>1. {i \in DOMAIN q : q[i].place = p} = {i \in DOMAIN r : r[i].place = p}
  OBVIOUS
<1>. QED  BY <1>1 DEF Owed

LEMMA OwedEmpty == ASSUME NEW p PROVE Owed(<<>>, p) = 0
<1>1. {i \in DOMAIN <<>> : <<>>[i].place = p} = {}
  OBVIOUS
<1>. QED  BY <1>1, FS_EmptySet DEF Owed

LEMMA OwedAppend ==
  ASSUME NEW q \in Seq(Entries), NEW e \in Entries, NEW p
  PROVE  Owed(Append(q, e), p) = Owed(q, p) + (IF e.place = p THEN 1 ELSE 0)
<1>. DEFINE r == Append(q, e)
            S == {i \in DOMAIN q : q[i].place = p}
            T == {i \in DOMAIN r : r[i].place = p}
            n == Len(q) + 1
<1>1. /\ Len(q) \in Nat /\ DOMAIN q = 1 .. Len(q) /\ DOMAIN r = 1 .. n
      /\ \A i \in 1 .. Len(q) : r[i] = q[i]
      /\ r[n] = e
  BY LenProperties, AppendProperties
<1>2. IsFiniteSet(S) /\ Cardinality(S) \in Nat
  BY OwedType DEF Owed
<1>3. n \notin S /\ T = IF e.place = p THEN S \cup {n} ELSE S
  BY <1>1
<1>. HIDE DEF S, T, n, r
<1>4. Cardinality(S \cup {n}) = Cardinality(S) + 1
  BY <1>2, <1>3, FS_AddElement
<1>5. Cardinality(T) = Cardinality(S) + (IF e.place = p THEN 1 ELSE 0)
  BY <1>2, <1>3, <1>4
<1>. QED  BY <1>5 DEF S, T, r, Owed

LEMMA RestOf ==
  ASSUME NEW S, NEW q \in Seq(S), NEW n \in 0 .. Len(q)
  PROVE  /\ SubSeq(q, n + 1, Len(q)) \in Seq(S)
         /\ Len(SubSeq(q, n + 1, Len(q))) = Len(q) - n
         /\ DOMAIN SubSeq(q, n + 1, Len(q)) = 1 .. (Len(q) - n)
         /\ \A i \in 1 .. (Len(q) - n) : SubSeq(q, n + 1, Len(q))[i] = q[n + i]
<1>. DEFINE r == SubSeq(q, n + 1, Len(q))
<1>1. Len(q) \in Nat /\ n \in Nat /\ n <= Len(q)
  BY LenProperties
<1>2. \A i \in (n + 1) .. Len(q) : q[i] \in S
  BY <1>1, ElementOfSeq
<1>3. n + 1 \in Int /\ Len(q) \in Int
  BY <1>1
<1>4. /\ r \in Seq(S)
      /\ Len(r) = IF n + 1 <= Len(q) THEN Len(q) - (n + 1) + 1 ELSE 0
      /\ \A i \in 1 .. Len(q) - (n + 1) + 1 : r[i] = q[n + 1 + i - 1]
  BY <1>2, <1>3, SubSeqProperties
<1>. HIDE DEF r
<1>5. Len(r) = Len(q) - n /\ DOMAIN r = 1 .. Len(r)
  BY <1>1, <1>4, LenProperties
<1>6. \A i \in 1 .. (Len(q) - n) : r[i] = q[n + i]
  BY <1>1, <1>4
<1>. QED  BY <1>4, <1>5, <1>6 DEF r

\* The first n entries and the rest.
LEMMA OwedRest ==
  ASSUME NEW q \in Seq(Entries), NEW n \in 0 .. Len(q), NEW p
  PROVE  Owed(q, p) = Cardinality({i \in 1 .. n : q[i].place = p})
                        + Owed(SubSeq(q, n + 1, Len(q)), p)
<1>. DEFINE r == SubSeq(q, n + 1, Len(q))
            A == {i \in 1 .. n : q[i].place = p}
            B == {i \in (n + 1) .. Len(q) : q[i].place = p}
            C == {i \in DOMAIN r : r[i].place = p}
            f == [i \in C |-> n + i]
<1>1. Len(q) \in Nat /\ DOMAIN q = 1 .. Len(q) /\ n \in Nat /\ n <= Len(q)
  BY LenProperties
<1>2. /\ r \in Seq(Entries) /\ DOMAIN r = 1 .. (Len(q) - n)
      /\ \A i \in 1 .. (Len(q) - n) : r[i] = q[n + i]
  BY RestOf
<1>3. IsFiniteSet(C)
  BY <1>2, OwedType
<1>4. f \in Bijection(C, B)
  <2>1. \A i \in C : n + i \in B
    BY <1>1, <1>2
  <2>2. f \in [C -> B]
    BY <2>1
  <2>3. \A i, j \in C : f[i] = f[j] => i = j
    BY <1>1, <1>2
  <2>4. \A k \in B : k - n \in C /\ f[k - n] = k
    BY <1>1, <1>2
  <2>5. \A k \in B : \E i \in C : f[i] = k
    BY <2>4
  <2>. HIDE DEF f, B, C
  <2>. QED  BY <2>2, <2>3, <2>5 DEF Bijection, Injection, Surjection, IsInjective
<1>5. IsFiniteSet(B) /\ Cardinality(B) = Cardinality(C)
  <2>1. ExistsBijection(C, B)
    BY <1>4 DEF ExistsBijection
  <2>. HIDE DEF B, C
  <2>. QED  BY <1>3, <2>1, FS_Bijection
<1>6. IsFiniteSet(A)
  <2>1. IsFiniteSet(1 .. n)
    BY <1>1, FS_Interval
  <2>2. A \in SUBSET (1 .. n)
    OBVIOUS
  <2>. HIDE DEF A
  <2>. QED  BY <2>1, <2>2, FS_Subset
<1>7. {i \in DOMAIN q : q[i].place = p} = A \cup B /\ A \cap B = {}
  BY <1>1
<1>. HIDE DEF A, B, C
<1>8. /\ Cardinality(A) \in Nat /\ Cardinality(B) \in Nat
      /\ Cardinality(A \cup B) = Cardinality(A) + Cardinality(B) - Cardinality(A \cap B)
  BY <1>5, <1>6, FS_Union, FS_CardinalityType
<1>9. Cardinality(A \cap B) = 0
  BY <1>7, FS_EmptySet
<1>10. Cardinality(A \cup B) = Cardinality(A) + Cardinality(C)
  BY <1>5, <1>8, <1>9
<1>. HIDE DEF r
<1>. QED  BY <1>7, <1>10 DEF A, C, Owed, r

LEMMA OwedTail ==
  ASSUME NEW q \in Seq(Entries), q # <<>>, NEW p
  PROVE  /\ Tail(q) \in Seq(Entries) /\ Head(q) \in Entries
         /\ Owed(q, p) = (IF Head(q).place = p THEN 1 ELSE 0) + Owed(Tail(q), p)
<1>1. Len(q) \in Nat /\ 1 \in 0 .. Len(q) /\ Tail(q) = SubSeq(q, 2, Len(q)) /\ Head(q) = q[1]
  BY TailIsSubSeq, EmptySeq
<1>2. Owed(q, p) = Cardinality({i \in 1 .. 1 : q[i].place = p})
                    + Owed(SubSeq(q, 1 + 1, Len(q)), p)
  BY <1>1, OwedRest
<1>3. {i \in 1 .. 1 : q[i].place = p} = IF q[1].place = p THEN {1} ELSE {}
  OBVIOUS
<1>4. Cardinality({i \in 1 .. 1 : q[i].place = p}) = IF q[1].place = p THEN 1 ELSE 0
  BY <1>3, FS_EmptySet, FS_Singleton
<1>5. Tail(q) \in Seq(Entries) /\ Head(q) \in Entries
  BY HeadTailProperties
<1>6. SubSeq(q, 1 + 1, Len(q)) = Tail(q)
  BY <1>1
<1>7. Owed(q, p) = (IF Head(q).place = p THEN 1 ELSE 0) + Owed(Tail(q), p)
  BY <1>1, <1>2, <1>4, <1>6
<1>. QED  BY <1>5, <1>7

-----------------------------------------------------------------------------
(* The constants, and the pieces of the state. *)

LEMMA Constants ==
  /\ IsFiniteSet(Places) /\ NoPlace \notin Places /\ NoSlot \notin Slots
  /\ IsFiniteSet(Slots) /\ Cardinality(Slots) \in Nat
  /\ K \in Nat \ {0} /\ PMax \in Nat /\ PendingMax \in Nat \ {0} /\ PMax <= PendingMax
  /\ W \in Nat /\ K <= W /\ W < Cardinality(Slots)
<1>1. IsFiniteSet(Layers)
  <2>1. 0 \in Int /\ NLayers - 1 \in Int
    BY CacheAssumption
  <2>. QED  BY <2>1, FS_Interval DEF Layers
<1>2. IsFiniteSet(Places)
  BY <1>1, CacheAssumption, FS_Product DEF Places
<1>3. Cardinality(Slots) \in Nat
  BY CacheAssumption, FS_CardinalityType
<1>. QED  BY <1>2, <1>3, CacheAssumption DEF W, Places

LEMMA PlacesFinite ==
  ASSUME NEW S \in SUBSET Places
  PROVE  IsFiniteSet(S) /\ Cardinality(S) \in Nat
BY Constants, FS_Subset, FS_CardinalityType

\* What the types say of the state's pieces.
LEMMA Pieces ==
  ASSUME QueuesOK
  PROVE  /\ copies \in Seq(Work) /\ Len(copies) \in Nat /\ DOMAIN copies = 1 .. Len(copies)
         /\ \A i \in 1 .. Len(copies) : copies[i] \in Work
         /\ kernels \in Seq(Kernels) /\ Len(kernels) \in Nat /\ DOMAIN kernels = 1 .. Len(kernels)
         /\ \A i \in 1 .. Len(kernels) : kernels[i] \in Kernels
         /\ pending \in Seq(Entries) /\ Len(pending) \in Nat /\ DOMAIN pending = 1 .. Len(pending)
         /\ \A i \in 1 .. Len(pending) : pending[i] \in Entries
<1>1. copies \in Seq(Work) /\ kernels \in Seq(Kernels) /\ pending \in Seq(Entries)
  BY DEF QueuesOK, TypeOK
<1>2. Len(copies) \in Nat /\ DOMAIN copies = 1 .. Len(copies)
  BY <1>1, LenProperties
<1>3. Len(kernels) \in Nat /\ DOMAIN kernels = 1 .. Len(kernels)
  BY <1>1, LenProperties
<1>4. Len(pending) \in Nat /\ DOMAIN pending = 1 .. Len(pending)
  BY <1>1, LenProperties
<1>5. \A i \in 1 .. Len(copies) : copies[i] \in Work
  BY <1>1, ElementOfSeq
<1>6. \A i \in 1 .. Len(kernels) : kernels[i] \in Kernels
  BY <1>1, ElementOfSeq
<1>7. \A i \in 1 .. Len(pending) : pending[i] \in Entries
  BY <1>1, ElementOfSeq
<1>. QED  BY <1>1, <1>2, <1>3, <1>4, <1>5, <1>6, <1>7

\* Spoiling changes no more than the place of a copy nobody holds.
LEMMA SpoiltShape ==
  ASSUME NEW q \in Seq(Work), NEW u
  PROVE  /\ Spoilt(q, u) \in Seq(Work) /\ Len(Spoilt(q, u)) = Len(q)
         /\ DOMAIN Spoilt(q, u) = DOMAIN q
         /\ \A i \in DOMAIN q :
              /\ Spoilt(q, u)[i].slot = q[i].slot
              /\ \/ Spoilt(q, u)[i] = q[i]
                 \/ opened.streamed /\ q[i].place \in Places /\ u[q[i].place] = 0
<1>. DEFINE e(i) == IF opened.streamed /\ q[i].place \in Places /\ u[q[i].place] = 0
                    THEN [q[i] EXCEPT !.place = NoPlace] ELSE q[i]
<1>1. Len(q) \in Nat /\ DOMAIN q = 1 .. Len(q) /\ \A i \in 1 .. Len(q) : q[i] \in Work
  BY LenProperties, ElementOfSeq
<1>2. \A i \in 1 .. Len(q) : e(i) \in Work /\ e(i).slot = q[i].slot
  BY <1>1 DEF Work
<1>3. Spoilt(q, u) = [i \in 1 .. Len(q) |-> e(i)]
  BY <1>1 DEF Spoilt
<1>4. [i \in 1 .. Len(q) |-> e(i)] \in Seq(Work)
  <2>. HIDE DEF e
  <2>. QED  BY <1>1, <1>2, IsASeq
<1>5. Len(Spoilt(q, u)) = Len(q)
  BY <1>1, <1>3, <1>4, LenProperties
<1>. QED  BY <1>1, <1>2, <1>3, <1>4, <1>5

\* What is settled at once is the ring's finished front.
LEMMA FrontFinished ==
  ASSUME QueuesOK
  PROVE  /\ Max(Finished) \in 0 .. Len(pending)
         /\ \A i \in 1 .. Max(Finished) : pending[i].left = 0
<1>1. Len(pending) \in Nat
  BY Pieces
<1>2. Finished \in SUBSET (0 .. Len(pending)) /\ 0 \in Finished
  BY <1>1 DEF Finished
<1>3. Max(Finished) \in Finished
  BY <1>1, <1>2, MaxIsMax
<1>. QED  BY <1>3 DEF Finished

-----------------------------------------------------------------------------
(* Every hold is owed once. *)

\* What the call owes of a place.
Mine(p) == IF opened.streamed /\ p \in InHand THEN 1 ELSE 0

LEMMA OwedForm ==
  /\ HoldsAreOwed <=> \A p \in Places : users[p] = Mine(p) + Owed(pending, p)
  /\ HoldsAreOwed' <=> \A p \in Places : users'[p] = Mine(p)' + Owed(pending', p)
BY DEF HoldsAreOwed, Mine, Owed, InHand

\* A release of places held in hand, which the call then owes no more.
LEMMA OwedRelease ==
  ASSUME IInv, NEW S \in SUBSET InHand, NEW q, Release(S, q), opened' = opened,
         pending' = pending, InHand' = InHand \ S
  PROVE  HoldsAreOwed'
<1>1. ASSUME NEW p \in Places PROVE users'[p] = Mine(p)' + Owed(pending', p)
  <2>1. users[p] = Mine(p) + Owed(pending, p) /\ Owed(pending, p) \in Nat
    BY OwedForm, OwedType, Pieces DEF IInv
  <2>2. CASE opened.streamed
    <3>1. users'[p] = users[p] - (IF p \in S THEN 1 ELSE 0)
      BY <2>2 DEF Release, Less, Once
    <3>. QED  BY <2>1, <2>2, <3>1 DEF Mine
  <2>3. CASE ~opened.streamed
    BY <2>1, <2>3 DEF Mine, Release
  <2>. QED  BY <2>2, <2>3
<1>. QED  BY <1>1, OwedForm

\* A hold is taken for the copy or the batch, or neither's changes.
LEMMA OwedSteady ==
  ASSUME IInv, opened' = opened, InHand' = InHand, users' = users, pending' = pending
  PROVE  HoldsAreOwed'
<1>1. \A p \in Places : Mine(p)' = Mine(p)
  BY DEF Mine
<1>2. \A p \in Places : users[p] = Mine(p) + Owed(pending, p)
  BY OwedForm DEF IInv
<1>. QED  BY <1>1, <1>2, OwedForm

\* The ring's oldest copy is done and released.
LEMMA OwedOldest ==
  ASSUME IInv, pending # <<>>, opened.streamed, NEW q,
         Release({Head(pending).place}, q), NEW p \in Places
  PROVE  users'[p] = Mine(p) + Owed(Tail(pending), p)
<1>1. users[p] = Mine(p) + Owed(pending, p)
  BY OwedForm DEF IInv
<1>2. pending \in Seq(Entries)
  BY Pieces DEF IInv
<1>3. /\ Owed(pending, p) = (IF Head(pending).place = p THEN 1 ELSE 0) + Owed(Tail(pending), p)
      /\ Owed(Tail(pending), p) \in Nat /\ Head(pending).place \in Places
  BY <1>2, OwedTail, OwedType DEF Entries
<1>4. users'[p] = users[p] - (IF p = Head(pending).place THEN 1 ELSE 0)
  BY DEF Release, Less, Once
<1>. QED  BY <1>1, <1>3, <1>4 DEF Mine

LEMMA OwedSettle ==
  ASSUME IInv, Settle, opened' = opened, InHand = {}, InHand' = {}
  PROVE  HoldsAreOwed'
<1>. DEFINE n == Max(Finished)
<1>1. pending \in Seq(Entries) /\ Len(pending) \in Nat
  BY Pieces DEF IInv
<1>2. n \in 0 .. Len(pending)
  BY FrontFinished DEF IInv
<1>3. pending' = SubSeq(pending, n + 1, Len(pending)) /\ users' = Less(users, Oldest(n))
  BY DEF Settle
<1>. HIDE DEF n
<1>4. ASSUME NEW p \in Places PROVE users'[p] = Mine(p)' + Owed(pending', p)
  <2>1. users[p] = Mine(p) + Owed(pending, p) /\ Mine(p) = 0 /\ Mine(p)' = 0
    BY OwedForm DEF IInv, Mine
  <2>2. /\ Owed(pending, p) = Cardinality({i \in 1 .. n : pending[i].place = p}) + Owed(pending', p)
        /\ Owed(pending, p) \in Nat /\ Owed(pending', p) \in Nat
    <3>1. pending' \in Seq(Entries)
      BY <1>1, <1>2, <1>3, RestOf
    <3>. QED  BY <1>1, <1>2, <1>3, <3>1, OwedRest, OwedType
  <2>3. users'[p] = users[p] - Cardinality({i \in 1 .. n : pending[i].place = p})
    BY <1>3 DEF Less, Oldest
  <2>4. Cardinality({i \in 1 .. n : pending[i].place = p}) \in Nat
    <3>1. IsFiniteSet(1 .. n)
      BY <1>2, FS_Interval
    <3>2. {i \in 1 .. n : pending[i].place = p} \in SUBSET (1 .. n)
      OBVIOUS
    <3>. QED  BY <3>1, <3>2, FS_Subset, FS_CardinalityType
  <2>. QED  BY <2>1, <2>2, <2>3, <2>4
<1>. QED  BY <1>4, OwedForm

\* fill gives the copy's source to the ring, or waits with it for room there.
LEMMA OwedFill ==
  ASSUME IInv, pc = "run", NEW s \in Slots, NEW p \in Places, NEW locals \in Calls,
         Fill(s, p, locals), opened' = opened, locals.cur = NoPlace,
         opened.streamed =>
           \/ users' = users /\ p \in call.missing /\ locals.missing = call.missing \ {p}
           \/ /\ users' = Plus(users, Once({p})) /\ locals.missing = call.missing
              /\ Len(pending) # PendingMax,
         ~opened.streamed => users' = users
  PROVE  HoldsAreOwed'
<1>. DEFINE full == opened.streamed /\ Len(pending) = PendingMax
            e == Entry(p, Len(copies'))
<1>1. call.cur = NoPlace /\ InHand = call.missing /\ NoPlace \notin Places
  BY Constants DEF IInv, CallOK, InHand, QueuesOK, Calls
<1>3. copies \in Seq(Work) /\ copies' \in Seq(Work) /\ e \in Entries
  <2>1. copies \in Seq(Work) /\ [slot |-> s, place |-> p] \in Work
    BY Pieces DEF IInv, Work
  <2>2. copies' \in Seq(Work)
    BY <2>1, AppendProperties DEF Fill
  <2>3. Len(copies') \in Nat
    BY <2>2, LenProperties
  <2>. QED  BY <2>1, <2>2, <2>3 DEF Entries, Entry
<1>4. pending \in Seq(Entries)
  BY Pieces DEF IInv
<1>5. pending' = IF opened.streamed /\ ~full THEN Append(pending, e) ELSE pending
  BY DEF Fill
<1>6. call' = (IF full THEN [locals EXCEPT !.cur = p] ELSE locals) /\ pc' = IF full THEN "full" ELSE "run"
  BY DEF Fill
<1>7. InHand' = IF full THEN (locals.missing \cup {p}) ELSE locals.missing
  BY <1>1, <1>6 DEF InHand, Calls
<1>. HIDE DEF e
<1>8. ASSUME NEW q \in Places PROVE users'[q] = Mine(q)' + Owed(pending', q)
  <2>1. users[q] = Mine(q) + Owed(pending, q) /\ Owed(pending, q) \in Nat
    BY <1>4, OwedForm, OwedType DEF IInv
  <2>2. CASE ~opened.streamed
    BY <1>5, <2>1, <2>2 DEF Mine
  <2>3. CASE full
    BY <1>1, <1>5, <1>7, <2>1, <2>3 DEF Mine
  <2>4. CASE opened.streamed /\ ~full
    <3>1. Owed(pending', q) = Owed(pending, q) + (IF q = p THEN 1 ELSE 0)
      BY <1>3, <1>4, <1>5, <2>4, OwedAppend DEF e, Entry
    <3>2. CASE users' = users /\ p \in call.missing /\ locals.missing = call.missing \ {p}
      BY <1>1, <1>7, <2>1, <2>4, <3>1, <3>2 DEF Mine
    <3>3. CASE users' = Plus(users, Once({p})) /\ locals.missing = call.missing
      <4>1. users'[q] = users[q] + (IF q = p THEN 1 ELSE 0)
        BY <3>3 DEF Plus, Once
      <4>2. Mine(q)' = Mine(q)
        BY <1>1, <1>7, <2>4, <3>3 DEF Mine
      <4>. QED  BY <2>1, <3>1, <4>1, <4>2 DEF Mine
    <3>. QED  BY <2>4, <3>2, <3>3
  <2>. QED  BY <2>2, <2>3, <2>4
<1>. QED  BY <1>8, OwedForm

\* The places of a failing call's release are those it owes.
LEMMA OwedFailure ==
  ASSUME IInv, NEW q, NEW p, pc = "full" \/ (pc = "run" /\ p = NoPlace) \/ p \in call.missing,
         p = call.cur \/ pc # "full", pc \in {"run", "full"},
         ReleaseRest(q, p), opened' = opened, pending' = pending, pc' = "idle"
  PROVE  HoldsAreOwed'
<1>1. InHand = (call.missing \cup {p}) \ {NoPlace} /\ InHand' = {}
  BY DEF IInv, CallOK, InHand
<1>. QED  BY <1>1, OwedRelease DEF ReleaseRest

LEMMA OwedHost ==
  ASSUME IInv, NextWave \/ Visit \/ SplitShare \/ Drain \/ Hold \/ Arrived \/ ReadFails
                 \/ LaunchFails \/ Return \/ Free
  PROVE  HoldsAreOwed'
<1>0. /\ NoPlace \notin Places /\ call \in Calls
      /\ pc # "full" => call.cur = NoPlace
      /\ pc = "visit" => call.missing = {}
      /\ \A p \in Places : users[p] = Mine(p) + Owed(pending, p)
      /\ pending \in Seq(Entries)
  BY Constants, OwedForm, Pieces DEF IInv, CallOK, QueuesOK
<1>1. CASE NextWave
  <2>1. call.missing = {}
    BY <1>1 DEF IInv, CallOK, NextWave, Launched, Copied
  <2>2. InHand = {} /\ InHand' = {}
    BY <1>0, <1>1, <2>1 DEF InHand, NextWave, Launched, Copied
  <2>. QED  BY <1>1, <2>2, OwedSteady DEF NextWave, queues
<1>2. CASE Visit
  <2>1. call.missing = {}
    BY <1>2 DEF IInv, CallOK, Visit, Copied
  <2>2. InHand = {}
    BY <1>0, <1>2, <2>1 DEF InHand, Visit, Copied
  <2>3. opened.streamed => InHand' = {}
    <3>1. PICK S \in Batches, seen \in SUBSET Slots : Look(S, seen)
      BY <1>2, SMTT(20) DEF Visit
    <3>2. call'.cur = NoPlace
      BY <1>0, <1>2, <3>1 DEF Look, Calls, Visit, Copied
    <3>3. opened.streamed => pc' \in {"share", "drain"} \/ (pc' = "run" /\ call'.missing = {})
      BY <1>2 DEF Visit, Fetch
    <3>. QED  BY <3>2, <3>3 DEF InHand
  <2>4. users' = users /\ pending' = pending /\ opened' = opened
    BY <1>2 DEF Visit, queues
  <2>5. \A p \in Places : Mine(p)' = Mine(p)
    BY <2>2, <2>3, <2>4 DEF Mine
  <2>. QED  BY <1>0, <2>4, <2>5, OwedForm
<1>3. CASE SplitShare
  <2>1. InHand = {} /\ (opened.streamed => InHand' = {})
    BY <1>0, <1>3 DEF InHand, SplitShare, Fetch, Calls
  <2>2. users' = users /\ pending' = pending /\ opened' = opened
    BY <1>3 DEF SplitShare
  <2>3. \A p \in Places : Mine(p)' = Mine(p)
    BY <2>1, <2>2 DEF Mine
  <2>. QED  BY <1>0, <2>2, <2>3, OwedForm
<1>4. CASE Drain
  <2>1. InHand = {} /\ InHand' = {} /\ opened' = opened /\ opened.streamed
    BY <1>4 DEF InHand, Drain, IInv, CallOK
  <2>2. pending # <<>> /\ pending' = Tail(pending)
    BY <1>0, <1>4, Constants, LenProperties, EmptySeq DEF Drain
  <2>3. \A p \in Places : users'[p] = Mine(p) + Owed(Tail(pending), p)
    BY <1>4, <2>1, <2>2, OwedOldest DEF Drain
  <2>. QED  BY <2>1, <2>2, <2>3, OwedForm DEF Mine
<1>5. CASE Hold
  <2>1. InHand = {} /\ InHand' = call.missing /\ opened' = opened /\ opened.streamed
    BY <1>0, <1>5 DEF InHand, Hold, IInv, CallOK, Calls
  <2>2. \A p \in Places : users'[p] = users[p] + (IF p \in call.missing THEN 1 ELSE 0)
    BY <1>5 DEF Hold, Plus, Once
  <2>3. pending' = pending
    BY <1>5 DEF Hold
  <2>4. ASSUME NEW p \in Places PROVE users'[p] = Mine(p)' + Owed(pending', p)
    <3>1. Owed(pending, p) \in Nat /\ users[p] = Mine(p) + Owed(pending, p)
      BY <1>0, OwedType
    <3>. QED  BY <2>1, <2>2, <2>3, <3>1 DEF Mine
  <2>. QED  BY <2>4, OwedForm
<1>6. CASE Arrived
  <2>1. InHand' = InHand
    BY <1>6 DEF InHand, Arrived
  <2>. QED  BY <1>6, <2>1, OwedSteady DEF Arrived, queues
<1>7. CASE ReadFails
  <2>1. InHand = call.missing /\ InHand' = {}
    BY <1>0, <1>7 DEF InHand, ReadFails, Calls
  <2>. QED  BY <1>7, <2>1, OwedRelease DEF ReadFails
<1>8. CASE LaunchFails
  <2>1. CASE pc = "drain"
    <3>1. InHand = {} /\ InHand' = {}
      BY <1>8, <2>1 DEF InHand, LaunchFails
    <3>. QED  BY <1>8, <2>1, <3>1, OwedSteady DEF LaunchFails
  <2>2. CASE pc = "run" /\ pc # "drain"
    BY <1>0, <1>8, <2>2, OwedFailure DEF LaunchFails
  <2>. QED  BY <1>8, <2>1, <2>2 DEF LaunchFails, Launching, Copied
<1>9. CASE Return
  <2>1. InHand = call.missing /\ InHand' = {}
    BY <1>0, <1>9 DEF InHand, Return, Guessing, Launched, Copied, Calls
  <2>. QED  BY <1>9, <2>1, OwedRelease DEF Return
<1>10. CASE Free
  <2>1. InHand = {} /\ InHand' = {}
    BY <1>10 DEF InHand, Free, Idle
  <2>2. ASSUME NEW p \in Places PROVE users'[p] = Mine(p)' + Owed(pending', p)
    <3>1. Len(pending) \in Nat /\ DOMAIN pending = 1 .. Len(pending)
      BY <1>0, LenProperties
    <3>2. users'[p] = users[p] - Owed(pending, p)
      BY <1>10, <3>1 DEF Free, Less, Oldest, Owed
    <3>3. Owed(pending, p) \in Nat /\ Owed(pending', p) = 0
      BY <1>0, <1>10, OwedType, OwedEmpty DEF Free
    <3>. QED  BY <1>0, <2>1, <3>2, <3>3 DEF Mine
  <2>. QED  BY <2>2, OwedForm
<1>. QED  BY <1>1, <1>2, <1>3, <1>4, <1>5, <1>6, <1>7, <1>8, <1>9, <1>10

LEMMA OwedCopies ==
  ASSUME IInv, Copy \/ Guess \/ (\E some \in Portions : Launch(some))
  PROVE  HoldsAreOwed'
<1>0. /\ NoPlace \notin Places /\ call \in Calls
      /\ pc # "full" => call.cur = NoPlace
      /\ pending \in Seq(Entries)
  BY Constants, Pieces DEF IInv, CallOK, QueuesOK
<1>1. ASSUME NEW s \in Slots, NEW p \in Places, FillMissing(s, p) PROVE HoldsAreOwed'
  <2>. DEFINE locals == [call EXCEPT !.missing = @ \ {p}, !.use = @ \cup {<<s, p>>}]
  <2>1. locals \in Calls /\ locals.cur = NoPlace /\ locals.missing = call.missing \ {p}
    <3>1. call.use \cup {<<s, p>>} \in SUBSET (Slots \X Places)
      BY <1>0 DEF Calls
    <3>. QED  BY <1>0, <1>1, <3>1 DEF Calls, FillMissing
  <2>2. Fill(s, p, locals) /\ pc = "run" /\ p \in call.missing /\ users' = users /\ opened' = opened
    BY <1>1 DEF FillMissing
  <2>. HIDE DEF locals
  <2>. QED  BY <2>1, <2>2, OwedFill
<1>2. ASSUME NEW s \in Slots, NEW p \in Places, FillFails(s, p) PROVE HoldsAreOwed'
  <2>1. PICK q : ReleaseRest(q, p)
    BY <1>2 DEF FillFails
  <2>. QED  BY <1>2, <2>1, OwedFailure DEF FillFails
<1>3. CASE RingFull
  <2>. DEFINE e == Entry(call.cur, Len(copies))
  <2>1. /\ call.cur \in Places /\ pending # <<>> /\ opened.streamed
        /\ opened' = opened /\ pc = "full" /\ pending' = Append(Tail(pending), e)
    BY <1>0, <1>3, EmptySeq DEF RingFull, IInv, CallOK, RingOK, Calls
  <2>2. InHand = call.missing \cup {call.cur} /\ InHand' = call.missing
    BY <1>0, <1>3, <2>1 DEF InHand, RingFull, Calls
  <2>3. call.cur \notin call.missing
    BY DEF IInv, CallOK
  <2>4. Tail(pending) \in Seq(Entries) /\ e \in Entries
    <3>1. Len(copies) \in Nat
      BY Pieces DEF IInv
    <3>. QED  BY <1>0, <2>1, <3>1, OwedTail DEF Entries, Entry
  <2>5. ASSUME NEW p \in Places PROVE users'[p] = Mine(p)' + Owed(pending', p)
    <3>1. users'[p] = Mine(p) + Owed(Tail(pending), p)
      BY <1>3, <2>1, OwedOldest DEF RingFull
    <3>2. Owed(pending', p) = Owed(Tail(pending), p) + (IF call.cur = p THEN 1 ELSE 0)
      <4>1. e.place = call.cur
        BY DEF Entry
      <4>. HIDE DEF e
      <4>2. Owed(Append(Tail(pending), e), p) = Owed(Tail(pending), p) + (IF e.place = p THEN 1 ELSE 0)
        BY <2>4, OwedAppend
      <4>. QED  BY <2>1, <4>1, <4>2
    <3>3. Owed(Tail(pending), p) \in Nat
      BY <2>4, OwedType
    <3>. QED  BY <2>1, <2>2, <2>3, <3>1, <3>2, <3>3 DEF Mine
  <2>. QED  BY <2>5, OwedForm
<1>4. CASE RingFails
  BY <1>4, OwedFailure DEF RingFails
<1>5. ASSUME NEW s \in Slots, NEW p \in Places, GuessCopy(s, p) PROVE HoldsAreOwed'
  <2>. DEFINE locals == [call EXCEPT !.ahead = @ \ {p}]
  <2>1. /\ locals \in Calls /\ locals.cur = NoPlace /\ locals.missing = call.missing
        /\ pc = "run" /\ opened' = opened /\ Fill(s, p, locals)
    BY <1>0, <1>5 DEF Calls, GuessCopy, Guessing, Launched, Copied
  <2>2. opened.streamed => Len(pending) # PendingMax
    BY <1>0, <1>5, Constants, LenProperties DEF GuessCopy, RoomAhead
  <2>3. users' = IF opened.streamed THEN Plus(users, Once({p})) ELSE users
    BY <1>5 DEF GuessCopy
  <2>. HIDE DEF locals
  <2>. QED  BY <2>1, <2>2, <2>3, OwedFill
<1>6. ASSUME NEW s \in Slots, NEW p \in Places, GuessFails(s, p) PROVE HoldsAreOwed'
  <2>1. PICK q : ReleaseRest(q, NoPlace)
    BY <1>6 DEF GuessFails
  <2>. QED  BY <1>6, <2>1, OwedFailure DEF GuessFails, Guessing, Launched, Copied
<1>7. CASE (\E p \in Places : GuessSkip(p)) \/ GuessNone \/ (\E some \in Portions : Launch(some))
  <2>1. UNCHANGED <<opened, users, pending, pc, call.missing, call.cur>>
    BY <1>0, <1>7 DEF GuessSkip, GuessNone, Launch, queues, Calls
  <2>. QED  BY <2>1, OwedSteady DEF InHand
<1>. QED  BY <1>1, <1>2, <1>3, <1>4, <1>5, <1>6, <1>7 DEF Copy, Guess

LEMMA OwedDevice ==
  ASSUME IInv, CopyDone \/ KernelDone
  PROVE  HoldsAreOwed'
<1>1. InHand' = InHand /\ opened' = opened /\ users' = users
  BY DEF InHand, CopyDone, KernelDone
<1>2. pending \in Seq(Entries) /\ DOMAIN pending = 1 .. Len(pending)
      /\ \A i \in DOMAIN pending : pending[i] \in Entries
  BY Pieces DEF IInv
<1>3. DOMAIN pending' = DOMAIN pending /\ \A i \in DOMAIN pending : pending'[i].place = pending[i].place
  BY <1>2 DEF CopyDone, KernelDone, Entries
<1>4. ASSUME NEW p \in Places PROVE users'[p] = Mine(p)' + Owed(pending', p)
  <2>1. Owed(pending', p) = Owed(pending, p)
    BY <1>3, OwedSame
  <2>2. users[p] = Mine(p) + Owed(pending, p)
    BY OwedForm DEF IInv
  <2>. QED  BY <1>1, <2>1, <2>2 DEF Mine
<1>. QED  BY <1>4, OwedForm

\* Every hold stays owed once.
LEMMA OwedNext ==
  ASSUME IInv, Next \/ UNCHANGED vars
  PROVE  HoldsAreOwed'
<1>1. ASSUME NEW l \in Layers, NEW r \in BOOLEAN, Begin(l, r) PROVE HoldsAreOwed'
  <2>1. InHand = {} /\ InHand' = {} /\ opened' = opened
    BY <1>1 DEF InHand, Begin, Idle
  <2>. QED  BY <1>1, <2>1, OwedSettle DEF Begin
<1>2. CASE UNCHANGED vars
  BY <1>2, OwedSteady DEF vars, InHand
<1>. QED  BY <1>1, <1>2, OwedHost, OwedCopies, OwedDevice DEF Next, Host, Device, Terminated

-----------------------------------------------------------------------------
(* Types. *)

LEMMA RestType ==
  ASSUME NEW l \in Layers, NEW r \in BOOLEAN
  PROVE  Rest(l, r) \in Calls
BY DEF Rest, CallOf, Calls

LEMMA CallType ==
  ASSUME IInv, Next \/ UNCHANGED vars
  PROVE  call' \in Calls
<1>0. call \in Calls /\ NLayers \in Nat \ {0} /\ 0 \in Layers
  BY CacheAssumption DEF IInv, QueuesOK, Layers
<1>1. ASSUME NEW l \in Layers, NEW r \in BOOLEAN, Begin(l, r) PROVE call' \in Calls
  <2>1. PICK ids \in IF r THEN RowsIds(l) ELSE StepIds(l), guess \in Guesses(l, r) :
               \E first \in FirstOf(ids) : call' = CallOf(l, r, ids, first, guess)
    BY <1>1 DEF Begin
  <2>2. PICK first \in FirstOf(ids) : call' = CallOf(l, r, ids, first, guess)
    BY <2>1
  <2>3. ids \in SUBSET PlacesAt(l)
    BY DEF RowsIds, StepIds, kSubset
  <2>4. PlacesAt(l) \subseteq Places
    BY DEF PlacesAt, Places
  <2>5. guess \in SUBSET Places
    <3>1. CASE l + 1 \notin Layers
      BY <3>1 DEF Guesses
    <3>2. CASE l + 1 \in Layers
      <4>1. guess \in SUBSET PlacesAt(l + 1)
        BY <3>2 DEF Guesses, StepGuesses, kSubset
      <4>. QED  BY <3>2, <4>1 DEF PlacesAt, Places
    <3>. QED  BY <3>1, <3>2
  <2>6. first \in SUBSET ids
    BY DEF FirstOf
  <2>7. NoPlace \in Places \cup {NoPlace}
    OBVIOUS
  <2>. QED  BY <2>2, <2>3, <2>4, <2>5, <2>6 DEF CallOf, Calls
<1>2. CASE NextWave
  <2>1. PICK first \in FirstOf(call.want) : call' = [call EXCEPT !.wave = first, !.want = @ \ first]
    BY <1>2 DEF NextWave
  <2>2. first \in SUBSET Places
    BY <1>0 DEF FirstOf, Calls
  <2>. QED  BY <1>0, <2>1, <2>2 DEF Calls
<1>3. CASE Visit
  <2>1. PICK S \in Batches, seen \in SUBSET Slots : Look(S, seen)
    BY <1>3 DEF Visit
  <2>2. S \in SUBSET call.wave /\ S \in SUBSET Places
    BY <1>0 DEF Batches, Calls
  <2>3. where \in [Places -> Slots \cup {NoSlot}]
    BY DEF IInv, QueuesOK, TypeOK
  <2>. DEFINE has == {<<where[p], p>> : p \in S \ Lacks(S)}
  <2>4. has \in SUBSET (Slots \X Places) /\ Lacks(S) \in SUBSET Places
    BY <2>2, <2>3 DEF Lacks
  <2>5. call' = [call EXCEPT !.wave = @ \ S, !.missing = Lacks(S), !.use = @ \cup has]
    BY <2>1 DEF Look
  <2>. HIDE DEF has
  <2>. QED  BY <1>0, <2>4, <2>5 DEF Calls
<1>4. CASE SplitShare
  <2>1. PICK share \in SUBSET call.missing : call' = [call EXCEPT !.cpu = share]
    BY <1>4 DEF SplitShare
  <2>. QED  BY <1>0, <2>1 DEF Calls
<1>5. CASE ReadFails \/ LaunchFails \/ RingFails \/ Return
           \/ (\E s \in Slots, p \in Places : FillFails(s, p) \/ GuessFails(s, p))
  <2>1. call.layer \in Layers /\ call.rows \in BOOLEAN
    BY <1>0 DEF Calls
  <2>2. (call.layer + 1) % NLayers \in Layers
    BY <1>0, <2>1 DEF Layers
  <2>3. \E l \in Layers : call' = Rest(l, call.rows)
    BY <1>0, <1>5, <2>2 DEF ReadFails, LaunchFails, RingFails, Return, FillFails, GuessFails
  <2>. QED  BY <2>1, <2>3, RestType
<1>6. ASSUME NEW s \in Slots, NEW p \in Places, FillMissing(s, p) PROVE call' \in Calls
  <2>. DEFINE locals == [call EXCEPT !.missing = @ \ {p}, !.use = @ \cup {<<s, p>>}]
  <2>1. call.use \cup {<<s, p>>} \in SUBSET (Slots \X Places)
    BY <1>0 DEF Calls
  <2>2. locals \in Calls
    BY <1>0, <2>1 DEF Calls
  <2>3. call' \in {locals, [locals EXCEPT !.cur = p]}
    BY <1>6 DEF FillMissing, Fill
  <2>. HIDE DEF locals
  <2>. QED  BY <2>2, <2>3 DEF Calls
<1>7. ASSUME NEW s \in Slots, NEW p \in Places, GuessCopy(s, p) PROVE call' \in Calls
  <2>1. call' \in { [call EXCEPT !.ahead = @ \ {p}],
                    [[call EXCEPT !.ahead = @ \ {p}] EXCEPT !.cur = p] }
    BY <1>7 DEF GuessCopy, Fill
  <2>. QED  BY <1>0, <2>1 DEF Calls
<1>8. CASE RingFull \/ (\E p \in Places : GuessSkip(p)) \/ GuessNone
  BY <1>0, <1>8 DEF RingFull, GuessSkip, GuessNone, Calls
<1>9. ASSUME NEW some \in Portions, Launch(some) PROVE call' \in Calls
  BY <1>0, <1>9 DEF Launch, Calls
<1>10. CASE Drain \/ Hold \/ Arrived \/ Free \/ Device \/ Terminated \/ UNCHANGED vars
  BY <1>0, <1>10 DEF Drain, Hold, Arrived, Free, Device, CopyDone, KernelDone, Terminated, vars
<1>. QED  BY <1>1, <1>2, <1>3, <1>4, <1>5, <1>6, <1>7, <1>8, <1>9, <1>10
          DEF Next, Host, Copy, Guess

\* The tables, and where the host is.
LEMMA TableTypes ==
  ASSUME IInv, Next \/ UNCHANGED vars
  PROVE  /\ opened' = opened
         /\ pc' \in {"idle", "visit", "share", "drain", "wait", "run", "full", "freed"}
         /\ place' \in [Slots -> Places \cup {NoPlace}]
         /\ where' \in [Places -> Slots \cup {NoSlot}]
         /\ held' \in [Slots -> BOOLEAN] /\ filling' \in [Slots -> BOOLEAN]
<1>. DEFINE Good == /\ opened' = opened
                    /\ pc' \in {"idle", "visit", "share", "drain", "wait", "run", "full", "freed"}
                    /\ place' \in [Slots -> Places \cup {NoPlace}]
                    /\ where' \in [Places -> Slots \cup {NoSlot}]
                    /\ held' \in [Slots -> BOOLEAN] /\ filling' \in [Slots -> BOOLEAN]
<1>. SUFFICES Good  OBVIOUS
<1>0. /\ pc \in {"idle", "visit", "share", "drain", "wait", "run", "full", "freed"}
      /\ place \in [Slots -> Places \cup {NoPlace}]
      /\ where \in [Places -> Slots \cup {NoSlot}]
      /\ held \in [Slots -> BOOLEAN] /\ filling \in [Slots -> BOOLEAN]
      /\ Unheld \in [Slots -> BOOLEAN]
  BY DEF IInv, QueuesOK, TypeOK, Unheld
<1>1. \A l \in Layers, r \in BOOLEAN : Begin(l, r) => Good
  BY <1>0 DEF Begin, table
<1>2. CASE NextWave \/ SplitShare \/ Drain \/ Hold \/ Arrived \/ ReadFails
  BY <1>0, <1>2 DEF NextWave, SplitShare, Drain, Hold, Arrived, ReadFails, table, Fetch
<1>3. CASE LaunchFails \/ Return \/ Free \/ Device \/ Terminated \/ UNCHANGED vars
  BY <1>0, <1>3 DEF LaunchFails, Return, Free, Device, CopyDone, KernelDone, Terminated, vars, table
<1>4. CASE Visit
  BY <1>0, <1>4 DEF Visit, Look, Fetch
<1>5. CASE RingFull \/ RingFails
  BY <1>0, <1>5 DEF RingFull, RingFails, table
<1>6. CASE (\E p \in Places : GuessSkip(p)) \/ GuessNone \/ (\E some \in Portions : Launch(some))
  BY <1>0, <1>6 DEF GuessSkip, GuessNone, Launch, table
<1>7. ASSUME NEW s \in Slots, NEW p, p \in Places \cup {NoPlace}
      PROVE  Moved(s, p) \in [Places -> Slots \cup {NoSlot}]
  BY <1>0 DEF Moved
<1>8. ASSUME NEW s \in Slots, NEW p \in Places, FillMissing(s, p) \/ GuessCopy(s, p) PROVE Good
  <2>1. /\ place' = [place EXCEPT ![s] = p] /\ where' = Moved(s, p)
        /\ held' = [held EXCEPT ![s] = TRUE] /\ filling' = [filling EXCEPT ![s] = TRUE]
        /\ pc' \in {"full", pc} /\ opened' = opened
    BY <1>8 DEF FillMissing, GuessCopy, Fill
  <2>. QED  BY <1>0, <1>7, <2>1
<1>9. ASSUME NEW s \in Slots, NEW p \in Places, FillFails(s, p) \/ GuessFails(s, p) PROVE Good
  <2>1. /\ place' = [place EXCEPT ![s] = NoPlace]
        /\ where' = [Moved(s, p) EXCEPT ![p] = NoSlot] \/ where' = Moved(s, NoPlace)
        /\ held' = Unheld /\ filling' = [filling EXCEPT ![s] = TRUE]
        /\ pc' = "idle" /\ opened' = opened
    BY <1>9 DEF FillFails, GuessFails
  <2>2. where' \in [Places -> Slots \cup {NoSlot}]
    BY <1>7, <2>1
  <2>. QED  BY <1>0, <2>1, <2>2
<1>. HIDE DEF Good
<1>. QED  BY <1>1, <1>2, <1>3, <1>4, <1>5, <1>6, <1>8, <1>9
          DEF Next, Host, Copy, Guess

\* A queue of copies, and what the other queues' waits must not exceed.
LEMMA CopiesGrow ==
  ASSUME QueuesOK, NEW s \in Slots, NEW p \in Places
  PROVE  LET q == Append(copies, [slot |-> s, place |-> p])
         IN  /\ q \in Seq(Work) /\ Len(q) = Len(copies) + 1 /\ DOMAIN q = 1 .. Len(copies) + 1
             /\ \A i \in 1 .. Len(copies) : q[i] = copies[i]
             /\ q[Len(copies) + 1] = [slot |-> s, place |-> p]
<1>1. copies \in Seq(Work) /\ [slot |-> s, place |-> p] \in Work /\ Len(copies) \in Nat
  BY Pieces DEF Work
<1>2. Append(copies, [slot |-> s, place |-> p]) \in Seq(Work)
  BY <1>1, AppendProperties
<1>. QED  BY <1>1, <1>2, AppendProperties, LenProperties

\* Copies are only added behind those queued, or spoilt, except by CopyDone.
LEMMA CopiesType ==
  ASSUME IInv, Next \/ UNCHANGED vars, ~CopyDone
  PROVE  copies' \in Seq(Work) /\ Len(copies') \in Nat /\ Len(copies) <= Len(copies')
<1>. DEFINE Good == copies' \in Seq(Work) /\ Len(copies') \in Nat /\ Len(copies) <= Len(copies')
<1>. SUFFICES Good  OBVIOUS
<1>0. copies \in Seq(Work) /\ Len(copies) \in Nat
  BY Pieces DEF IInv
<1>1. ASSUME NEW q \in Seq(Work), NEW u, Len(q) >= Len(copies), copies' = q \/ copies' = Spoilt(q, u)
      PROVE  Good
  BY <1>0, <1>1, SpoiltShape, LenProperties
<1>2. ASSUME NEW s \in Slots, NEW p \in Places
      PROVE  LET q == Append(copies, [slot |-> s, place |-> p])
             IN  q \in Seq(Work) /\ Len(q) >= Len(copies)
  BY <1>0, CopiesGrow DEF IInv
<1>. HIDE DEF Good
<1>3. \A l \in Layers, r \in BOOLEAN : Begin(l, r) => Good
  BY <1>0, <1>1 DEF Begin, Settle
<1>4. CASE NextWave \/ Visit \/ SplitShare \/ Hold \/ Arrived \/ Free \/ KernelDone \/ Terminated
           \/ UNCHANGED vars \/ (\E p \in Places : GuessSkip(p)) \/ GuessNone
           \/ (\E some \in Portions : Launch(some))
  <2>1. copies' = copies
    BY <1>4 DEF NextWave, Visit, SplitShare, Hold, Arrived, Free, KernelDone, Terminated,
                vars, GuessSkip, GuessNone, Launch, queues
  <2>. QED  BY <1>0, <1>1, <2>1
<1>5. CASE Drain \/ ReadFails \/ LaunchFails \/ Return \/ RingFull \/ RingFails
  <2>1. \E u : copies' = copies \/ copies' = Spoilt(copies, u)
    BY <1>5 DEF Drain, ReadFails, LaunchFails, Return, RingFull, RingFails, Release, ReleaseRest
  <2>. QED  BY <1>0, <1>1, <2>1
<1>6. ASSUME NEW s \in Slots, NEW p \in Places, FillMissing(s, p) \/ GuessCopy(s, p) PROVE Good
  BY <1>1, <1>2, <1>6 DEF FillMissing, GuessCopy, Fill
<1>7. ASSUME NEW s \in Slots, NEW p \in Places, FillFails(s, p) \/ GuessFails(s, p) PROVE Good
  <2>1. PICK q \in {copies, Append(copies, [slot |-> s, place |-> p])} : \E u : copies' = Spoilt(q, u)
    BY <1>7 DEF FillFails, GuessFails, Release, ReleaseRest
  <2>2. q \in Seq(Work) /\ Len(q) >= Len(copies)
    BY <1>0, <1>2
  <2>. QED  BY <1>1, <2>1, <2>2
<1>. QED  BY <1>3, <1>4, <1>5, <1>6, <1>7 DEF Next, Host, Copy, Guess, Device

\* The kernels that are begun wait for no more copies than there are.
LEMMA LatestType ==
  ASSUME QueuesOK, NEW use \in SUBSET (Slots \X Places)
  PROVE  /\ Latest(use) \in 0 .. Len(copies)
         /\ \A u \in use, i \in Nat : filling[u[1]] /\ i \in CopiesTo(u[1]) => i <= Latest(use)
<1>. DEFINE S == {0} \cup UNION {CopiesTo(u[1]) : u \in {v \in use : filling[v[1]]}}
<1>1. Len(copies) \in Nat /\ DOMAIN copies = 1 .. Len(copies)
  BY Pieces
<1>2. S \in SUBSET (0 .. Len(copies)) /\ S # {}
  BY <1>1 DEF CopiesTo
<1>3. Max(S) \in S /\ \A k \in S : k <= Max(S)
  <2>. HIDE DEF S
  <2>. QED  BY <1>1, <1>2, MaxIsMax
<1>4. ASSUME NEW u \in use, NEW i \in Nat, filling[u[1]], i \in CopiesTo(u[1]) PROVE i \in S
  BY <1>4
<1>. HIDE DEF S
<1>5. \A u \in use, i \in Nat : filling[u[1]] /\ i \in CopiesTo(u[1]) => i <= Max(S)
  BY <1>3, <1>4
<1>6. Latest(use) = Max(S)
  BY DEF Latest, S
<1>. QED  BY <1>2, <1>3, <1>5, <1>6

LEMMA StartType ==
  ASSUME QueuesOK, NEW use \in SUBSET (Slots \X Places)
  PROVE  /\ Start(use) \in Seq(Kernels) /\ DOMAIN Start(use) = 1 .. Len(kernels) + 1
         /\ \A i \in 1 .. Len(kernels) : Start(use)[i] = kernels[i]
         /\ Start(use)[Len(kernels) + 1] = [reads |-> use, wait |-> Latest(use)]
<1>1. Len(copies) \in Nat /\ Latest(use) \in Nat
  BY Pieces, LatestType
<1>2. kernels \in Seq(Kernels) /\ Len(kernels) \in Nat /\ [reads |-> use, wait |-> Latest(use)] \in Kernels
  BY <1>1, Pieces DEF Kernels
<1>. QED  BY <1>2, AppendProperties, LenProperties DEF Start

\* Kernels are begun for what is in use, or end.
Begun(use) ==
  /\ kernels' = Start(use)
  /\ UNCHANGED <<opened, place, where, held, filling, bytes, copies, pending, users>>
  /\ pc \in {"share", "run"} /\ pc' \in {"drain", "run"}

LEMMA KernelsShape ==
  ASSUME IInv, Next \/ UNCHANGED vars, ~CopyDone
  PROVE  kernels' = kernels \/ KernelDone \/ \E use \in SUBSET call.use : Begun(use)
<1>1. CASE NextWave \/ Visit \/ Drain \/ Hold \/ Arrived \/ ReadFails \/ LaunchFails \/ Return
           \/ Free \/ KernelDone \/ Terminated \/ UNCHANGED vars
  BY <1>1 DEF NextWave, Visit, Drain, Hold, Arrived, ReadFails, LaunchFails, Return, Free,
              Terminated, vars, queues
<1>2. CASE SplitShare
  <2>. DEFINE ready == {u \in call.use : ~filling[u[1]]}
  <2>1. ready \in SUBSET call.use
    OBVIOUS
  <2>2. kernels' = kernels \/ kernels' = Start(ready)
    BY <1>2 DEF SplitShare
  <2>3. /\ UNCHANGED <<opened, place, where, held, filling, bytes, copies, pending, users>>
        /\ pc = "share" /\ pc' \in {"drain", "run"}
    BY <1>2 DEF SplitShare, table, Fetch
  <2>. QED  BY <2>1, <2>2, <2>3 DEF Begun
<1>3. ASSUME NEW some \in Portions, Launch(some) PROVE Begun(some) /\ some \in SUBSET call.use
  BY <1>3 DEF Launch, Launching, Copied, table, Begun, Portions
<1>4. CASE Copy \/ Guess \/ (\E l \in Layers, r \in BOOLEAN : Begin(l, r))
  BY <1>4 DEF Copy, Guess, FillMissing, FillFails, RingFull, RingFails, GuessCopy, GuessFails,
              GuessSkip, GuessNone, queues, Begin
<1>. QED  BY <1>1, <1>2, <1>3, <1>4 DEF Next, Host, Device

\* A copy's entry goes to the ring's end, in the room of the oldest if it has
\* none; or entries leave at the front.
Finish(n) == copies = <<>> \/ \A j \in 1 .. n : pending[j].left = 0

LEMMA RingShape ==
  ASSUME IInv, Next \/ UNCHANGED vars, ~CopyDone
  PROVE  \/ \E n \in 0 .. Len(pending) :
              pending' = SubSeq(pending, n + 1, Len(pending)) /\ Finish(n)
         \/ \E n \in {0, 1} \cap 0 .. Len(pending), p \in Places :
              /\ pending' = Append(SubSeq(pending, n + 1, Len(pending)), Entry(p, Len(copies')))
              /\ n = 0 => Len(pending) < PendingMax
              /\ opened.streamed /\ Finish(n)
<1>. DEFINE Front == \E n \in 0 .. Len(pending) :
                       pending' = SubSeq(pending, n + 1, Len(pending)) /\ Finish(n)
<1>0. /\ pending \in Seq(Entries) /\ Len(pending) \in Nat
      /\ SubSeq(pending, 0 + 1, Len(pending)) = pending
      /\ Len(pending) <= PendingMax /\ PendingMax \in Nat
  <2>1. pending \in Seq(Entries) /\ Len(pending) \in Nat
    BY Pieces DEF IInv
  <2>2. SubSeq(pending, 1, Len(pending)) = pending
    BY <2>1, SubSeqFull
  <2>. QED  BY <2>1, <2>2, Constants DEF IInv, QueuesOK, TypeOK
<1>1. pending' = pending => Front
  <2>1. Finish(0) /\ 0 \in 0 .. Len(pending)
    BY <1>0 DEF Finish
  <2>. QED  BY <1>0, <2>1
<1>2. ASSUME pending # <<>>, pending' = Tail(pending), Head(pending).left = 0 PROVE Front
  <2>1. 1 \in 0 .. Len(pending)
    BY <1>0, <1>2, EmptySeq
  <2>2. pending' = SubSeq(pending, 1 + 1, Len(pending))
    BY <1>0, <1>2, TailIsSubSeq
  <2>3. Finish(1)
    BY <1>0, <1>2 DEF Finish
  <2>. QED  BY <2>1, <2>2, <2>3
<1>3. CASE NextWave \/ Visit \/ SplitShare \/ Hold \/ Arrived \/ ReadFails \/ LaunchFails \/ Return
           \/ KernelDone \/ Terminated \/ UNCHANGED vars \/ (\E some \in Portions : Launch(some))
  BY <1>1, <1>3 DEF NextWave, Visit, SplitShare, Hold, Arrived, ReadFails, LaunchFails, Return,
              KernelDone, Terminated, vars, queues, Launch
<1>4. CASE (\E s \in Slots, p \in Places : FillFails(s, p) \/ GuessFails(s, p)) \/ RingFails
           \/ (\E p \in Places : GuessSkip(p)) \/ GuessNone
  BY <1>1, <1>4 DEF FillFails, GuessFails, RingFails, GuessSkip, GuessNone, queues
<1>5. CASE Drain
  <2>1. pending # <<>>
    BY <1>0, <1>5, Constants, EmptySeq DEF Drain
  <2>. QED  BY <1>2, <1>5, <2>1 DEF Drain
<1>6. CASE Free
  <2>1. SubSeq(pending, Len(pending) + 1, Len(pending)) = <<>> /\ Len(pending) \in 0 .. Len(pending)
    BY <1>0, SubSeqEmpty
  <2>. QED  BY <1>6, <2>1 DEF Free, Finish
<1>7. CASE \E l \in Layers, r \in BOOLEAN : Begin(l, r)
  <2>1. Max(Finished) \in 0 .. Len(pending) /\ Finish(Max(Finished))
    BY FrontFinished DEF IInv, Finish
  <2>. QED  BY <1>7, <2>1 DEF Begin, Settle
<1>8. ASSUME NEW s \in Slots, NEW p \in Places, FillMissing(s, p) \/ GuessCopy(s, p)
      PROVE  \/ Front
             \/ /\ pending' = Append(SubSeq(pending, 0 + 1, Len(pending)), Entry(p, Len(copies')))
                /\ 0 \in {0, 1} \cap 0 .. Len(pending) /\ Len(pending) < PendingMax
                /\ opened.streamed /\ Finish(0)
  <2>1. \/ pending' = pending
        \/ /\ pending' = Append(pending, Entry(p, Len(copies'))) /\ Len(pending) # PendingMax
           /\ opened.streamed
    <3>1. PICK locals : Fill(s, p, locals)
      BY <1>8 DEF FillMissing, GuessCopy
    <3>. QED  BY <1>0, <3>1 DEF Fill
  <2>2. CASE pending' = pending
    BY <1>1, <2>2
  <2>3. CASE /\ pending' = Append(pending, Entry(p, Len(copies'))) /\ Len(pending) # PendingMax
             /\ opened.streamed
    <3>0. Len(pending) \in Nat /\ Len(pending) <= PendingMax /\ PendingMax \in Nat
      BY <1>0, Zenon
    <3>1. 0 \in {0, 1} \cap 0 .. Len(pending) /\ Len(pending) < PendingMax
      <4>1. Len(pending) # PendingMax
        BY <2>3, Zenon
      <4>. QED  BY <3>0, <4>1
    <3>2. SubSeq(pending, 0 + 1, Len(pending)) = pending
      BY <1>0
    <3>3. pending' = Append(SubSeq(pending, 0 + 1, Len(pending)), Entry(p, Len(copies')))
      BY <2>3, <3>2, Zenon
    <3>4. Finish(0) /\ opened.streamed
      BY <2>3, <3>0 DEF Finish
    <3>. QED  BY <3>1, <3>3, <3>4
  <2>. QED  BY <2>1, <2>2, <2>3, SMTT(20)
<1>9. ASSUME RingFull
      PROVE  /\ 1 \in {0, 1} \cap 0 .. Len(pending) /\ call.cur \in Places
             /\ opened.streamed /\ Finish(1)
             /\ pending' = Append(SubSeq(pending, 1 + 1, Len(pending)), Entry(call.cur, Len(copies')))
  <2>1. pending # <<>> /\ call.cur \in Places
    BY <1>0, <1>9, EmptySeq DEF RingFull, IInv, CallOK, RingOK, QueuesOK, Calls
  <2>2. 1 \in 0 .. Len(pending) /\ Tail(pending) = SubSeq(pending, 1 + 1, Len(pending))
    BY <1>0, <2>1, EmptySeq, TailIsSubSeq
  <2>3. copies \in Seq(Work) /\ copies' = Spoilt(copies, users')
    BY <1>9, Pieces DEF IInv, RingFull, Release
  <2>4. Len(copies') = Len(copies)
    BY <2>3, SpoiltShape
  <2>5. pending' = Append(Tail(pending), Entry(call.cur, Len(copies)))
    BY <1>9 DEF RingFull
  <2>6. opened.streamed /\ Finish(1)
    BY <1>0, <1>9, <2>1 DEF RingFull, IInv, CallOK, Finish
  <2>. QED  BY <2>1, <2>2, <2>4, <2>5, <2>6
<1>10. CASE Copy \/ Guess
  BY <1>4, <1>8, <1>9, <1>10 DEF Copy, Guess
<1>. QED  BY <1>3, <1>5, <1>6, <1>7, <1>10 DEF Next, Host, Device

\* The oldest copy finishes: the queue, and the waits for it, are shorter.
LEMMA CopyDoneShape ==
  ASSUME QueuesOK, CopyDone
  PROVE  /\ copies # <<>> /\ Len(copies) > 0 /\ copies' = Tail(copies)
         /\ copies' \in Seq(Work) /\ Len(copies') = Len(copies) - 1
         /\ \A i \in 1 .. Len(copies) - 1 : copies'[i] = copies[i + 1]
         /\ copies[1] \in Work
         /\ bytes' = [bytes EXCEPT ![copies[1].slot] = copies[1].place]
         /\ kernels' \in Seq(Kernels) /\ DOMAIN kernels' = DOMAIN kernels
         /\ \A i \in DOMAIN kernels :
              kernels'[i].reads = kernels[i].reads /\ kernels'[i].wait = Sooner(kernels[i].wait)
         /\ pending' \in Seq(Entries) /\ DOMAIN pending' = DOMAIN pending
         /\ Len(pending') = Len(pending)
         /\ \A i \in DOMAIN pending :
              pending'[i].place = pending[i].place /\ pending'[i].left = Sooner(pending[i].left)
<1>. DEFINE k(i) == [kernels[i] EXCEPT !.wait = Sooner(@)]
            e(i) == [pending[i] EXCEPT !.left = Sooner(@)]
<1>1. copies # <<>> /\ copies' = Tail(copies)
  BY DEF CopyDone
<1>2. copies \in Seq(Work) /\ Len(copies) \in Nat /\ copies[1] = Head(copies)
  BY <1>1, Pieces
<1>3. Len(copies) > 0
  BY <1>1, <1>2, EmptySeq
<1>4. copies' = SubSeq(copies, 1 + 1, Len(copies))
  BY <1>1, <1>2, TailIsSubSeq
<1>5. copies' \in Seq(Work) /\ Len(copies') = Len(copies) - 1
      /\ \A i \in 1 .. Len(copies) - 1 : copies'[i] = copies[i + 1]
  <2>1. 1 \in 0 .. Len(copies)
    BY <1>2, <1>3
  <2>2. /\ copies' \in Seq(Work) /\ Len(copies') = Len(copies) - 1
        /\ \A i \in 1 .. (Len(copies) - 1) : copies'[i] = copies[1 + i]
    BY <1>2, <1>4, <2>1, RestOf
  <2>. QED  BY <1>2, <2>2
<1>6. copies[1] \in Work
  BY <1>2, <1>3, Pieces
<1>7. \A n \in Nat : Sooner(n) \in Nat
  BY DEF Sooner
<1>8. /\ Len(kernels) \in Nat /\ kernels' = [i \in 1 .. Len(kernels) |-> k(i)]
      /\ Len(pending) \in Nat /\ pending' = [i \in 1 .. Len(pending) |-> e(i)]
      /\ \A i \in 1 .. Len(kernels) : kernels[i] \in Kernels
      /\ \A i \in 1 .. Len(pending) : pending[i] \in Entries
      /\ DOMAIN kernels = 1 .. Len(kernels) /\ DOMAIN pending = 1 .. Len(pending)
  BY Pieces DEF CopyDone
<1>9. \A i \in 1 .. Len(kernels) :
        k(i) \in Kernels /\ k(i).reads = kernels[i].reads /\ k(i).wait = Sooner(kernels[i].wait)
  BY <1>7, <1>8 DEF Kernels
<1>10. \A i \in 1 .. Len(pending) :
        e(i) \in Entries /\ e(i).place = pending[i].place /\ e(i).left = Sooner(pending[i].left)
  BY <1>7, <1>8 DEF Entries
<1>. HIDE DEF k, e
<1>11. [i \in 1 .. Len(kernels) |-> k(i)] \in Seq(Kernels)
  BY <1>8, <1>9, IsASeq
<1>12. [i \in 1 .. Len(pending) |-> e(i)] \in Seq(Entries)
  BY <1>8, <1>10, IsASeq
<1>13. Len(pending') = Len(pending)
  BY <1>8, <1>12, LenProperties
<1>14. bytes' = [bytes EXCEPT ![copies[1].slot] = copies[1].place]
  BY <1>2 DEF CopyDone
<1>. QED  BY <1>1, <1>3, <1>5, <1>6, <1>8, <1>9, <1>10, <1>11, <1>12, <1>13, <1>14

LEMMA KernelDoneShape ==
  ASSUME QueuesOK, KernelDone
  PROVE  /\ kernels' \in Seq(Kernels) /\ DOMAIN kernels' = 1 .. Len(kernels) - 1
         /\ \A i \in 1 .. Len(kernels) - 1 : kernels'[i] = kernels[i + 1]
<1>1. kernels # <<>> /\ kernels' = Tail(kernels) /\ kernels \in Seq(Kernels) /\ Len(kernels) \in Nat
  BY Pieces DEF KernelDone
<1>2. Len(kernels) > 0 /\ kernels' = SubSeq(kernels, 1 + 1, Len(kernels))
  BY <1>1, EmptySeq, TailIsSubSeq
<1>3. 1 \in 0 .. Len(kernels)
  BY <1>1, <1>2
<1>4. /\ kernels' \in Seq(Kernels) /\ DOMAIN kernels' = 1 .. (Len(kernels) - 1)
      /\ \A i \in 1 .. (Len(kernels) - 1) : kernels'[i] = kernels[1 + i]
  BY <1>1, <1>2, <1>3, RestOf
<1>. QED  BY <1>1, <1>4

LEMMA KernelsType ==
  ASSUME IInv, Next \/ UNCHANGED vars
  PROVE  kernels' \in Seq(Kernels) /\ \A i \in DOMAIN kernels' : kernels'[i].wait \in 0 .. Len(copies')
<1>0. /\ kernels \in Seq(Kernels) /\ Len(kernels) \in Nat /\ DOMAIN kernels = 1 .. Len(kernels)
      /\ \A i \in DOMAIN kernels : kernels[i].wait \in 0 .. Len(copies)
      /\ Len(copies) \in Nat /\ QueuesOK
  BY Pieces DEF IInv, QueuesOK, TypeOK
<1>1. CASE CopyDone
  <2>1. \A n \in 0 .. Len(copies) : Len(copies) > 0 => Sooner(n) \in 0 .. Len(copies) - 1
    BY <1>0 DEF Sooner
  <2>. QED  BY <1>0, <1>1, <2>1, CopyDoneShape
<1>2. CASE ~CopyDone
  <2>1. Len(copies') \in Nat /\ Len(copies) <= Len(copies')
    BY <1>2, CopiesType
  <2>2. CASE kernels' = kernels
    BY <1>0, <2>1, <2>2
  <2>3. CASE KernelDone
    <3>1. /\ kernels' \in Seq(Kernels) /\ DOMAIN kernels' = 1 .. Len(kernels) - 1
          /\ \A i \in 1 .. Len(kernels) - 1 : kernels'[i] = kernels[i + 1]
      BY <1>0, <2>3, KernelDoneShape
    <3>2. \A i \in 1 .. Len(kernels) - 1 : i + 1 \in DOMAIN kernels
      BY <1>0
    <3>. QED  BY <1>0, <2>1, <3>1, <3>2, SMTT(30)
  <2>4. ASSUME NEW use \in SUBSET call.use, Begun(use)
        PROVE  kernels' \in Seq(Kernels)
               /\ \A i \in DOMAIN kernels' : kernels'[i].wait \in 0 .. Len(copies')
    <3>1. use \in SUBSET (Slots \X Places)
      BY <1>0 DEF QueuesOK, Calls
    <3>2. Latest(use) \in 0 .. Len(copies)
      BY <1>0, <3>1, LatestType
    <3>3. /\ kernels' \in Seq(Kernels) /\ DOMAIN kernels' = 1 .. Len(kernels) + 1
          /\ \A i \in 1 .. Len(kernels) : kernels'[i] = kernels[i]
          /\ kernels'[Len(kernels) + 1] = [reads |-> use, wait |-> Latest(use)]
      BY <1>0, <2>4, <3>1, StartType DEF Begun
    <3>. QED  BY <1>0, <2>1, <3>2, <3>3
  <2>. QED  BY <1>2, <2>2, <2>3, <2>4, KernelsShape
<1>. QED  BY <1>1, <1>2

LEMMA RingType ==
  ASSUME IInv, Next \/ UNCHANGED vars
  PROVE  /\ pending' \in Seq(Entries) /\ Len(pending') <= PendingMax
         /\ \A i \in DOMAIN pending' : pending'[i].left \in 0 .. Len(copies')
<1>0. /\ pending \in Seq(Entries) /\ Len(pending) \in Nat /\ DOMAIN pending = 1 .. Len(pending)
      /\ \A i \in DOMAIN pending : pending[i].left \in 0 .. Len(copies)
      /\ Len(copies) \in Nat /\ QueuesOK /\ Len(pending) <= PendingMax /\ PendingMax \in Nat
  BY Pieces, Constants DEF IInv, QueuesOK, TypeOK
<1>1. CASE CopyDone
  <2>1. \A n \in 0 .. Len(copies) : Len(copies) > 0 => Sooner(n) \in 0 .. Len(copies) - 1
    BY <1>0 DEF Sooner
  <2>. QED  BY <1>0, <1>1, <2>1, CopyDoneShape
<1>2. CASE ~CopyDone
  <2>1. Len(copies') \in Nat /\ Len(copies) <= Len(copies')
    BY <1>2, CopiesType
  <2>2. ASSUME NEW n \in 0 .. Len(pending), NEW r, r = SubSeq(pending, n + 1, Len(pending))
        PROVE  /\ r \in Seq(Entries) /\ Len(r) = Len(pending) - n /\ DOMAIN r = 1 .. Len(pending) - n
               /\ \A i \in DOMAIN r : r[i].left \in 0 .. Len(copies')
    <3>1. /\ r \in Seq(Entries) /\ Len(r) = Len(pending) - n /\ DOMAIN r = 1 .. Len(pending) - n
          /\ \A i \in 1 .. (Len(pending) - n) : r[i] = pending[n + i]
      BY <1>0, <2>2, RestOf
    <3>2. ASSUME NEW i \in DOMAIN r PROVE r[i].left \in 0 .. Len(copies')
      <4>1. n + i \in DOMAIN pending /\ r[i] = pending[n + i]
        BY <1>0, <3>1
      <4>. QED  BY <1>0, <2>1, <4>1
    <3>. QED  BY <3>1, <3>2
  <2>3. CASE \E n \in 0 .. Len(pending) : pending' = SubSeq(pending, n + 1, Len(pending))
    <3>1. PICK n \in 0 .. Len(pending) : pending' = SubSeq(pending, n + 1, Len(pending))
      BY <2>3
    <3>2. /\ pending' \in Seq(Entries) /\ Len(pending') = Len(pending) - n
          /\ \A i \in DOMAIN pending' : pending'[i].left \in 0 .. Len(copies')
      BY <2>2, <3>1
    <3>. QED  BY <1>0, <3>2
  <2>4. ASSUME NEW n \in {0, 1} \cap 0 .. Len(pending), NEW p \in Places,
               pending' = Append(SubSeq(pending, n + 1, Len(pending)), Entry(p, Len(copies'))),
               n = 0 => Len(pending) < PendingMax
        PROVE  /\ pending' \in Seq(Entries) /\ Len(pending') <= PendingMax
               /\ \A i \in DOMAIN pending' : pending'[i].left \in 0 .. Len(copies')
    <3>. DEFINE r == SubSeq(pending, n + 1, Len(pending))
                e == Entry(p, Len(copies'))
    <3>1. /\ r \in Seq(Entries) /\ Len(r) = Len(pending) - n /\ DOMAIN r = 1 .. Len(r)
          /\ \A i \in DOMAIN r : r[i].left \in 0 .. Len(copies')
      BY <2>2
    <3>2. e \in Entries /\ e.left = Len(copies')
      BY <2>1 DEF Entries, Entry
    <3>. HIDE DEF r, e
    <3>3. /\ pending' \in Seq(Entries) /\ Len(pending') = Len(r) + 1
          /\ DOMAIN pending' = 1 .. Len(r) + 1
          /\ \A i \in 1 .. Len(r) : pending'[i] = r[i]
          /\ pending'[Len(r) + 1] = e
      <4>1. pending' = Append(r, e)
        BY <2>4 DEF r, e
      <4>. QED  BY <3>1, <3>2, <4>1, AppendProperties, LenProperties
    <3>4. Len(r) \in Nat /\ Len(pending') <= PendingMax
      BY <1>0, <2>4, <3>1, <3>3
    <3>5. ASSUME NEW i \in DOMAIN pending' PROVE pending'[i].left \in 0 .. Len(copies')
      <4>1. i \in 1 .. Len(r) \/ i = Len(r) + 1
        BY <3>3, <3>4
      <4>2. CASE i \in 1 .. Len(r)
        BY <3>1, <3>3, <4>2
      <4>3. CASE i = Len(r) + 1
        BY <2>1, <3>2, <3>3, <4>3
      <4>. QED  BY <4>1, <4>2, <4>3
    <3>. QED  BY <3>3, <3>4, <3>5
  <2>. QED  BY <1>2, <2>3, <2>4, RingShape
<1>. QED  BY <1>1, <1>2

LEMMA BytesSame ==
  ASSUME Next \/ UNCHANGED vars, ~CopyDone
  PROVE  bytes' = bytes
BY DEF Next, Host, Copy, Guess, Device, Begin, NextWave, Visit, SplitShare, Drain, Hold,
   Arrived, ReadFails, FillMissing, FillFails, RingFull, RingFails, Launch, LaunchFails,
   GuessCopy, GuessFails, GuessSkip, GuessNone, Return, Free, KernelDone, Terminated, vars, queues

\* The types are kept.
LEMMA QueuesNext ==
  ASSUME IInv, Next \/ UNCHANGED vars
  PROVE  QueuesOK'
<1>1. copies' \in Seq(Work)
  BY CopiesType, CopyDoneShape DEF IInv
<1>2. bytes' \in [Slots -> Places \cup {NoPlace}]
  <2>1. CASE CopyDone
    BY <2>1, CopyDoneShape DEF IInv, QueuesOK, TypeOK, Work
  <2>2. CASE ~CopyDone
    <3>1. bytes' = bytes
      BY <2>2, BytesSame
    <3>. QED  BY <3>1 DEF IInv, QueuesOK, TypeOK
  <2>. QED  BY <2>1, <2>2
<1>3. users' \in [Places -> Nat]
  <2>1. \A p \in Places : users'[p] \in Nat
    <3>1. HoldsAreOwed'
      BY OwedNext
    <3>2. pending' \in Seq(Entries)
      BY RingType
    <3>3. \A p \in Places : users'[p] = Mine(p)' + Owed(pending', p)
      BY <3>1, OwedForm
    <3>4. \A p \in Places : Owed(pending', p) \in Nat /\ Mine(p)' \in Nat
      BY <3>2, OwedType DEF Mine
    <3>. QED  BY <3>3, <3>4
  <2>2. users' = [p \in Places |-> users'[p]]
    <3>1. users = [p \in Places |-> users[p]]
      BY DEF IInv, QueuesOK, TypeOK
    <3>2. users' = users \/ \E f, g : users' = Less(f, g) \/ users' = Plus(f, g)
      BY DEF Next, Host, Copy, Guess, Device, Begin, NextWave, Visit, SplitShare, Drain, Hold,
         Arrived, ReadFails, FillMissing, FillFails, RingFull, RingFails, Launch, LaunchFails,
         GuessCopy, GuessFails, GuessSkip, GuessNone, Return, Free, KernelDone, CopyDone, Terminated,
         vars, queues, Settle, Release, ReleaseRest
    <3>. QED  BY <3>1, <3>2 DEF Less, Plus
  <2>. QED  BY <2>1, <2>2
<1>4. opened' \in Openings
  BY TableTypes DEF IInv, QueuesOK, TypeOK
<1>. QED  BY <1>1, <1>2, <1>3, <1>4, TableTypes, CallType, KernelsType, RingType DEF QueuesOK, TypeOK

-----------------------------------------------------------------------------
(* The tables. *)

\* A slot nobody holds is given to an expert the device lacks.
Given(s, p) ==
  /\ pc = "run" /\ ~held[s] /\ where[p] = NoSlot
  /\ place' = [place EXCEPT ![s] = p] /\ where' = Moved(s, p)
  /\ \A t \in Slots : held'[t] = (held[t] \/ t = s)
  /\ filling' = [filling EXCEPT ![s] = TRUE]
  /\ copies' = Append(copies, [slot |-> s, place |-> p])
  /\ pc' \in {"run", "full"}
  /\ UNCHANGED <<opened, bytes, kernels>>

\* A slot is emptied: nobody's, or that of the copy the ring has no room for.
Emptied(s) ==
  /\ pc \in {"run", "full"} /\ pc' = "idle"
  /\ IF pc = "full" THEN place[s] = call.cur ELSE ~held[s]
  /\ place' = [place EXCEPT ![s] = NoPlace]
  /\ where' = [q \in Places |-> IF q = place[s] THEN NoSlot ELSE where[q]]
  /\ UNCHANGED <<opened, bytes, kernels>>

LEMMA Free_NotHeld == \A s \in FreeSlots : s \in Slots /\ ~held[s]
BY DEF FreeSlots

\* The call after a fill: it waits with the place if the ring is full.
LEMMA FillCall ==
  ASSUME IInv, NEW s \in Slots, NEW p \in Places, FillMissing(s, p) \/ GuessCopy(s, p)
  PROVE  /\ call'.use = IF FillMissing(s, p) THEN call.use \cup {<<s, p>>} ELSE call.use
         /\ call'.missing = IF FillMissing(s, p) THEN call.missing \ {p} ELSE call.missing
         /\ call'.cpu = call.cpu /\ call'.rows = call.rows
         /\ call'.want = call.want /\ call'.wave = call.wave
         /\ pc' \in {"run", "full"} /\ call'.cur = IF pc' = "full" THEN p ELSE NoPlace
         /\ pc' = "full" => opened.streamed /\ Len(pending) = PendingMax /\ pending' = pending
<1>0. call \in Calls /\ (pc = "run" => call.cur = NoPlace)
  BY DEF IInv, QueuesOK, CallOK
<1>1. CASE FillMissing(s, p)
  <2>. DEFINE locals == [call EXCEPT !.missing = @ \ {p}, !.use = @ \cup {<<s, p>>}]
  <2>1. call.use \cup {<<s, p>>} \in SUBSET (Slots \X Places)
    BY <1>0 DEF Calls
  <2>2. /\ locals \in Calls /\ locals.use = call.use \cup {<<s, p>>}
        /\ locals.missing = call.missing \ {p} /\ locals.cpu = call.cpu /\ locals.rows = call.rows
        /\ locals.want = call.want /\ locals.wave = call.wave /\ locals.cur = call.cur
    BY <1>0, <2>1 DEF Calls
  <2>3. Fill(s, p, locals) /\ pc = "run"
    BY <1>1 DEF FillMissing
  <2>. HIDE DEF locals
  <2>. QED  BY <1>0, <1>1, <2>2, <2>3 DEF Fill, Calls
<1>2. CASE ~FillMissing(s, p)
  <2>. DEFINE locals == [call EXCEPT !.ahead = @ \ {p}]
  <2>1. /\ locals \in Calls /\ locals.use = call.use
        /\ locals.missing = call.missing /\ locals.cpu = call.cpu /\ locals.rows = call.rows
        /\ locals.want = call.want /\ locals.wave = call.wave /\ locals.cur = call.cur
    BY <1>0 DEF Calls
  <2>2. Fill(s, p, locals) /\ pc = "run"
    BY <1>2 DEF GuessCopy, Guessing, Launched, Copied
  <2>. HIDE DEF locals
  <2>. QED  BY <1>0, <1>2, <2>1, <2>2 DEF Fill, Calls
<1>. QED  BY <1>1, <1>2

LEMMA GivenSlot ==
  ASSUME IInv, NEW s \in Slots, NEW p \in Places, FillMissing(s, p) \/ GuessCopy(s, p)
  PROVE  Given(s, p)
<1>0. held \in [Slots -> BOOLEAN] /\ CallOK /\ call \in Calls
  BY DEF IInv, QueuesOK, TypeOK
<1>1. /\ place' = [place EXCEPT ![s] = p] /\ where' = Moved(s, p)
      /\ held' = [held EXCEPT ![s] = TRUE] /\ filling' = [filling EXCEPT ![s] = TRUE]
      /\ copies' = Append(copies, [slot |-> s, place |-> p])
  BY DEF FillMissing, GuessCopy, Fill
<1>2. pc = "run" /\ ~held[s] /\ where[p] = NoSlot /\ UNCHANGED <<opened, bytes, kernels>>
  BY <1>0, Free_NotHeld DEF FillMissing, GuessCopy, Guessing, Launched, Copied, CallOK
<1>3. \A t \in Slots : held'[t] = (held[t] \/ t = s)
  BY <1>0, <1>1
<1>. QED  BY <1>1, <1>2, <1>3, FillCall DEF Given

LEMMA EmptiedSlot ==
  ASSUME IInv, NEW s \in Slots, NEW p \in Places, FillFails(s, p) \/ GuessFails(s, p)
  PROVE  Emptied(s)
<1>0. where \in [Places -> Slots \cup {NoSlot}] /\ NoPlace \notin Places /\ CallOK
  BY Constants DEF IInv, QueuesOK, TypeOK
<1>1. /\ place' = [place EXCEPT ![s] = NoPlace] /\ pc = "run" /\ pc' = "idle"
      /\ where' = [Moved(s, p) EXCEPT ![p] = NoSlot] \/ where' = Moved(s, NoPlace)
      /\ ~held[s] /\ where[p] = NoSlot /\ UNCHANGED <<opened, bytes, kernels>>
  BY <1>0, Free_NotHeld DEF FillFails, GuessFails, Guessing, Launched, Copied, CallOK
<1>2. where' = [q \in Places |-> IF q = place[s] THEN NoSlot ELSE where[q]]
  BY <1>0, <1>1 DEF Moved
<1>. QED  BY <1>1, <1>2 DEF Emptied

LEMMA TableShape ==
  ASSUME IInv, Next \/ UNCHANGED vars
  PROVE  \/ UNCHANGED <<place, where>>
         \/ \E s \in Slots, p \in Places : Given(s, p) /\ (FillMissing(s, p) \/ GuessCopy(s, p))
         \/ \E s \in Slots : Emptied(s)
<1>0. /\ place \in [Slots -> Places \cup {NoPlace}] /\ where \in [Places -> Slots \cup {NoSlot}]
      /\ held \in [Slots -> BOOLEAN]
      /\ NoPlace \notin Places /\ NoSlot \notin Slots /\ TablesOK /\ CallOK /\ call \in Calls
  BY Constants DEF IInv, QueuesOK, TypeOK
<1>1. CASE RingFails
  <2>1. /\ pc = "full" /\ pc' = "idle" /\ call.cur \in Places
        /\ place' = [place EXCEPT ![where[call.cur]] = NoPlace]
        /\ where' = [where EXCEPT ![call.cur] = NoSlot] /\ UNCHANGED <<opened, bytes, kernels>>
    BY <1>0, <1>1 DEF RingFails, CallOK, Calls
  <2>2. CASE where[call.cur] = NoSlot
    BY <1>0, <2>1, <2>2
  <2>3. CASE where[call.cur] # NoSlot
    <3>1. where[call.cur] \in Slots /\ place[where[call.cur]] = call.cur
      BY <1>0, <2>1, <2>3 DEF TablesOK
    <3>2. where' = [q \in Places |-> IF q = place[where[call.cur]] THEN NoSlot ELSE where[q]]
      BY <1>0, <2>1, <3>1
    <3>3. Emptied(where[call.cur])
      BY <2>1, <3>1, <3>2 DEF Emptied
    <3>. QED  BY <3>1, <3>3
  <2>. QED  BY <2>2, <2>3
<1>2. CASE (\E p \in Places : GuessSkip(p)) \/ GuessNone \/ (\E some \in Portions : Launch(some))
           \/ RingFull \/ NextWave \/ Visit \/ SplitShare \/ Drain \/ Hold \/ Arrived \/ ReadFails
  BY <1>2 DEF GuessSkip, GuessNone, Launch, RingFull, NextWave, Visit, SplitShare, Drain, Hold,
              Arrived, ReadFails, table
<1>3. CASE LaunchFails \/ Return \/ Free \/ Device \/ Terminated \/ UNCHANGED vars
           \/ (\E l \in Layers, r \in BOOLEAN : Begin(l, r))
  BY <1>3 DEF LaunchFails, Return, Free, Device, CopyDone, KernelDone, Terminated, vars, table, Begin
<1>. QED  BY <1>1, <1>2, <1>3, GivenSlot, EmptiedSlot DEF Next, Host, Copy, Guess

LEMMA TablesNext ==
  ASSUME IInv, Next \/ UNCHANGED vars
  PROVE  TablesOK'
<1>0. /\ place \in [Slots -> Places \cup {NoPlace}] /\ where \in [Places -> Slots \cup {NoSlot}]
      /\ NoPlace \notin Places /\ NoSlot \notin Slots /\ TablesOK
  BY Constants DEF IInv, QueuesOK, TypeOK
<1>1. CASE UNCHANGED <<place, where>>
  BY <1>0, <1>1 DEF TablesOK
<1>2. ASSUME NEW s \in Slots, NEW p \in Places, Given(s, p) PROVE TablesOK'
  BY <1>0, <1>2 DEF TablesOK, Given, Moved
<1>3. ASSUME NEW s \in Slots, Emptied(s) PROVE TablesOK'
  BY <1>0, <1>3 DEF TablesOK, Emptied
<1>. QED  BY <1>1, <1>2, <1>3, TableShape

-----------------------------------------------------------------------------
(* The call's locals, and what it is to run. *)

\* The call ends, or fails.
Ended == pc' = "idle" /\ held' = Unheld /\ \E l \in Layers : call' = Rest(l, call.rows)

LEMMA EndShape ==
  ASSUME IInv, \/ ReadFails \/ LaunchFails \/ RingFails \/ Return
               \/ \E s \in Slots, p \in Places : FillFails(s, p) \/ GuessFails(s, p)
  PROVE  Ended
<1>1. NLayers \in Nat \ {0} /\ 0 \in Layers /\ call.layer \in Layers
  BY CacheAssumption DEF IInv, QueuesOK, Calls, Layers
<1>2. (call.layer + 1) % NLayers \in Layers
  BY <1>1 DEF Layers
<1>. QED  BY <1>1, <1>2 DEF ReadFails, LaunchFails, RingFails, Return, FillFails, GuessFails, Ended

LEMMA RestFields ==
  ASSUME NEW l, NEW r
  PROVE  /\ Rest(l, r).layer = l /\ Rest(l, r).rows = r /\ Rest(l, r).want = {}
         /\ Rest(l, r).wave = {} /\ Rest(l, r).missing = {} /\ Rest(l, r).cpu = {}
         /\ Rest(l, r).use = {} /\ Rest(l, r).ahead = {} /\ Rest(l, r).cur = NoPlace
BY DEF Rest, CallOf

\* A step's experts are one wave.
LEMMA StepWave ==
  ASSUME NEW S \in SUBSET Places, Cardinality(S) = K, NEW first \in FirstOf(S)
  PROVE  first = S
<1>1. IsFiniteSet(S) /\ first \in SUBSET S
  BY PlacesFinite DEF FirstOf
<1>2. Cardinality(first) = K
  BY Constants DEF FirstOf
<1>. QED  BY <1>1, <1>2, FS_Subset

\* What the host has looked at of a step's experts is all of them.
LEMMA StepBatch ==
  ASSUME IInv, ~call.rows, NEW S \in Batches
  PROVE  S = call.wave
<1>1. call.wave \in SUBSET Places /\ Cardinality(call.wave) <= K /\ K \in Nat
  BY Constants DEF IInv, QueuesOK, Calls, SizesOK
<1>2. IsFiniteSet(call.wave) /\ Cardinality(call.wave) \in Nat /\ S \in SUBSET call.wave
  BY <1>1, PlacesFinite DEF Batches
<1>3. CASE Cardinality(Lacks(S)) = K
  <2>1. Lacks(S) \in SUBSET S /\ S \in SUBSET Places
    BY <1>1, <1>2 DEF Lacks
  <2>2. IsFiniteSet(S) /\ Cardinality(S) \in Nat
    BY <2>1, PlacesFinite
  <2>3. K <= Cardinality(S)
    BY <1>3, <2>1, <2>2, FS_Subset
  <2>4. Cardinality(S) <= Cardinality(call.wave)
    BY <1>2, FS_Subset
  <2>5. Cardinality(S) = Cardinality(call.wave)
    BY <1>1, <1>2, <2>2, <2>3, <2>4
  <2>. QED  BY <1>2, <2>5, FS_Subset
<1>. QED  BY <1>3 DEF Batches

LEMMA VisitCall ==
  ASSUME IInv, NEW S \in Batches, NEW seen, Look(S, seen), Visit
  PROVE  /\ call'.want = call.want /\ call'.wave = call.wave \ S /\ call'.rows = call.rows
         /\ call'.missing = Lacks(S) /\ call'.cpu = call.cpu /\ call'.cur = call.cur
         /\ call'.use = call.use \cup {<<where[p], p>> : p \in S \ Lacks(S)}
         /\ call.cpu = {}
<1>1. call \in Calls
  BY DEF IInv, QueuesOK
<1>2. call.cpu = {}
  BY DEF IInv, CallOK, Visit, Copied
<1>. QED  BY <1>1, <1>2 DEF Look, Calls

LEMMA CallNext ==
  ASSUME IInv, Next \/ UNCHANGED vars
  PROVE  CallOK'
<1>0. /\ CallOK /\ call \in Calls /\ NoPlace \notin Places /\ opened' = opened
      /\ where \in [Places -> Slots \cup {NoSlot}]
  BY Constants, TableTypes DEF IInv, QueuesOK, TypeOK
<1>1. ASSUME NEW l \in Layers, NEW r \in BOOLEAN, Begin(l, r) PROVE CallOK'
  <2>1. PICK ids \in IF r THEN RowsIds(l) ELSE StepIds(l), guess \in Guesses(l, r) :
               \E first \in FirstOf(ids) : call' = CallOf(l, r, ids, first, guess)
    BY <1>1 DEF Begin
  <2>2. PICK first \in FirstOf(ids) : call' = CallOf(l, r, ids, first, guess)
    BY <2>1
  <2>3. ASSUME ~r PROVE ids \ first = {}
    <3>1. ids \in kSubset(K, PlacesAt(l))
      BY <2>3 DEF StepIds
    <3>2. ids \in SUBSET Places /\ Cardinality(ids) = K
      BY <3>1 DEF kSubset, PlacesAt, Places
    <3>. QED  BY <3>2, StepWave
  <2>4. pc' = "visit"
    BY <1>1 DEF Begin
  <2>. QED  BY <1>0, <2>2, <2>3, <2>4 DEF CallOK, CallOf, Resting
<1>2. CASE Ended
  <2>1. PICK l \in Layers : call' = Rest(l, call.rows)
    BY <1>2 DEF Ended
  <2>2. pc' = "idle" /\ held' = Unheld
    BY <1>2 DEF Ended
  <2>3. Unheld' = Unheld
    BY DEF Unheld
  <2>4. call'.layer = l /\ call'.rows = call.rows
    BY <2>1, RestFields
  <2>5. call' = Rest(call'.layer, call'.rows)
    BY <2>1, <2>4
  <2>6. /\ call'.want = {} /\ call'.wave = {} /\ call'.missing = {} /\ call'.cpu = {}
        /\ call'.cur = NoPlace
    BY <2>1, RestFields
  <2>. QED  BY <2>2, <2>3, <2>4, <2>5, <2>6 DEF CallOK, Resting, Rest, CallOf
<1>3. CASE NextWave
  <2>1. PICK first \in FirstOf(call.want) : call' = [call EXCEPT !.wave = first, !.want = @ \ first]
    BY <1>3 DEF NextWave
  <2>2. call.rows /\ pc' = "visit" /\ pc = "run" /\ call.missing = {} /\ call.use = {} /\ call.cpu = {}
    BY <1>0, <1>3 DEF NextWave, Launched, Copied, CallOK
  <2>. QED  BY <1>0, <2>1, <2>2 DEF CallOK, Calls, Resting
<1>4. CASE Visit
  <2>1. PICK S \in Batches, seen \in SUBSET Slots : Look(S, seen)
    BY <1>4 DEF Visit
  <2>2. /\ call'.want = call.want /\ call'.wave = call.wave \ S /\ call'.rows = call.rows
        /\ call'.missing = Lacks(S) /\ call'.cpu = {} /\ call'.cur = call.cur
    BY <1>4, <2>1, VisitCall
  <2>3. pc \in {"visit", "run"} /\ where' = where
    BY <1>4 DEF Visit, Copied
  <2>4. /\ pc' \in {"share", "drain", "run"}
        /\ pc' = "share" => ~call.rows /\ pc' # "drain"
        /\ pc' = "drain" => opened.streamed
    BY <1>4 DEF Visit, Split, Fetch
  <2>5. ~call.rows => call.wave \ S = {}
    BY <2>1, StepBatch
  <2>6. NoPlace \notin Lacks(S) /\ \A p \in Lacks(S) : where[p] = NoSlot
    BY <1>0 DEF Lacks, Batches, Calls
  <2>. QED  BY <1>0, <2>2, <2>3, <2>4, <2>5, <2>6 DEF CallOK, Resting
<1>5. CASE SplitShare
  <2>1. PICK share \in SUBSET call.missing : call' = [call EXCEPT !.cpu = share]
    BY <1>5 DEF SplitShare
  <2>2. pc = "share" /\ pc' \in {"drain", "run"} /\ (pc' = "drain" => opened.streamed) /\ where' = where
    BY <1>5 DEF SplitShare, Fetch, table
  <2>. QED  BY <1>0, <2>1, <2>2 DEF CallOK, Resting, Calls
<1>6. CASE Drain \/ Hold \/ Arrived
  BY <1>0, <1>6 DEF Drain, Hold, Arrived, CallOK, Resting, table
<1>7. ASSUME NEW s \in Slots, NEW p \in Places, FillMissing(s, p) \/ GuessCopy(s, p) PROVE CallOK'
  <2>1. /\ call'.missing = IF FillMissing(s, p) THEN call.missing \ {p} ELSE call.missing
        /\ call'.cpu = call.cpu /\ call'.rows = call.rows
        /\ call'.want = call.want /\ call'.wave = call.wave
        /\ pc' \in {"run", "full"} /\ call'.cur = IF pc' = "full" THEN p ELSE NoPlace
        /\ pc' = "full" => opened.streamed /\ Len(pending) = PendingMax
    BY <1>7, FillCall
  <2>2. pc = "run" /\ where' = Moved(s, p)
    BY <1>7 DEF FillMissing, GuessCopy, Fill, Guessing, Launched, Copied
  <2>3. pc' = "full" => FillMissing(s, p)
    <3>1. Len(pending) \in Nat
      BY Pieces DEF IInv
    <3>. QED  BY <1>7, <2>1, <3>1, Constants DEF GuessCopy, RoomAhead
  <2>4. /\ FillMissing(s, p) => p \notin call'.missing
        /\ \A q \in call'.missing \ call'.cpu : q # p /\ q \in Places /\ where[q] = NoSlot
    <3>1. CASE FillMissing(s, p)
      BY <1>0, <2>1, <3>1 DEF CallOK, Calls
    <3>2. CASE ~FillMissing(s, p)
      <4>1. call.missing \subseteq call.cpu
        BY <1>7, <3>2 DEF GuessCopy, Guessing, Launched, Copied
      <4>. QED  BY <2>1, <3>2, <4>1
    <3>. QED  BY <3>1, <3>2
  <2>. QED  BY <1>0, <2>1, <2>2, <2>3, <2>4 DEF CallOK, Resting, Moved
<1>8. CASE RingFull
  <2>1. /\ call'.want = call.want /\ call'.wave = call.wave /\ call'.rows = call.rows
        /\ call'.missing = call.missing /\ call'.cpu = call.cpu /\ call'.cur = NoPlace
    BY <1>0, <1>8 DEF RingFull, Calls
  <2>. QED  BY <1>0, <1>8, <2>1 DEF RingFull, CallOK, Resting, Calls, table
<1>9. CASE (\E p \in Places : GuessSkip(p)) \/ GuessNone \/ (\E some \in Portions : Launch(some))
  <2>1. /\ call'.want = call.want /\ call'.wave = call.wave /\ call'.rows = call.rows
        /\ call'.missing = call.missing /\ call'.cpu = call.cpu /\ call'.cur = call.cur
    BY <1>0, <1>9 DEF GuessSkip, GuessNone, Launch, Calls
  <2>2. pc = "run" /\ pc' = "run" /\ where' = where
    BY <1>9 DEF GuessSkip, GuessNone, Launch, Guessing, Launching, Launched, Copied, table
  <2>. QED  BY <1>0, <2>1, <2>2 DEF CallOK, Resting
<1>10. CASE Free \/ Device \/ Terminated \/ UNCHANGED vars
  <2>1. UNCHANGED <<call, where, held>> /\ (pc' = pc \/ (pc = "idle" /\ pc' = "freed"))
    BY <1>10 DEF Free, Device, CopyDone, KernelDone, Terminated, vars, table, Idle
  <2>2. Unheld' = Unheld /\ Rest(call.layer, call.rows)' = Rest(call'.layer, call'.rows)
    BY DEF Unheld, Rest, CallOf
  <2>. QED  BY <1>0, <2>1, <2>2 DEF CallOK, Resting, Rest, CallOf
<1>. QED  BY <1>1, <1>2, <1>3, <1>4, <1>5, <1>6, <1>7, <1>8, <1>9, <1>10, EndShape
          DEF Next, Host, Copy, Guess

\* Streamed experts' ring, and it is full when the host waits for it.
LEMMA RingNext ==
  ASSUME IInv, Next \/ UNCHANGED vars
  PROVE  RingOK'
<1>0. /\ pending \in Seq(Entries) /\ Len(pending) \in Nat /\ RingOK /\ QueuesOK /\ opened' = opened
      /\ PendingMax \in Nat \ {0}
  BY Pieces, TableTypes, Constants DEF IInv
<1>1. ASSUME pc' = "full" PROVE Len(pending') > 0
  <2>1. CASE CopyDone
    BY <1>0, <1>1, <2>1, CopyDoneShape DEF RingOK, CopyDone
  <2>2. CASE \E s \in Slots, p \in Places : FillMissing(s, p) \/ GuessCopy(s, p)
    <3>1. PICK s \in Slots, p \in Places : FillMissing(s, p) \/ GuessCopy(s, p)
      BY <2>2
    <3>2. Len(pending) = PendingMax /\ pending' = pending
      BY <1>1, <3>1, FillCall
    <3>. QED  BY <1>0, <3>2
  <2>3. CASE pc = "full" /\ pending' = pending
    BY <1>0, <2>3 DEF RingOK
  <2>4. CASE Ended
    BY <1>1, <2>4 DEF Ended
  <2>5. CASE (\E p \in Places : GuessSkip(p)) \/ GuessNone \/ (\E some \in Portions : Launch(some))
           \/ RingFull \/ NextWave \/ Visit \/ SplitShare \/ Drain \/ Hold \/ Arrived
    BY <1>1, <2>5 DEF GuessSkip, GuessNone, Launch, RingFull, NextWave, Visit, SplitShare, Drain,
       Hold, Arrived, Fetch, Guessing, Launching, Launched, Copied
  <2>6. CASE Free \/ KernelDone \/ Terminated \/ UNCHANGED vars
             \/ (\E l \in Layers, r \in BOOLEAN : Begin(l, r))
    BY <1>0, <1>1, <2>6 DEF Free, KernelDone, Terminated, vars, Begin, RingOK
  <2>. QED  BY <2>1, <2>2, <2>4, <2>5, <2>6, EndShape DEF Next, Host, Device, Copy, Guess
<1>2. ASSUME ~opened.streamed PROVE Len(pending') = 0
  <2>1. Len(pending) = 0
    BY <1>2 DEF IInv, RingOK
  <2>2. CASE CopyDone
    BY <1>0, <2>1, <2>2, CopyDoneShape
  <2>3. CASE ~CopyDone
    <3>1. PICK n \in 0 .. Len(pending) : pending' = SubSeq(pending, n + 1, Len(pending))
      BY <1>2, <2>3, RingShape
    <3>2. Len(pending') = Len(pending) - n
      BY <1>0, <3>1, RestOf
    <3>3. n = 0
      BY <2>1
    <3>. QED  BY <2>1, <3>2, <3>3
  <2>. QED  BY <2>2, <2>3
<1>. QED  BY <1>0, <1>1, <1>2 DEF RingOK

\* What is in use is in slots that the call holds.
LEMMA UseNext ==
  ASSUME IInv, Next \/ UNCHANGED vars
  PROVE  UseOK'
<1>0. /\ UseOK /\ TablesOK /\ CallOK /\ call \in Calls /\ NoSlot \notin Slots
      /\ where \in [Places -> Slots \cup {NoSlot}] /\ held \in [Slots -> BOOLEAN]
      /\ place \in [Slots -> Places \cup {NoPlace}]
  BY Constants DEF IInv, QueuesOK, TypeOK
<1>1. CASE call'.use = {}
  BY <1>1 DEF UseOK
<1>2. CASE Ended
  BY <1>1, <1>2, RestFields DEF Ended
<1>3. CASE \E l \in Layers, r \in BOOLEAN : Begin(l, r)
  BY <1>1, <1>3 DEF Begin, CallOf
<1>4. CASE NextWave
  <2>1. call'.use = call.use
    BY <1>0, <1>4 DEF NextWave, Calls
  <2>. QED  BY <1>1, <1>4, <2>1 DEF NextWave, Launched
<1>5. CASE Visit
  <2>1. PICK S \in Batches, seen \in SUBSET Slots : Look(S, seen)
    BY <1>5 DEF Visit
  <2>2. call'.use = call.use \cup {<<where[p], p>> : p \in S \ Lacks(S)}
    BY <1>5, <2>1, VisitCall
  <2>3. held' = [s \in Slots |-> held[s] \/ s \in {where[p] : p \in S \ Lacks(S)}] /\ place' = place
    BY <1>5, <2>1 DEF Look, Visit
  <2>4. S \in SUBSET Places /\ \A p \in S \ Lacks(S) : where[p] \in Slots
    BY <1>0 DEF Batches, Calls, Lacks
  <2>5. \A p \in S \ Lacks(S) : place[where[p]] = p
    BY <1>0, <2>4 DEF TablesOK
  <2>6. call.use \in SUBSET (Slots \X Places)
    BY <1>0 DEF Calls
  <2>7. \A u \in call.use : place'[u[1]] = u[2] /\ held'[u[1]]
    BY <1>0, <2>3, <2>6 DEF UseOK
  <2>8. ASSUME NEW p \in S \ Lacks(S) PROVE place'[where[p]] = p /\ held'[where[p]]
    BY <2>3, <2>4, <2>5
  <2>9. ASSUME NEW u \in call'.use PROVE place'[u[1]] = u[2] /\ held'[u[1]]
    BY <2>2, <2>7, <2>8
  <2>. QED  BY <2>9 DEF UseOK
<1>6. ASSUME NEW s \in Slots, NEW p \in Places, FillMissing(s, p) \/ GuessCopy(s, p) PROVE UseOK'
  <2>1. call'.use \in {call.use, call.use \cup {<<s, p>>}}
    BY <1>6, FillCall
  <2>2. place' = [place EXCEPT ![s] = p] /\ held' = [held EXCEPT ![s] = TRUE] /\ ~held[s]
    BY <1>6, Free_NotHeld DEF FillMissing, GuessCopy, Fill
  <2>3. call.use \in SUBSET (Slots \X Places)
    BY <1>0 DEF Calls
  <2>4. \A u \in call.use : u[1] # s /\ place'[u[1]] = u[2] /\ held'[u[1]]
    BY <1>0, <2>2, <2>3 DEF UseOK
  <2>5. place'[s] = p /\ held'[s]
    BY <1>0, <2>2
  <2>. QED  BY <2>1, <2>4, <2>5 DEF UseOK
<1>7. CASE (\E p \in Places : GuessSkip(p)) \/ GuessNone \/ (\E some \in Portions : Launch(some))
           \/ RingFull \/ SplitShare \/ Drain \/ Hold \/ Arrived
  <2>1. call'.use \subseteq call.use
    BY <1>0, <1>7 DEF GuessSkip, GuessNone, Launch, RingFull, SplitShare, Drain, Hold, Arrived, Calls
  <2>2. place' = place /\ held' = held
    BY <1>7 DEF GuessSkip, GuessNone, Launch, RingFull, SplitShare, Drain, Hold, Arrived, table
  <2>. QED  BY <1>0, <2>1, <2>2 DEF UseOK
<1>8. CASE Free \/ Device \/ Terminated \/ UNCHANGED vars
  <2>1. UNCHANGED <<call, place, held>>
    BY <1>8 DEF Free, Device, CopyDone, KernelDone, Terminated, vars, table
  <2>. QED  BY <1>0, <2>1 DEF UseOK
<1>. QED  BY <1>2, <1>3, <1>4, <1>5, <1>6, <1>7, <1>8, EndShape DEF Next, Host, Copy, Guess

-----------------------------------------------------------------------------
(* The slots' bytes. *)

\* The copies into a slot stay queued, though those nobody holds are spoilt.
SameCopies(t) ==
  /\ CopiesTo(t)' = CopiesTo(t)
  /\ \A i \in CopiesTo(t) :
       \/ copies'[i] = copies[i]
       \/ opened.streamed /\ copies[i].place \in Places /\ users'[copies[i].place] = 0

LEMMA SpoiltCopies ==
  ASSUME IInv, NEW q \in Seq(Work), NEW t \in Slots, copies' = q \/ copies' = Spoilt(q, users'),
         \/ q = copies
         \/ \E s \in Slots \ {t}, p \in Places : q = Append(copies, [slot |-> s, place |-> p])
  PROVE  SameCopies(t)
<1>1. Len(copies) \in Nat /\ DOMAIN copies = 1 .. Len(copies) /\ QueuesOK
  BY Pieces DEF IInv
<1>2. /\ \A i \in 1 .. Len(copies) : i \in DOMAIN q /\ q[i] = copies[i]
      /\ \A i \in DOMAIN q : q[i].slot = t => i \in 1 .. Len(copies)
  <2>1. CASE q = copies
    BY <1>1, <2>1
  <2>2. ASSUME NEW s \in Slots \ {t}, NEW p \in Places, q = Append(copies, [slot |-> s, place |-> p])
        PROVE  /\ \A i \in 1 .. Len(copies) : i \in DOMAIN q /\ q[i] = copies[i]
               /\ \A i \in DOMAIN q : q[i].slot = t => i \in 1 .. Len(copies)
    <3>1. /\ DOMAIN q = 1 .. Len(copies) + 1
          /\ \A i \in 1 .. Len(copies) : q[i] = copies[i]
          /\ q[Len(copies) + 1] = [slot |-> s, place |-> p]
      <4>. DEFINE longer == Append(copies, [slot |-> s, place |-> p])
      <4>1. /\ DOMAIN longer = 1 .. Len(copies) + 1
            /\ \A i \in 1 .. Len(copies) : longer[i] = copies[i]
            /\ longer[Len(copies) + 1] = [slot |-> s, place |-> p]
        BY <1>1, CopiesGrow
      <4>2. q = longer
        BY <2>2
      <4>. HIDE DEF longer
      <4>. QED  BY <4>1, <4>2
    <3>. QED  BY <1>1, <3>1
  <2>. QED  BY <2>1, <2>2
<1>3. /\ DOMAIN copies' = DOMAIN q
      /\ \A i \in DOMAIN q :
           /\ copies'[i].slot = q[i].slot
           /\ \/ copies'[i] = q[i]
              \/ opened.streamed /\ q[i].place \in Places /\ users'[q[i].place] = 0
  BY SpoiltShape
<1>4. CopiesTo(t)' = CopiesTo(t)
  BY <1>1, <1>2, <1>3 DEF CopiesTo
<1>. QED  BY <1>1, <1>2, <1>3, <1>4 DEF SameCopies, CopiesTo

\* What a step does to a slot, besides finishing a copy.
LEMMA SlotShape ==
  ASSUME IInv, Next \/ UNCHANGED vars, ~CopyDone, NEW t \in Slots
  PROVE  \/ SameCopies(t)
         \/ \E p \in Places : Given(t, p) /\ (FillMissing(t, p) \/ GuessCopy(t, p))
         \/ Emptied(t) /\ place'[t] = NoPlace /\ filling'[t]
<1>0. /\ copies \in Seq(Work) /\ call \in Calls
      /\ place \in [Slots -> Places \cup {NoPlace}] /\ filling \in [Slots -> BOOLEAN]
  BY Pieces DEF IInv, QueuesOK, TypeOK
<1>1. copies' = copies \/ copies' = Spoilt(copies, users') => SameCopies(t)
  BY <1>0, SpoiltCopies
<1>2. CASE \/ NextWave \/ Visit \/ SplitShare \/ Hold \/ Arrived \/ Free \/ KernelDone \/ Terminated
           \/ UNCHANGED vars \/ (\E p \in Places : GuessSkip(p)) \/ GuessNone
           \/ (\E some \in Portions : Launch(some))
           \/ Drain \/ ReadFails \/ LaunchFails \/ Return \/ RingFull \/ RingFails
           \/ (\E l \in Layers, r \in BOOLEAN : Begin(l, r))
  <2>1. copies' = copies \/ copies' = Spoilt(copies, users')
    BY <1>2 DEF NextWave, Visit, SplitShare, Hold, Arrived, Free, KernelDone, Terminated, vars,
       GuessSkip, GuessNone, Launch, queues, Drain, ReadFails, LaunchFails, Return, RingFull,
       RingFails, Release, ReleaseRest, Begin, Settle
  <2>. QED  BY <1>1, <2>1
<1>3. ASSUME NEW s \in Slots, NEW p \in Places, FillMissing(s, p) \/ GuessCopy(s, p)
      PROVE  SameCopies(t) \/ (s = t /\ Given(t, p))
  <2>1. copies' = Append(copies, [slot |-> s, place |-> p])
    BY <1>3 DEF FillMissing, GuessCopy, Fill
  <2>2. copies' \in Seq(Work)
    BY <2>1, CopiesGrow DEF IInv
  <2>3. CASE s # t
    BY <2>1, <2>2, <2>3, SpoiltCopies
  <2>4. CASE s = t
    BY <1>3, <2>4, GivenSlot
  <2>. QED  BY <2>3, <2>4
<1>4. ASSUME NEW s \in Slots, NEW p \in Places, FillFails(s, p) \/ GuessFails(s, p)
      PROVE  SameCopies(t) \/ (Emptied(t) /\ place'[t] = NoPlace /\ filling'[t])
  <2>1. PICK q \in {copies, Append(copies, [slot |-> s, place |-> p])} : copies' = Spoilt(q, users')
    BY <1>4 DEF FillFails, GuessFails, Release, ReleaseRest
  <2>2. q \in Seq(Work)
    BY <1>0, CopiesGrow DEF IInv
  <2>3. CASE s # t
    BY <2>1, <2>2, <2>3, SpoiltCopies
  <2>4. CASE s = t
    <3>1. Emptied(s)
      BY <1>4, EmptiedSlot
    <3>2. filling' = [filling EXCEPT ![s] = TRUE] /\ place' = [place EXCEPT ![s] = NoPlace]
      BY <1>4 DEF FillFails, GuessFails
    <3>. QED  BY <1>0, <2>4, <3>1, <3>2
  <2>. QED  BY <2>3, <2>4
<1>. QED  BY <1>2, <1>3, <1>4 DEF Next, Host, Copy, Guess, Device

\* The source of a copy stays held until the copy is done.
LEMMA CoverKept ==
  ASSUME IInv, Next \/ UNCHANGED vars, ~CopyDone, NEW i \in DOMAIN copies, NEW p \in Places,
         Covered(i, p)
  PROVE  Covered(i, p)' \/ (pc = "full" /\ pc' = "idle" /\ p = call.cur)
<1>0. /\ pending \in Seq(Entries) /\ Len(pending) \in Nat /\ DOMAIN pending = 1 .. Len(pending)
      /\ \A j \in DOMAIN pending : pending[j] \in Entries
      /\ Len(copies) \in Nat /\ DOMAIN copies = 1 .. Len(copies) /\ i \in Nat /\ i > 0
      /\ copies # <<>> /\ copies' \in Seq(Work) /\ Len(copies') \in Nat /\ Len(copies) <= Len(copies')
  <2>1. /\ pending \in Seq(Entries) /\ Len(pending) \in Nat /\ DOMAIN pending = 1 .. Len(pending)
        /\ \A j \in DOMAIN pending : pending[j] \in Entries
        /\ Len(copies) \in Nat /\ DOMAIN copies = 1 .. Len(copies)
    BY Pieces DEF IInv
  <2>2. copies # <<>>
    OBVIOUS
  <2>. QED  BY <2>1, <2>2, CopiesType
<1>1. CASE pc = "full" /\ call.cur = p
  <2>1. CASE Ended
    BY <1>1, <2>1 DEF Ended
  <2>2. CASE RingFull
    <3>. DEFINE e == Entry(p, Len(copies))
    <3>1. pending' = Append(Tail(pending), e)
      BY <1>1, <2>2 DEF RingFull
    <3>2. pending # <<>>
      BY <1>0, <1>1, EmptySeq DEF IInv, RingOK
    <3>3. Tail(pending) \in Seq(Entries) /\ e \in Entries
      BY <1>0, <3>2, HeadTailProperties DEF Entry, Entries
    <3>4. /\ Len(Tail(pending)) + 1 \in DOMAIN pending'
          /\ pending'[Len(Tail(pending)) + 1] = e
      <4>1. Len(Tail(pending)) \in Nat
        BY <3>3, LenProperties
      <4>2. /\ pending' \in Seq(Entries) /\ Len(pending') = Len(Tail(pending)) + 1
            /\ pending'[Len(Tail(pending)) + 1] = e
        BY <3>1, <3>3, <4>1, AppendProperties
      <4>. QED  BY <4>1, <4>2, LenProperties
    <3>5. e.place = p /\ e.left >= i
      BY <1>0 DEF Entry
    <3>. QED  BY <3>4, <3>5 DEF Covered
  <2>3. CASE Free \/ KernelDone \/ Terminated \/ UNCHANGED vars
             \/ (\E l \in Layers, r \in BOOLEAN : Begin(l, r))
    BY <1>1, <2>3 DEF Free, KernelDone, Terminated, vars, Begin, Idle, Covered
  <2>4. CASE \/ (\E q \in Places : GuessSkip(q)) \/ GuessNone \/ (\E some \in Portions : Launch(some))
             \/ NextWave \/ Visit \/ SplitShare \/ Drain \/ Hold \/ Arrived
             \/ (\E s \in Slots, q \in Places : FillMissing(s, q) \/ GuessCopy(s, q))
    BY <1>1, <2>4 DEF GuessSkip, GuessNone, Launch, NextWave, Visit, SplitShare, Drain, Hold, Arrived,
       FillMissing, GuessCopy, Guessing, Launching, Launched, Copied
  <2>. QED  BY <2>1, <2>2, <2>3, <2>4, EndShape DEF Next, Host, Device, Copy, Guess
<1>2. ASSUME NEW j \in DOMAIN pending, pending[j].place = p, pending[j].left >= i
      PROVE  Covered(i, p)'
  <2>0. ASSUME NEW n \in 0 .. Len(pending), Finish(n)
        PROVE  /\ SubSeq(pending, n + 1, Len(pending)) \in Seq(Entries)
               /\ \E k \in DOMAIN SubSeq(pending, n + 1, Len(pending)) :
                    SubSeq(pending, n + 1, Len(pending))[k] = pending[j]
    <3>1. ~(j <= n)
      BY <1>0, <1>2, <2>0 DEF Finish
    <3>2. j - n \in 1 .. (Len(pending) - n) /\ n + (j - n) = j
      BY <1>0, <3>1
    <3>3. /\ SubSeq(pending, n + 1, Len(pending)) \in Seq(Entries)
          /\ DOMAIN SubSeq(pending, n + 1, Len(pending)) = 1 .. (Len(pending) - n)
          /\ SubSeq(pending, n + 1, Len(pending))[j - n] = pending[n + (j - n)]
      BY <1>0, <3>2, RestOf
    <3>. QED  BY <3>2, <3>3
  <2>1. ASSUME NEW n \in 0 .. Len(pending), pending' = SubSeq(pending, n + 1, Len(pending)), Finish(n)
        PROVE  Covered(i, p)'
    BY <1>2, <2>0, <2>1 DEF Covered
  <2>2. ASSUME NEW n \in {0, 1} \cap 0 .. Len(pending), NEW q \in Places, Finish(n),
               pending' = Append(SubSeq(pending, n + 1, Len(pending)), Entry(q, Len(copies')))
        PROVE  Covered(i, p)'
    <3>. DEFINE r == SubSeq(pending, n + 1, Len(pending))
    <3>1. PICK k \in DOMAIN r : r[k] = pending[j]
      BY <2>0, <2>2
    <3>2. r \in Seq(Entries) /\ Entry(q, Len(copies')) \in Entries
      BY <1>0, <2>0, <2>2 DEF Entry, Entries
    <3>. HIDE DEF r
    <3>3. k \in DOMAIN pending' /\ pending'[k] = r[k]
      <4>1. pending' = Append(r, Entry(q, Len(copies')))
        BY <2>2 DEF r
      <4>2. /\ Len(r) \in Nat /\ DOMAIN r = 1 .. Len(r) /\ k \in 1 .. Len(r)
        BY <3>2, LenProperties
      <4>. QED  BY <3>2, <4>1, <4>2, AppendProperties, LenProperties
    <3>. QED  BY <1>2, <3>1, <3>3 DEF Covered
  <2>. QED  BY <2>1, <2>2, RingShape
<1>. QED  BY <1>1, <1>2 DEF Covered

\* A covered copy's source is held.
LEMMA CoveredNext ==
  ASSUME QueuesOK', HoldsAreOwed', NEW i, NEW p \in Places, Covered(i, p)', opened'.streamed
  PROVE  users'[p] > 0
<1>1. users'[p] = Mine(p)' + Owed(pending', p)
  BY OwedForm
<1>2. pending' \in Seq(Entries)
  BY DEF QueuesOK
<1>3. Owed(pending', p) \in Nat /\ \A j \in DOMAIN pending' : pending'[j].place = p => Owed(pending', p) > 0
  BY <1>2, OwedType
<1>4. CASE pc' = "full" /\ call'.cur = p
  BY <1>1, <1>3, <1>4, Constants DEF Mine, InHand
<1>5. CASE \E j \in DOMAIN pending' : pending'[j].place = p
  BY <1>1, <1>3, <1>5 DEF Mine
<1>. QED  BY <1>4, <1>5 DEF Covered

\* A slot is given to another expert only by its own fill.
LEMMA PlaceKept ==
  ASSUME IInv, Next \/ UNCHANGED vars, NEW t \in Slots, place'[t] # NoPlace,
         ~\E p \in Places : FillMissing(t, p) \/ GuessCopy(t, p)
  PROVE  place'[t] = place[t]
<1>0. place \in [Slots -> Places \cup {NoPlace}]
  BY DEF IInv, QueuesOK, TypeOK
<1>1. ASSUME NEW s \in Slots, NEW p \in Places, FillMissing(s, p) \/ GuessCopy(s, p)
      PROVE  place'[t] = place[t]
  <2>1. s # t /\ place' = [place EXCEPT ![s] = p]
    BY <1>1 DEF FillMissing, GuessCopy, Fill
  <2>. QED  BY <1>0, <2>1
<1>2. ASSUME NEW s \in Slots, Emptied(s) PROVE place'[t] = place[t]
  BY <1>0, <1>2 DEF Emptied
<1>. QED  BY <1>1, <1>2, TableShape

\* When the wait for the ring fails, the copy's slot is emptied.
LEMMA CurEmptied ==
  ASSUME IInv, Next \/ UNCHANGED vars, pc = "full", pc' = "idle", NEW t \in Slots,
         place[t] = call.cur
  PROVE  place'[t] = NoPlace
<1>0. TablesOK /\ place \in [Slots -> Places \cup {NoPlace}] /\ call.cur # NoPlace
  BY DEF IInv, QueuesOK, TypeOK, CallOK
<1>1. RingFails
  BY DEF Next, Host, Copy, Guess, Device, Begin, NextWave, Visit, SplitShare, Drain, Hold,
     Arrived, ReadFails, FillMissing, FillFails, RingFull, Launch, LaunchFails, GuessCopy, GuessFails,
     GuessSkip, GuessNone, Return, Free, CopyDone, KernelDone, Terminated, vars, Idle, Guessing,
     Launching, Launched, Copied
<1>2. where[call.cur] = t
  BY <1>0 DEF TablesOK
<1>. QED  BY <1>0, <1>1, <1>2 DEF RingFails

\* The last copy finishes, or one before it.
LEMMA BytesDone ==
  ASSUME IInv, CopyDone, NEW t \in Slots
  PROVE  SlotTrue(t)'
<1>0. /\ Len(copies) \in Nat /\ Len(copies) > 0 /\ DOMAIN copies = 1 .. Len(copies)
      /\ DOMAIN copies' = 1 .. Len(copies) - 1
      /\ \A i \in 1 .. Len(copies) - 1 : copies'[i] = copies[i + 1]
      /\ copies[1] \in Work /\ bytes' = [bytes EXCEPT ![copies[1].slot] = copies[1].place]
      /\ bytes \in [Slots -> Places \cup {NoPlace}]
      /\ UNCHANGED <<opened, place, pc, call>>
      /\ \A i \in DOMAIN copies : copies[i] \in Work
  BY Pieces, CopyDoneShape, LenProperties DEF IInv, CopyDone, table, QueuesOK, TypeOK
<1>1. SlotTrue(t)
  BY DEF IInv, BytesOK
<1>2. CopiesTo(t)' = {i \in 1 .. Len(copies) - 1 : i + 1 \in CopiesTo(t)}
  BY <1>0 DEF CopiesTo
<1>3. ASSUME place[t] # NoPlace, CopiesTo(t)' = {} PROVE bytes'[t] = place[t]
  <2>1. \A i \in CopiesTo(t) : i = 1
    <3>1. ASSUME NEW i \in CopiesTo(t), i # 1 PROVE FALSE
      <4>1. i \in 1 .. Len(copies)
        BY <1>0 DEF CopiesTo
      <4>2. i - 1 \in 1 .. Len(copies) - 1 /\ (i - 1) + 1 = i
        BY <1>0, <3>1, <4>1
      <4>. QED  BY <1>2, <1>3, <3>1, <4>2
    <3>. QED  BY <3>1
  <2>2. CASE CopiesTo(t) = {}
    <3>1. copies[1].slot # t
      BY <1>0, <2>2 DEF CopiesTo
    <3>. QED  BY <1>0, <1>1, <1>3, <2>2, <3>1 DEF SlotTrue
  <2>3. CASE CopiesTo(t) # {}
    <3>1. 1 \in CopiesTo(t) /\ LastTo(t, 1)
      BY <2>1, <2>3 DEF LastTo
    <3>2. copies[1].slot = t /\ copies[1].place = place[t]
      BY <1>0, <1>1, <1>3, <3>1 DEF SlotTrue, CopiesTo
    <3>. QED  BY <1>0, <3>2
  <2>. QED  BY <2>2, <2>3
<1>4. ASSUME place[t] # NoPlace, NEW i \in DOMAIN copies', LastTo(t, i)'
      PROVE  /\ copies'[i].place = place[t]
             /\ opened.streamed => Covered(i, place[t])'
  <2>1. i \in 1 .. Len(copies) - 1 /\ i + 1 \in DOMAIN copies /\ i \in Nat
    BY <1>0
  <2>2. LastTo(t, i + 1)
    <3>1. i + 1 \in CopiesTo(t) /\ \A j \in CopiesTo(t)' : j <= i
      BY <1>2, <1>4 DEF LastTo
    <3>2. ASSUME NEW j \in CopiesTo(t), ~(j <= i + 1) PROVE FALSE
      <4>1. j \in 1 .. Len(copies)
        BY <1>0 DEF CopiesTo
      <4>2. j - 1 \in 1 .. Len(copies) - 1 /\ (j - 1) + 1 = j
        BY <1>0, <2>1, <3>2, <4>1
      <4>3. j - 1 \in CopiesTo(t)'
        BY <1>2, <4>2
      <4>. QED  BY <2>1, <3>1, <3>2, <4>1, <4>3
    <3>. QED  BY <3>1, <3>2 DEF LastTo
  <2>3. copies[i + 1].place = place[t] /\ (opened.streamed => Covered(i + 1, place[t]))
    BY <1>1, <1>4, <2>1, <2>2 DEF SlotTrue
  <2>4. ASSUME Covered(i + 1, place[t]) PROVE Covered(i, place[t])'
    <3>1. CASE pc = "full" /\ call.cur = place[t]
      BY <1>0, <3>1 DEF Covered
    <3>2. ASSUME NEW j \in DOMAIN pending, pending[j].place = place[t], pending[j].left >= i + 1
          PROVE  Covered(i, place[t])'
      <4>1. /\ j \in DOMAIN pending' /\ pending'[j].place = pending[j].place
            /\ pending'[j].left = Sooner(pending[j].left) /\ pending[j].left \in Nat
        BY CopyDoneShape, Pieces DEF IInv, Entries
      <4>2. pending'[j].left >= i
        BY <2>1, <3>2, <4>1 DEF Sooner
      <4>. QED  BY <1>0, <3>2, <4>1, <4>2 DEF Covered
    <3>. QED  BY <2>4, <3>1, <3>2 DEF Covered
  <2>. QED  BY <1>0, <2>1, <2>3, <2>4
<1>. QED  BY <1>0, <1>3, <1>4 DEF SlotTrue

\* A slot that stays given keeps its last copy, which nobody spoils.
LEMMA BytesStay ==
  ASSUME IInv, Next \/ UNCHANGED vars, ~CopyDone, NEW t \in Slots, QueuesOK', HoldsAreOwed',
         SameCopies(t), place'[t] = place[t], place[t] # NoPlace,
         ~(pc = "full" /\ pc' = "idle" /\ place[t] = call.cur)
  PROVE  SlotTrue(t)'
<1>0. /\ place[t] \in Places /\ bytes' = bytes /\ opened' = opened /\ SlotTrue(t)
  BY BytesSame, TableTypes DEF IInv, QueuesOK, TypeOK, BytesOK
<1>1. CopiesTo(t)' = CopiesTo(t) /\ \A i : LastTo(t, i)' <=> LastTo(t, i)
  BY DEF SameCopies, LastTo
<1>2. ASSUME NEW i \in DOMAIN copies', LastTo(t, i)'
      PROVE  /\ copies'[i].place = place[t]
             /\ opened.streamed => Covered(i, place[t])'
  <2>1. LastTo(t, i) /\ i \in DOMAIN copies /\ i \in CopiesTo(t)
    BY <1>1, <1>2 DEF LastTo, CopiesTo
  <2>2. copies[i].place = place[t] /\ (opened.streamed => Covered(i, place[t]))
    BY <1>0, <2>1 DEF SlotTrue
  <2>3. opened.streamed => Covered(i, place[t])'
    BY <1>0, <2>1, <2>2, CoverKept
  <2>4. opened.streamed => users'[place[t]] > 0
    BY <1>0, <2>3, CoveredNext
  <2>5. copies'[i] = copies[i]
    BY <2>1, <2>2, <2>4 DEF SameCopies
  <2>. QED  BY <2>2, <2>3, <2>5
<1>. QED  BY <1>0, <1>1, <1>2 DEF SlotTrue

\* A slot just given has its expert's copy behind all others.
LEMMA BytesGiven ==
  ASSUME IInv, NEW t \in Slots, NEW p \in Places, FillMissing(t, p) \/ GuessCopy(t, p), QueuesOK'
  PROVE  SlotTrue(t)'
<1>. PICK n \in Nat : n = Len(copies) + 1
  BY Pieces DEF IInv
<1>0. /\ Given(t, p) /\ Len(copies) \in Nat /\ DOMAIN copies' = 1 .. n
      /\ copies'[n] = [slot |-> t, place |-> p] /\ Len(copies') = n
      /\ opened' = opened /\ place'[t] = p
  <2>1. Given(t, p)
    BY GivenSlot
  <2>2. copies' = Append(copies, [slot |-> t, place |-> p]) /\ opened' = opened /\ place'[t] = p
    BY <2>1 DEF Given, IInv, QueuesOK, TypeOK
  <2>. QED  BY <2>1, <2>2, CopiesGrow, Pieces DEF IInv
<1>1. n \in CopiesTo(t)' /\ \A i : LastTo(t, i)' => i = n
  <2>1. n \in CopiesTo(t)'
    BY <1>0 DEF CopiesTo
  <2>2. ASSUME NEW i, LastTo(t, i)' PROVE i = n
    <3>1. i \in 1 .. n /\ n <= i
      BY <1>0, <2>1, <2>2 DEF LastTo, CopiesTo
    <3>. QED  BY <1>0, <3>1
  <2>. QED  BY <2>1, <2>2
<1>2. ASSUME opened.streamed PROVE Covered(n, p)'
  <2>1. CASE pc' = "full"
    BY <2>1, FillCall DEF Covered
  <2>2. CASE pc' # "full"
    <3>1. pending' = Append(pending, Entry(p, Len(copies')))
      BY <1>2, <2>2 DEF FillMissing, GuessCopy, Fill
    <3>2. pending \in Seq(Entries) /\ Len(pending) \in Nat /\ Entry(p, n) \in Entries
      BY <1>0, Pieces DEF IInv, Entry, Entries
    <3>3. Len(pending) + 1 \in DOMAIN pending' /\ pending'[Len(pending) + 1] = Entry(p, n)
      BY <1>0, <3>1, <3>2, AppendProperties, LenProperties
    <3>4. Entry(p, n).place = p /\ Entry(p, n).left >= n
      BY <1>0 DEF Entry
    <3>5. \E j \in DOMAIN pending' : pending'[j].place = p /\ pending'[j].left >= n
      BY <3>3, <3>4
    <3>. QED  BY <3>5 DEF Covered
  <2>. QED  BY <2>1, <2>2
<1>3. copies'[n].place = p
  BY <1>0
<1>. QED  BY <1>0, <1>1, <1>2, <1>3 DEF SlotTrue

\* Copies under way into a slot are known to be.
LEMMA FillingNext ==
  ASSUME IInv, Next \/ UNCHANGED vars, NEW t \in Slots, CopiesTo(t)' # {}
  PROVE  filling'[t]
<1>0. CopiesTo(t) # {} => filling[t]
  BY DEF IInv, BytesOK
<1>1. CASE CopyDone
  <2>1. CopiesTo(t) # {}
    <3>1. /\ Len(copies) \in Nat /\ DOMAIN copies = 1 .. Len(copies)
          /\ DOMAIN copies' = 1 .. Len(copies) - 1
          /\ \A i \in 1 .. Len(copies) - 1 : copies'[i] = copies[i + 1]
      BY <1>1, Pieces, CopyDoneShape, LenProperties DEF IInv
    <3>2. PICK i \in CopiesTo(t)' : TRUE
      OBVIOUS
    <3>3. i \in 1 .. Len(copies) - 1 /\ copies'[i].slot = t
      BY <3>1, <3>2 DEF CopiesTo
    <3>4. i + 1 \in DOMAIN copies /\ copies[i + 1].slot = t
      BY <3>1, <3>3
    <3>. QED  BY <3>4 DEF CopiesTo
  <2>. QED  BY <1>0, <1>1, <2>1 DEF CopyDone, table
<1>2. ASSUME ~CopyDone, SameCopies(t) PROVE filling'[t]
  <2>1. CopiesTo(t) # {} /\ filling[t]
    BY <1>0, <1>2 DEF SameCopies
  <2>2. CASE Visit
    <3>1. PICK S, seen : Look(S, seen)
      BY <2>2 DEF Visit
    <3>2. t \notin seen
      BY <2>1, <3>1 DEF Look
    <3>. QED  BY <2>1, <3>1, <3>2 DEF Look
  <2>3. CASE ~Visit
    <3>1. filling' = filling \/ \E s \in Slots : filling' = [filling EXCEPT ![s] = TRUE]
      BY <1>2, <2>3 DEF Next, Host, Copy, Guess, Device, Begin, NextWave, SplitShare, Drain, Hold,
         Arrived, ReadFails, FillMissing, FillFails, RingFull, RingFails, Launch, LaunchFails,
         GuessCopy, GuessFails, GuessSkip, GuessNone, Return, Free, KernelDone, Terminated, vars,
         queues, table, Fill
    <3>. QED  BY <2>1, <3>1 DEF IInv, QueuesOK, TypeOK
  <2>. QED  BY <2>2, <2>3
<1>3. ASSUME NEW p \in Places, Given(t, p) PROVE filling'[t]
  BY <1>3 DEF Given, IInv, QueuesOK, TypeOK
<1>. QED  BY <1>1, <1>2, <1>3, SlotShape

LEMMA BytesNext ==
  ASSUME IInv, Next \/ UNCHANGED vars, QueuesOK', HoldsAreOwed'
  PROVE  BytesOK'
<1>1. ASSUME NEW t \in Slots PROVE SlotTrue(t)'
  <2>0. TablesOK /\ place \in [Slots -> Places \cup {NoPlace}] /\ NoPlace \notin Places
    BY Constants DEF IInv, QueuesOK, TypeOK
  <2>1. CASE CopyDone
    BY <2>1, BytesDone
  <2>2. CASE place'[t] = NoPlace
    BY <2>2 DEF SlotTrue
  <2>3. CASE \E p \in Places : FillMissing(t, p) \/ GuessCopy(t, p)
    BY <2>3, BytesGiven
  <2>4. ASSUME ~CopyDone, SameCopies(t), place'[t] # NoPlace,
               ~\E p \in Places : FillMissing(t, p) \/ GuessCopy(t, p)
        PROVE  SlotTrue(t)'
    <3>1. place'[t] = place[t]
      BY <2>0, <2>4, PlaceKept
    <3>2. ~(pc = "full" /\ pc' = "idle" /\ place[t] = call.cur)
      BY <2>0, <2>4, <3>1, CurEmptied
    <3>. QED  BY <2>4, <3>1, <3>2, BytesStay
  <2>. QED  BY <2>1, <2>2, <2>3, <2>4, SlotShape
<1>2. \A t \in Slots : CopiesTo(t)' # {} => filling'[t]
  BY FillingNext
<1>. QED  BY <1>1, <1>2 DEF BytesOK

-----------------------------------------------------------------------------
(* What the kernels read stays. *)

\* A slot s that a kernel, which waits for w copies, reads for the place p.
Safe(s, p, w) ==
  /\ place[s] = p
  /\ ~Resting => held[s]
  /\ pc = "full" => p # call.cur
  /\ \A i \in CopiesTo(s) : i <= w

\* Slots are let go of when the call ends, or no kernel is left.
LEMMA HeldKept ==
  ASSUME IInv, Next \/ UNCHANGED vars, kernels # <<>>, NEW s \in Slots, held[s] \/ Resting
  PROVE  Resting' \/ held'[s]
<1>0. held \in [Slots -> BOOLEAN]
  BY DEF IInv, QueuesOK, TypeOK
<1>1. CASE (\E l \in Layers, r \in BOOLEAN : Begin(l, r)) \/ NextWave
  BY <1>1 DEF Begin, NextWave, Synchronised
<1>2. CASE \/ ReadFails \/ LaunchFails \/ RingFails \/ Return \/ Free
           \/ \E t \in Slots, p \in Places : FillFails(t, p) \/ GuessFails(t, p)
  BY <1>2 DEF ReadFails, LaunchFails, RingFails, Return, Free, FillFails, GuessFails, Resting
<1>3. CASE Device \/ Terminated \/ UNCHANGED vars
  BY <1>3 DEF Device, CopyDone, KernelDone, Terminated, vars, table, Resting
<1>4. CASE Visit
  BY <1>0, <1>4 DEF Visit, Look, Resting, Copied
<1>5. CASE SplitShare \/ Drain \/ Hold \/ Arrived \/ RingFull
  BY <1>5 DEF SplitShare, Drain, Hold, Arrived, RingFull, table, Resting
<1>6. CASE (\E p \in Places : GuessSkip(p)) \/ GuessNone \/ (\E some \in Portions : Launch(some))
  BY <1>6 DEF GuessSkip, GuessNone, Launch, table, Resting
<1>7. ASSUME NEW t \in Slots, NEW p \in Places, FillMissing(t, p) \/ GuessCopy(t, p)
      PROVE  held'[s]
  <2>1. Given(t, p)
    BY <1>7, GivenSlot
  <2>. QED  BY <2>1 DEF Given, Resting
<1>. QED  BY <1>1, <1>2, <1>3, <1>4, <1>5, <1>6, <1>7 DEF Next, Host, Copy, Guess

\* The place that waits for the ring was given its slot by this step or is
\* that of before.
LEMMA CurShape ==
  ASSUME IInv, Next \/ UNCHANGED vars, pc' = "full"
  PROVE  \/ pc = "full" /\ call' = call
         \/ where[call'.cur] = NoSlot
<1>1. ASSUME NEW t \in Slots, NEW p \in Places, FillMissing(t, p) \/ GuessCopy(t, p)
      PROVE  where[call'.cur] = NoSlot
  <2>1. Given(t, p) /\ call'.cur = p
    BY <1>1, GivenSlot, FillCall
  <2>. QED  BY <2>1 DEF Given
<1>2. CASE Device \/ Terminated \/ UNCHANGED vars
  BY <1>2 DEF Device, CopyDone, KernelDone, Terminated, vars
<1>3. \/ \E t \in Slots, p \in Places : FillMissing(t, p) \/ GuessCopy(t, p)
      \/ Device \/ Terminated \/ UNCHANGED vars
  BY DEF Next, Host, Copy, Guess, Begin, NextWave, Visit, SplitShare, Drain, Hold, Fetch,
     Arrived, ReadFails, FillFails, RingFull, RingFails, Launch, LaunchFails, GuessFails,
     GuessSkip, GuessNone, Return, Free, Guessing, Launching, Launched, Copied
<1>. QED  BY <1>1, <1>2, <1>3

LEMMA SafeKept ==
  ASSUME IInv, Next \/ UNCHANGED vars, ~CopyDone, kernels # <<>>,
         NEW s \in Slots, NEW p \in Places, NEW w \in Nat, Safe(s, p, w)
  PROVE  Safe(s, p, w)'
<1>0. /\ TablesOK /\ NoPlace \notin Places /\ NoSlot \notin Slots
      /\ place \in [Slots -> Places \cup {NoPlace}]
      /\ place[s] = p /\ where[p] = s
  BY Constants DEF IInv, QueuesOK, TypeOK, TablesOK, Safe
<1>1. Resting' \/ held'[s]
  BY HeldKept DEF Safe
<1>2. ASSUME NEW t \in Slots, NEW q \in Places, Given(t, q) PROVE t # s /\ q # p
  BY <1>0, <1>2 DEF Given, Safe, Resting
<1>3. ASSUME NEW t \in Slots, Emptied(t) PROVE t # s
  BY <1>0, <1>3 DEF Emptied, Safe, Resting
<1>4. place'[s] = p
  <2>1. CASE UNCHANGED <<place, where>>
    BY <1>0, <2>1
  <2>2. ASSUME NEW t \in Slots, NEW q \in Places, Given(t, q) PROVE place'[s] = p
    BY <1>0, <1>2, <2>2 DEF Given
  <2>3. ASSUME NEW t \in Slots, Emptied(t) PROVE place'[s] = p
    BY <1>0, <1>3, <2>3 DEF Emptied
  <2>. QED  BY <2>1, <2>2, <2>3, TableShape
<1>5. SameCopies(s)
  BY <1>2, <1>3, SlotShape
<1>6. \A i \in CopiesTo(s)' : i <= w
  BY <1>5 DEF SameCopies, Safe
<1>7. pc' = "full" => p # call'.cur
  BY <1>0, CurShape DEF Safe
<1>. QED  BY <1>1, <1>4, <1>6, <1>7 DEF Safe

\* Kernels and copies, one by one.
LEMMA KernelsForm ==
  /\ KernelsOK <=> \A n \in DOMAIN kernels : \A u \in kernels[n].reads :
                     \A w : w = kernels[n].wait => Safe(u[1], u[2], w)
  /\ KernelsOK' <=> \A n \in DOMAIN kernels' : \A u \in kernels'[n].reads :
                      \A w : w = kernels'[n].wait => Safe(u[1], u[2], w)'
BY DEF KernelsOK, Safe

\* Kernels go on reading what they were queued to read.
LEMMA KernelsNext ==
  ASSUME IInv, Next \/ UNCHANGED vars
  PROVE  KernelsOK'
<1>0. /\ kernels \in Seq(Kernels) /\ Len(kernels) \in Nat /\ DOMAIN kernels = 1 .. Len(kernels)
      /\ \A n \in DOMAIN kernels : kernels[n] \in Kernels
      /\ \A n \in DOMAIN kernels : \A u \in kernels[n].reads :
           \A w : w = kernels[n].wait => Safe(u[1], u[2], w)
      /\ call \in Calls
  BY Pieces, KernelsForm DEF IInv, QueuesOK
<1>1. CASE CopyDone
  <2>1. ASSUME NEW n \in DOMAIN kernels', NEW u \in kernels'[n].reads, NEW w, w = kernels'[n].wait
        PROVE  Safe(u[1], u[2], w)'
    <3>1. n \in DOMAIN kernels /\ u \in kernels[n].reads /\ w = Sooner(kernels[n].wait)
      BY <1>1, <2>1, CopyDoneShape DEF IInv
    <3>2. PICK v \in Nat : v = kernels[n].wait
      BY <1>0, <3>1 DEF Kernels
    <3>3. Safe(u[1], u[2], v)
      BY <1>0, <3>1, <3>2
    <3>4. /\ Len(copies) \in Nat /\ DOMAIN copies = 1 .. Len(copies)
          /\ DOMAIN copies' = 1 .. Len(copies) - 1
          /\ \A i \in 1 .. Len(copies) - 1 : copies'[i] = copies[i + 1]
      BY <1>1, Pieces, CopyDoneShape, LenProperties DEF IInv
    <3>5. ASSUME NEW i \in CopiesTo(u[1])' PROVE i <= w
      <4>1. i \in 1 .. Len(copies) - 1 /\ copies'[i].slot = u[1]
        BY <3>4 DEF CopiesTo
      <4>2. i + 1 \in CopiesTo(u[1])
        BY <3>4, <4>1 DEF CopiesTo
      <4>3. i + 1 <= v
        BY <3>3, <4>2 DEF Safe
      <4>. QED  BY <3>1, <3>2, <4>1, <4>3 DEF Sooner
    <3>6. UNCHANGED <<place, held, pc, call>>
      BY <1>1 DEF CopyDone, table
    <3>. QED  BY <3>3, <3>5, <3>6 DEF Safe, Resting
  <2>. QED  BY <2>1, KernelsForm
<1>2. ASSUME ~CopyDone, NEW n \in DOMAIN kernels, NEW u \in kernels[n].reads, NEW w,
             w = kernels[n].wait
      PROVE  Safe(u[1], u[2], w)'
  <2>1. kernels # <<>> /\ u \in Slots \X Places /\ w \in Nat
    BY <1>0, <1>2, EmptySeq DEF Kernels
  <2>2. u[1] \in Slots /\ u[2] \in Places /\ Safe(u[1], u[2], w)
    BY <1>0, <1>2, <2>1
  <2>. QED  BY <1>2, <2>1, <2>2, SafeKept
<1>3. CASE ~CopyDone /\ kernels' = kernels
  BY <1>2, <1>3, KernelsForm
<1>4. CASE KernelDone /\ ~CopyDone
  <2>1. /\ DOMAIN kernels' = 1 .. Len(kernels) - 1
        /\ \A i \in 1 .. Len(kernels) - 1 : kernels'[i] = kernels[i + 1]
    BY <1>4, KernelDoneShape DEF IInv
  <2>2. ASSUME NEW n \in DOMAIN kernels', NEW u \in kernels'[n].reads, NEW w, w = kernels'[n].wait
        PROVE  Safe(u[1], u[2], w)'
    <3>1. n + 1 \in DOMAIN kernels /\ kernels'[n] = kernels[n + 1]
      BY <1>0, <2>1
    <3>. QED  BY <1>2, <1>4, <2>2, <3>1
  <2>. QED  BY <2>2, KernelsForm
<1>5. ASSUME ~CopyDone, NEW use \in SUBSET call.use, Begun(use)
      PROVE  KernelsOK'
  <2>1. use \in SUBSET (Slots \X Places)
    BY <1>0 DEF Calls
  <2>2. /\ DOMAIN kernels' = 1 .. Len(kernels) + 1
        /\ \A i \in 1 .. Len(kernels) : kernels'[i] = kernels[i]
        /\ kernels'[Len(kernels) + 1] = [reads |-> use, wait |-> Latest(use)]
    BY <1>5, <2>1, StartType DEF Begun, IInv
  <2>3. ASSUME NEW u \in use, NEW w, w = Latest(use) PROVE Safe(u[1], u[2], w)'
    <3>1. u[1] \in Slots /\ place[u[1]] = u[2] /\ held[u[1]]
      BY <2>1 DEF IInv, UseOK
    <3>2. ASSUME NEW i \in CopiesTo(u[1]) PROVE i <= w
      <4>1. filling[u[1]]
        BY <3>1, <3>2 DEF IInv, BytesOK
      <4>2. i \in Nat
        BY Pieces DEF IInv, CopiesTo
      <4>. QED  BY <2>1, <2>3, <4>1, <4>2, LatestType DEF IInv
    <3>3. UNCHANGED <<place, held, copies>> /\ pc' # "full"
      BY <1>5 DEF Begun
    <3>. QED  BY <3>1, <3>2, <3>3 DEF Safe, CopiesTo
  <2>4. ASSUME NEW n \in DOMAIN kernels', NEW u \in kernels'[n].reads, NEW w, w = kernels'[n].wait
        PROVE  Safe(u[1], u[2], w)'
    <3>1. CASE n = Len(kernels) + 1
      <4>1. u \in use /\ w = Latest(use)
        BY <2>2, <2>4, <3>1
      <4>. QED  BY <2>3, <4>1
    <3>2. CASE n # Len(kernels) + 1
      <4>1. n \in DOMAIN kernels /\ kernels'[n] = kernels[n]
        BY <1>0, <2>2, <3>2
      <4>. QED  BY <1>2, <1>5, <2>4, <4>1
    <3>. QED  BY <3>1, <3>2
  <2>. QED  BY <2>4, KernelsForm
<1>. QED  BY <1>1, <1>3, <1>4, <1>5, KernelsShape

-----------------------------------------------------------------------------
(* Sizes, and room for what a wave needs. *)

\* A subset has no more members.
LEMMA PlacesFewer ==
  ASSUME NEW S \in SUBSET Places, NEW T \in SUBSET S
  PROVE  /\ Cardinality(T) <= Cardinality(S) /\ Cardinality(T) \in Nat /\ Cardinality(S) \in Nat
         /\ IsFiniteSet(S) /\ IsFiniteSet(T)
BY PlacesFinite, FS_Subset

LEMMA FirstSize ==
  ASSUME NEW S \in SUBSET Places, NEW first \in FirstOf(S)
  PROVE  Cardinality(first) <= W /\ Cardinality(first) <= Cardinality(S)
BY PlacesFinite, Constants DEF FirstOf

LEMMA BeginCall ==
  ASSUME NEW l \in Layers, NEW r \in BOOLEAN, Begin(l, r)
  PROVE  /\ call'.missing = {} /\ call'.cpu = {} /\ call'.rows = r /\ call'.wave \in SUBSET Places
         /\ Cardinality(call'.wave) <= W /\ (~r => Cardinality(call'.wave) <= K)
<1>1. PICK ids \in IF r THEN RowsIds(l) ELSE StepIds(l), guess \in Guesses(l, r) :
             \E first \in FirstOf(ids) : call' = CallOf(l, r, ids, first, guess)
  BY DEF Begin
<1>2. PICK first \in FirstOf(ids) : call' = CallOf(l, r, ids, first, guess)
  BY <1>1
<1>3. ids \in SUBSET PlacesAt(l)
  BY DEF RowsIds, StepIds, kSubset
<1>4. ids \in SUBSET Places
  BY <1>3 DEF PlacesAt, Places
<1>5. first \in SUBSET Places /\ Cardinality(first) <= W /\ Cardinality(first) <= Cardinality(ids)
  BY <1>4, FirstSize DEF FirstOf
<1>6. ~r => Cardinality(ids) = K
  BY DEF StepIds, kSubset
<1>7. /\ call'.missing = {} /\ call'.cpu = {} /\ call'.rows = r /\ call'.wave = first
  BY <1>2 DEF CallOf
<1>. QED  BY <1>5, <1>6, <1>7

\* The other steps leave the wave and what is missing.
CallStill ==
  /\ call'.rows = call.rows /\ call'.want = call.want
  /\ call'.wave = call.wave /\ call'.missing = call.missing
  /\ call.cpu \subseteq call'.cpu /\ call'.use \subseteq call.use
  /\ held' = held \/ Guessing

LEMMA CallShape ==
  ASSUME IInv, Next \/ UNCHANGED vars
  PROVE  \/ \E l \in Layers, r \in BOOLEAN : Begin(l, r)
         \/ NextWave \/ Visit \/ Ended
         \/ \E s \in Slots, p \in Places : FillMissing(s, p)
         \/ CallStill
<1>0. call \in Calls
  BY DEF IInv, QueuesOK
<1>1. CASE \/ ReadFails \/ LaunchFails \/ RingFails \/ Return
           \/ \E s \in Slots, p \in Places : FillFails(s, p) \/ GuessFails(s, p)
  BY <1>1, EndShape
<1>2. CASE SplitShare
  <2>1. PICK share \in SUBSET call.missing : call' = [call EXCEPT !.cpu = share]
    BY <1>2 DEF SplitShare
  <2>2. call.cpu = {} /\ held' = held
    BY <1>2 DEF SplitShare, IInv, CallOK, table
  <2>. QED  BY <1>0, <2>1, <2>2 DEF Calls, CallStill
<1>3. ASSUME NEW s \in Slots, NEW p \in Places, GuessCopy(s, p), ~FillMissing(s, p) PROVE CallStill
  <2>1. Guessing
    BY <1>3 DEF GuessCopy
  <2>. QED  BY <1>3, <2>1, FillCall DEF CallStill
<1>4. CASE RingFull \/ (\E p \in Places : GuessSkip(p)) \/ GuessNone
  BY <1>0, <1>4 DEF RingFull, GuessSkip, GuessNone, Calls, CallStill, table
<1>5. ASSUME NEW some \in Portions, Launch(some) PROVE CallStill
  <2>1. call' = [call EXCEPT !.use = @ \ some] /\ held' = held
    BY <1>5 DEF Launch, table
  <2>. QED  BY <1>0, <2>1 DEF Calls, CallStill
<1>6. CASE Drain \/ Hold \/ Arrived \/ Free \/ Device \/ Terminated \/ UNCHANGED vars
  <2>1. call' = call /\ held' = held
    BY <1>6 DEF Drain, Hold, Arrived, Free, Device, CopyDone, KernelDone, Terminated, vars, table
  <2>. QED  BY <2>1 DEF CallStill
<1>. QED  BY <1>1, <1>2, <1>3, <1>4, <1>5, <1>6 DEF Next, Host, Copy, Guess

LEMMA SizesNext ==
  ASSUME IInv, Next \/ UNCHANGED vars
  PROVE  SizesOK'
<1>0. SizesOK /\ call \in Calls /\ K \in Nat \ {0} /\ Cardinality({}) = 0
  BY Constants, FS_EmptySet DEF IInv, QueuesOK
<1>1. ASSUME NEW l \in Layers, NEW r \in BOOLEAN, Begin(l, r) PROVE SizesOK'
  BY <1>0, <1>1, BeginCall DEF SizesOK
<1>2. CASE NextWave
  <2>1. PICK first : call' = [call EXCEPT !.wave = first, !.want = @ \ first]
    BY <1>2 DEF NextWave
  <2>2. call.rows
    BY <1>2 DEF NextWave, IInv, CallOK
  <2>. QED  BY <1>0, <2>1, <2>2 DEF SizesOK, Calls
<1>3. CASE Visit
  <2>1. PICK S \in Batches, seen \in SUBSET Slots : Look(S, seen)
    BY <1>3 DEF Visit
  <2>2. /\ call'.wave = call.wave \ S /\ call'.rows = call.rows /\ call'.missing = Lacks(S)
    BY <1>3, <2>1, VisitCall
  <2>3. Cardinality(Lacks(S)) <= K
    <3>1. Lacks(S) \in SUBSET Places
      BY <1>0 DEF Batches, Calls, Lacks
    <3>2. Cardinality(Lacks(S)) \in Nat
      BY <3>1, PlacesFinite
    <3>3. Cardinality(Lacks(S)) = K \/ Cardinality(Lacks(S)) < K
      BY DEF Batches
    <3>. QED  BY <1>0, <3>2, <3>3
  <2>4. Cardinality(call.wave \ S) <= Cardinality(call.wave) /\ Cardinality(call.wave \ S) \in Nat
        /\ Cardinality(call.wave) \in Nat
    <3>1. call.wave \in SUBSET Places /\ call.wave \ S \in SUBSET call.wave
      BY <1>0 DEF Calls
    <3>. QED  BY <3>1, PlacesFewer
  <2>. QED  BY <1>0, <2>2, <2>3, <2>4 DEF SizesOK
<1>4. CASE Ended
  <2>1. PICK l \in Layers : call' = Rest(l, call.rows)
    BY <1>4 DEF Ended
  <2>2. call'.wave = {} /\ call'.missing = {}
    BY <2>1, RestFields
  <2>. QED  BY <1>0, <2>2 DEF SizesOK
<1>5. ASSUME NEW s \in Slots, NEW p \in Places, FillMissing(s, p) PROVE SizesOK'
  <2>1. call'.missing = call.missing \ {p} /\ call'.wave = call.wave /\ call'.rows = call.rows
    BY <1>5, FillCall
  <2>2. call.missing \in SUBSET Places /\ call.missing \ {p} \in SUBSET call.missing
    BY <1>0 DEF Calls
  <2>3. /\ Cardinality(call.missing \ {p}) <= Cardinality(call.missing)
        /\ Cardinality(call.missing \ {p}) \in Nat /\ Cardinality(call.missing) \in Nat
    BY <2>2, PlacesFewer
  <2>. QED  BY <1>0, <2>1, <2>3 DEF SizesOK
<1>6. CASE CallStill
  BY <1>0, <1>6 DEF CallStill, SizesOK
<1>. QED  BY <1>1, <1>2, <1>3, <1>4, <1>5, <1>6, CallShape

\* The slots a wave has, and those it may still need.
Needed == Cardinality(HeldSlots) + Cardinality(call.wave) + Cardinality(call.missing \ call.cpu)

LEMMA SlotsFew ==
  ASSUME NEW S \in SUBSET Slots, NEW T \in SUBSET S
  PROVE  /\ Cardinality(T) <= Cardinality(S) /\ Cardinality(T) \in Nat /\ Cardinality(S) \in Nat
         /\ IsFiniteSet(S) /\ IsFiniteSet(T)
<1>1. IsFiniteSet(S)
  BY Constants, FS_Subset
<1>. QED  BY <1>1, FS_Subset, FS_CardinalityType

LEMMA NoneHeld ==
  ASSUME held' = Unheld
  PROVE  HeldSlots' = {} /\ Cardinality(HeldSlots') = 0
<1>1. HeldSlots' = {}
  BY DEF HeldSlots, Unheld
<1>. QED  BY <1>1, FS_EmptySet

\* Of a batch the experts that the device has are held where they are.
LEMMA VisitRoom ==
  ASSUME IInv, Visit
  PROVE  Ahead' \/ Needed' <= W
<1>0. /\ call \in Calls /\ CallOK
      /\ held \in [Slots -> BOOLEAN] /\ where \in [Places -> Slots \cup {NoSlot}]
  BY DEF IInv, QueuesOK, TypeOK
<1>1. PICK S \in Batches, seen \in SUBSET Slots : Look(S, seen)
  BY DEF Visit
<1>2. /\ call'.want = call.want /\ call'.wave = call.wave \ S
      /\ call'.missing = Lacks(S) /\ call'.cpu = {} /\ call.cpu = {}
      /\ call'.use = call.use \cup {<<where[p], p>> : p \in S \ Lacks(S)}
  BY <1>1, VisitCall
<1>3. S \in SUBSET call.wave /\ call.wave \in SUBSET Places /\ Lacks(S) \in SUBSET S
  BY <1>0 DEF Batches, Calls, Lacks
<1>4. CASE Ahead
  <2>1. S = {} /\ call.wave = {} /\ call.want = {} /\ call.use = {}
    BY <1>3, <1>4 DEF Ahead
  <2>2. Lacks(S) = {}
    BY <1>3, <2>1
  <2>3. {<<where[p], p>> : p \in S \ Lacks(S)} = {}
    BY <2>1
  <2>. QED  BY <1>2, <2>1, <2>2, <2>3 DEF Ahead
<1>5. CASE Cardinality(HeldSlots) + Cardinality(call.wave) + Cardinality(call.missing \ call.cpu) <= W
  <2>. DEFINE has == S \ Lacks(S)
              slots == {where[p] : p \in has}
  <2>1. call.missing \ call.cpu = {}
    BY <1>0 DEF Visit, Copied, CallOK
  <2>2. Cardinality(call.missing \ call.cpu) = 0
    BY <2>1, FS_EmptySet
  <2>3. has \in SUBSET Places /\ IsFiniteSet(has) /\ Cardinality(has) \in Nat
    BY <1>3, PlacesFinite
  <2>4. IsFiniteSet(slots) /\ Cardinality(slots) <= Cardinality(has)
    <3>. DEFINE f == [p \in has |-> where[p]]
    <3>1. f \in Surjection(has, slots)
      BY DEF Surjection
    <3>. HIDE DEF f, has, slots
    <3>. QED  BY <2>3, <3>1, FS_Surjection
  <2>5. Cardinality(S) = Cardinality(has) + Cardinality(Lacks(S)) /\ Cardinality(Lacks(S)) \in Nat
    <3>1. S \in SUBSET Places /\ IsFiniteSet(S) /\ Cardinality(S) \in Nat
      BY <1>3, PlacesFinite
    <3>2. S \cap Lacks(S) = Lacks(S) /\ Lacks(S) \in SUBSET Places
      BY <1>3
    <3>3. Cardinality(has) = Cardinality(S) - Cardinality(S \cap Lacks(S))
      BY <3>1, FS_Difference
    <3>4. Cardinality(Lacks(S)) \in Nat
      BY <3>2, PlacesFinite
    <3>. HIDE DEF has
    <3>5. Cardinality(has) = Cardinality(S) - Cardinality(Lacks(S))
      BY <3>2, <3>3
    <3>6. Cardinality(has) \in Nat /\ Cardinality(S) \in Nat
      BY <2>3, <3>1
    <3>. QED  BY <3>4, <3>5, <3>6
  <2>6. Cardinality(call.wave \ S) = Cardinality(call.wave) - Cardinality(S)
        /\ Cardinality(call.wave) \in Nat
    <3>1. IsFiniteSet(call.wave) /\ Cardinality(call.wave) \in Nat /\ call.wave \cap S = S
      BY <1>3, PlacesFinite
    <3>2. Cardinality(call.wave \ S) = Cardinality(call.wave) - Cardinality(call.wave \cap S)
      BY <3>1, FS_Difference
    <3>. QED  BY <3>1, <3>2
  <2>7. HeldSlots' = HeldSlots \cup slots
    <3>1. \A t \in Slots : held'[t] <=> held[t] \/ t \in slots
      BY <1>1 DEF Look
    <3>2. slots \subseteq Slots
      BY <1>0, <2>3 DEF Lacks
    <3>. HIDE DEF slots
    <3>. QED  BY <3>1, <3>2 DEF HeldSlots
  <2>8. /\ Cardinality(HeldSlots') <= Cardinality(HeldSlots) + Cardinality(slots)
        /\ Cardinality(HeldSlots) \in Nat /\ Cardinality(HeldSlots') \in Nat
    <3>1. IsFiniteSet(HeldSlots) /\ Cardinality(HeldSlots) \in Nat
      BY SlotsFew DEF HeldSlots
    <3>2. /\ IsFiniteSet(HeldSlots \cup slots)
          /\ Cardinality(HeldSlots \cup slots)
               = Cardinality(HeldSlots) + Cardinality(slots) - Cardinality(HeldSlots \cap slots)
      BY <3>1, <2>4, FS_Union
    <3>3. Cardinality(HeldSlots \cap slots) \in Nat /\ Cardinality(slots) \in Nat
          /\ Cardinality(HeldSlots \cup slots) \in Nat
      BY <3>1, <3>2, <2>4, FS_Intersection, FS_CardinalityType
    <3>. HIDE DEF slots
    <3>. QED  BY <2>7, <3>1, <3>2, <3>3
  <2>9. call'.missing \ call'.cpu = Lacks(S)
    BY <1>2
  <2>10. Cardinality(slots) \in Nat
    BY <2>4, FS_CardinalityType
  <2>. HIDE DEF has, slots
  <2>11. Cardinality(HeldSlots') + Cardinality(call'.wave) + Cardinality(call'.missing \ call'.cpu) <= W
    BY <1>2, <1>5, <2>2, <2>3, <2>4, <2>5, <2>6, <2>8, <2>9, <2>10, Constants
  <2>. QED  BY <2>11 DEF Needed
<1>. QED  BY <1>4, <1>5 DEF IInv, RoomOK

LEMMA RoomHeld ==
  ASSUME IInv, Next \/ UNCHANGED vars
  PROVE  Ahead' \/ Needed' <= W
<1>0. /\ call \in Calls /\ W \in Nat /\ CallOK
      /\ Ahead \/ Needed <= W
      /\ Cardinality({}) = 0
  BY Constants, FS_EmptySet DEF IInv, QueuesOK, RoomOK, Needed
<1>1. ASSUME NEW l \in Layers, NEW r \in BOOLEAN, Begin(l, r) PROVE Needed' <= W
  <2>1. /\ call'.missing = {} /\ call'.cpu = {}
        /\ call'.wave \in SUBSET Places /\ Cardinality(call'.wave) <= W
    BY <1>1, BeginCall
  <2>2. held' = Unheld
    BY <1>0, <1>1 DEF Begin, Idle, CallOK, Resting, table
  <2>3. Cardinality(call'.wave) \in Nat /\ call'.missing \ call'.cpu = {}
    BY <2>1, PlacesFinite
  <2>. QED  BY <1>0, <2>1, <2>2, <2>3, NoneHeld DEF Needed
<1>2. CASE NextWave
  <2>1. PICK first \in FirstOf(call.want) : call' = [call EXCEPT !.wave = first, !.want = @ \ first]
    BY <1>2 DEF NextWave
  <2>2. call.want \in SUBSET Places /\ held' = Unheld /\ call.missing \ call.cpu = {}
    BY <1>0, <1>2 DEF NextWave, Calls, Launched, Copied
  <2>3. first \in SUBSET Places /\ Cardinality(first) <= W /\ Cardinality(first) \in Nat
    <3>1. first \in SUBSET Places
      BY <2>2 DEF FirstOf
    <3>. QED  BY <2>2, <3>1, FirstSize, PlacesFinite
  <2>4. call'.wave = first /\ call'.missing \ call'.cpu = {}
    BY <1>0, <2>1, <2>2 DEF Calls
  <2>. QED  BY <1>0, <2>2, <2>3, <2>4, NoneHeld DEF Needed
<1>3. CASE Visit
  BY <1>3, VisitRoom
<1>4. CASE Ended
  <2>1. PICK l \in Layers : call' = Rest(l, call.rows)
    BY <1>4 DEF Ended
  <2>. QED  BY <2>1, RestFields DEF Ahead
<1>5. ASSUME NEW s \in Slots, NEW p \in Places, FillMissing(s, p) PROVE Needed' <= W
  <2>1. /\ call'.missing = call.missing \ {p} /\ call'.wave = call.wave /\ call'.cpu = call.cpu
        /\ p \in call.missing \ call.cpu
    BY <1>5, FillCall DEF FillMissing
  <2>2. Given(s, p)
    BY <1>5, GivenSlot
  <2>3. HeldSlots' = HeldSlots \cup {s} /\ s \notin HeldSlots
    BY <2>2 DEF Given, HeldSlots
  <2>4. Cardinality(HeldSlots) \in Nat /\ Cardinality(HeldSlots') = Cardinality(HeldSlots) + 1
    <3>1. IsFiniteSet(HeldSlots) /\ Cardinality(HeldSlots) \in Nat
      BY SlotsFew DEF HeldSlots
    <3>. QED  BY <2>3, <3>1, FS_AddElement
  <2>. DEFINE M == call.missing \ call.cpu
  <2>5. /\ Cardinality(M) \in Nat /\ Cardinality(M \ {p}) = Cardinality(M) - 1
        /\ Cardinality(call.wave) \in Nat
    <3>1. M \in SUBSET Places /\ call.wave \in SUBSET Places /\ p \in M
      BY <1>0, <2>1 DEF Calls
    <3>2. IsFiniteSet(M) /\ Cardinality(M) \in Nat /\ Cardinality(call.wave) \in Nat
      BY <3>1, PlacesFinite
    <3>. HIDE DEF M
    <3>. QED  BY <3>1, <3>2, FS_RemoveElement
  <2>6. call'.missing \ call'.cpu = M \ {p}
    BY <2>1
  <2>7. Cardinality(HeldSlots) + Cardinality(call.wave) + Cardinality(M) <= W
    BY <1>0, <2>1 DEF Ahead, Needed
  <2>. HIDE DEF M
  <2>8. Cardinality(HeldSlots') + Cardinality(call.wave) + Cardinality(M \ {p}) <= W
    BY <2>4, <2>5, <2>7, Constants
  <2>9. Cardinality(call'.missing \ call'.cpu) = Cardinality(M \ {p}) /\ call'.wave = call.wave
    BY <2>1, <2>6
  <2>. QED  BY <2>8, <2>9 DEF Needed
<1>6. CASE CallStill
  <2>1. CASE Ahead
    BY <1>6, <2>1 DEF CallStill, Ahead
  <2>2. CASE ~Ahead
    <3>1. held' = held
      BY <1>6, <2>2 DEF CallStill, Ahead, Guessing, Launched, Copied
    <3>2. /\ Cardinality(HeldSlots') = Cardinality(HeldSlots) /\ call'.wave = call.wave
          /\ Cardinality(HeldSlots) \in Nat
      BY <1>6, <3>1, SlotsFew DEF CallStill, HeldSlots
    <3>3. /\ call.missing \ call.cpu \in SUBSET Places /\ call.wave \in SUBSET Places
          /\ call'.missing \ call'.cpu \in SUBSET (call.missing \ call.cpu)
      BY <1>0, <1>6 DEF CallStill, Calls
    <3>4. /\ Cardinality(call'.missing \ call'.cpu) <= Cardinality(call.missing \ call.cpu)
          /\ Cardinality(call'.missing \ call'.cpu) \in Nat
          /\ Cardinality(call.missing \ call.cpu) \in Nat /\ Cardinality(call.wave) \in Nat
      BY <3>3, PlacesFewer
    <3>5. Cardinality(HeldSlots) + Cardinality(call.wave) + Cardinality(call.missing \ call.cpu) <= W
      BY <1>0, <2>2 DEF Needed
    <3>6. Cardinality(HeldSlots') + Cardinality(call'.wave) + Cardinality(call'.missing \ call'.cpu) <= W
      BY <1>0, <3>2, <3>4, <3>5
    <3>. QED  BY <3>6 DEF Needed
  <2>. QED  BY <2>1, <2>2
<1>. QED  BY <1>1, <1>2, <1>3, <1>4, <1>5, <1>6, CallShape

\* What the ring and the call have in hand of the stream's.
RingRoom == Len(pending) + Cardinality(InHand) <= PMax + K

LEMMA HandFinite ==
  ASSUME IInv
  PROVE  /\ InHand \in SUBSET Places /\ IsFiniteSet(InHand) /\ Cardinality(InHand) \in Nat
         /\ InHand = IF pc \in {"wait", "run"} THEN call.missing
                     ELSE IF pc = "full" THEN call.missing \cup {call.cur} ELSE {}
<1>1. /\ InHand \in SUBSET Places
      /\ InHand = IF pc \in {"wait", "run"} THEN call.missing
                  ELSE IF pc = "full" THEN call.missing \cup {call.cur} ELSE {}
  <2>1. /\ NoPlace \notin Places /\ call.missing \in SUBSET Places
        /\ pc = "full" <=> call.cur # NoPlace
        /\ call.cur \in Places \cup {NoPlace}
    BY Constants DEF IInv, CallOK, QueuesOK, Calls
  <2>. QED  BY <2>1 DEF InHand
<1>2. IsFiniteSet(InHand) /\ Cardinality(InHand) \in Nat
  BY <1>1, PlacesFinite
<1>. QED  BY <1>1, <1>2

\* Most steps hold nothing more of the stream's.
LEMMA HandShrinks ==
  ASSUME IInv, Next \/ UNCHANGED vars, opened.streamed, ~Hold,
         ~\E s \in Slots, p \in Places : FillMissing(s, p) \/ GuessCopy(s, p)
  PROVE  Len(pending') <= Len(pending) /\ InHand' \in SUBSET InHand
<1>. DEFINE Good == Len(pending') <= Len(pending) /\ InHand' \in SUBSET InHand
<1>. SUFFICES Good  OBVIOUS
<1>0. /\ call \in Calls /\ CallOK /\ NoPlace \notin Places
      /\ pending \in Seq(Entries) /\ Len(pending) \in Nat
  BY Constants, Pieces DEF IInv, QueuesOK
<1>1. ASSUME NEW l \in Layers, NEW r \in BOOLEAN, Begin(l, r) PROVE Good
  <2>1. InHand' = {}
    BY <1>1 DEF Begin, InHand
  <2>2. Max(Finished) \in 0 .. Len(pending)
    BY FrontFinished DEF IInv
  <2>3. Len(pending') = Len(pending) - Max(Finished)
    BY <1>0, <1>1, <2>2, RestOf DEF Begin, Settle
  <2>. QED  BY <1>0, <2>1, <2>2, <2>3
<1>2. CASE \/ ReadFails \/ LaunchFails \/ RingFails \/ Return
           \/ \E s \in Slots, p \in Places : FillFails(s, p) \/ GuessFails(s, p)
  <2>1. InHand' = {}
    BY <1>2, EndShape DEF Ended, InHand
  <2>2. pending' = pending
    BY <1>2 DEF ReadFails, LaunchFails, RingFails, Return, FillFails, GuessFails
  <2>. QED  BY <1>0, <2>1, <2>2
<1>3. CASE NextWave
  BY <1>0, <1>3 DEF NextWave, InHand, queues
<1>4. CASE Visit
  <2>1. PICK S \in Batches, seen \in SUBSET Slots : Look(S, seen)
    BY <1>4 DEF Visit
  <2>2. call'.missing = Lacks(S) /\ call'.cur = call.cur /\ call.cur = NoPlace
    BY <1>0, <1>4, <2>1, VisitCall DEF Visit, Copied, CallOK
  <2>3. InHand' = {}
    BY <1>4, <2>2 DEF Visit, InHand, Fetch
  <2>. QED  BY <1>0, <1>4, <2>3 DEF Visit, queues
<1>5. CASE SplitShare
  <2>1. PICK share \in SUBSET call.missing : call' = [call EXCEPT !.cpu = share]
    BY <1>5 DEF SplitShare
  <2>2. call'.missing = call.missing /\ call'.cur = NoPlace
    BY <1>0, <1>5, <2>1 DEF Calls, CallOK, SplitShare
  <2>3. InHand' = {}
    BY <1>5, <2>2 DEF SplitShare, InHand, Fetch
  <2>. QED  BY <1>0, <1>5, <2>3 DEF SplitShare
<1>6. CASE Drain
  <2>1. pending # <<>>
    BY <1>0, <1>6, Constants, EmptySeq DEF Drain
  <2>2. Len(pending') = Len(pending) - 1
    BY <1>0, <1>6, <2>1, HeadTailProperties DEF Drain
  <2>. QED  BY <1>0, <1>6, <2>2 DEF Drain, InHand
<1>7. CASE Arrived
  BY <1>0, <1>7 DEF Arrived, InHand, queues
<1>8. CASE RingFull
  <2>1. pending # <<>> /\ pc = "full"
    BY <1>0, <1>8, EmptySeq DEF RingFull, IInv, RingOK
  <2>2. Tail(pending) \in Seq(Entries) /\ Len(Tail(pending)) = Len(pending) - 1
    BY <1>0, <2>1, HeadTailProperties
  <2>3. Len(pending') = Len(pending)
    <3>1. Len(pending') = Len(Tail(pending)) + 1
      BY <1>8, <2>2, AppendProperties DEF RingFull
    <3>. QED  BY <1>0, <2>2, <3>1
  <2>4. InHand' \subseteq InHand
    BY <1>0, <1>8, <2>1 DEF RingFull, InHand, Calls
  <2>. QED  BY <1>0, <2>3, <2>4
<1>9. CASE (\E p \in Places : GuessSkip(p)) \/ GuessNone \/ (\E some \in Portions : Launch(some))
  BY <1>0, <1>9 DEF GuessSkip, GuessNone, Launch, queues, InHand, Calls
<1>10. CASE CopyDone
  BY <1>0, <1>10, CopyDoneShape DEF IInv, CopyDone, InHand
<1>11. CASE KernelDone \/ Terminated \/ UNCHANGED vars
  BY <1>0, <1>11 DEF KernelDone, Terminated, vars, InHand
<1>12. CASE Free
  <2>1. Len(pending') = 0
    BY <1>12 DEF Free
  <2>. QED  BY <1>0, <1>12, <2>1 DEF Free, InHand
<1>. HIDE DEF Good
<1>. QED  BY <1>1, <1>2, <1>3, <1>4, <1>5, <1>6, <1>7, <1>8, <1>9, <1>10, <1>11, <1>12
          DEF Next, Host, Copy, Guess, Device

\* A batch's copy passes a hold from the call to the ring; a guess's is taken
\* while the ring has room.
LEMMA FillRoom ==
  ASSUME IInv, opened.streamed, NEW s \in Slots, NEW p \in Places,
         FillMissing(s, p) \/ GuessCopy(s, p), QueuesOK'
  PROVE  RingRoom'
<1>0. /\ call \in Calls /\ CallOK /\ NoPlace \notin Places /\ pc = "run" /\ RingRoom
      /\ pending \in Seq(Entries) /\ Len(pending) \in Nat
      /\ PMax \in Nat /\ K \in Nat /\ PMax <= PendingMax /\ PendingMax \in Nat
      /\ InHand = call.missing /\ IsFiniteSet(call.missing) /\ Cardinality(call.missing) \in Nat
      /\ Cardinality(call.missing) <= K
  <2>1. pc = "run"
    BY DEF FillMissing, GuessCopy, Guessing, Launched, Copied
  <2>. QED  BY <2>1, Constants, Pieces, HandFinite DEF IInv, QueuesOK, SizesOK, RoomOK, RingRoom
<1>1. /\ call'.missing = IF FillMissing(s, p) THEN call.missing \ {p} ELSE call.missing
      /\ pc' \in {"run", "full"} /\ call'.cur = IF pc' = "full" THEN p ELSE NoPlace
      /\ pc' = "full" => Len(pending) = PendingMax /\ pending' = pending
  BY FillCall
<1>2. InHand' = IF pc' = "full" THEN call'.missing \cup {p} ELSE call'.missing
  BY <1>0, <1>1 DEF InHand
<1>3. pc' # "full" => Len(pending') = Len(pending) + 1
  <2>1. pc' # "full" => pending' = Append(pending, Entry(p, Len(copies')))
    BY DEF FillMissing, GuessCopy, Fill
  <2>. QED  BY <1>0, <2>1, AppendProperties
<1>4. CASE FillMissing(s, p)
  <2>1. p \in call.missing
    BY <1>4 DEF FillMissing
  <2>2. CASE pc' = "full"
    <3>1. InHand' = InHand
      BY <1>0, <1>1, <1>2, <1>4, <2>1, <2>2
    <3>. QED  BY <1>0, <1>1, <2>2, <3>1 DEF RingRoom
  <2>3. CASE pc' # "full"
    <3>1. InHand' = call.missing \ {p}
      BY <1>1, <1>2, <1>4, <2>3
    <3>2. Cardinality(call.missing \ {p}) = Cardinality(call.missing) - 1
      BY <1>0, <2>1, FS_RemoveElement
    <3>. QED  BY <1>0, <1>3, <2>3, <3>1, <3>2 DEF RingRoom
  <2>. QED  BY <2>2, <2>3
<1>5. CASE GuessCopy(s, p) /\ ~FillMissing(s, p)
  <2>1. Len(pending) < PMax
    BY <1>5 DEF GuessCopy, RoomAhead
  <2>2. pc' # "full"
    BY <1>0, <1>1, <2>1
  <2>3. InHand' = call.missing
    BY <1>1, <1>2, <1>5, <2>2
  <2>. QED  BY <1>0, <1>3, <2>1, <2>2, <2>3 DEF RingRoom
<1>. QED  BY <1>4, <1>5

LEMMA RoomNext ==
  ASSUME IInv, Next \/ UNCHANGED vars, QueuesOK'
  PROVE  RoomOK'
<1>0. /\ call \in Calls /\ Len(pending) \in Nat /\ PMax \in Nat /\ K \in Nat
      /\ opened' = opened /\ Len(pending') \in Nat
      /\ opened.streamed => RingRoom
      /\ InHand \in SUBSET Places /\ IsFiniteSet(InHand) /\ Cardinality(InHand) \in Nat
      /\ pc = "wait" => Len(pending) <= PMax /\ opened.streamed
  <2>1. Len(pending') \in Nat
    BY LenProperties DEF QueuesOK
  <2>. QED  BY <2>1, Pieces, Constants, HandFinite, TableTypes DEF IInv, QueuesOK, RoomOK, CallOK, RingRoom
<1>1. Ahead' \/ Cardinality(HeldSlots') + Cardinality(call'.wave)
                 + Cardinality(call'.missing \ call'.cpu) <= W
  BY RoomHeld DEF Needed
<1>2. ASSUME Hold PROVE RingRoom'
  <2>1. InHand' = call.missing \ {NoPlace} /\ pending' = pending /\ Len(pending) <= PMax
    BY <1>0, <1>2 DEF Hold, InHand, IInv, CallOK
  <2>2. NoPlace \notin call.missing /\ Cardinality(call.missing) <= K /\ Cardinality(call.missing) \in Nat
    BY <1>0, Constants, PlacesFinite DEF Calls, IInv, SizesOK
  <2>3. InHand' = call.missing
    BY <2>1, <2>2
  <2>4. Len(pending) + Cardinality(call.missing) <= PMax + K
    BY <1>0, <2>1, <2>2, Constants
  <2>. QED  BY <2>1, <2>3, <2>4 DEF RingRoom
<1>3. ASSUME opened.streamed, ~Hold,
             ~\E s \in Slots, p \in Places : FillMissing(s, p) \/ GuessCopy(s, p)
      PROVE  RingRoom'
  <2>1. Len(pending') <= Len(pending) /\ InHand' \in SUBSET InHand
    BY <1>3, HandShrinks
  <2>2. Cardinality(InHand') <= Cardinality(InHand) /\ Cardinality(InHand') \in Nat
    BY <1>0, <2>1, FS_Subset, FS_CardinalityType
  <2>. QED  BY <1>0, <1>3, <2>1, <2>2 DEF RingRoom
<1>4. opened'.streamed => RingRoom'
  BY <1>0, <1>2, <1>3, FillRoom
<1>5. pc' = "wait" => Len(pending') <= PMax
  <2>1. CASE Hold
    BY <2>1 DEF Hold
  <2>2. CASE pc = "wait" /\ Device
    BY <1>0, <2>2, HandShrinks, CopyDoneShape DEF Device, CopyDone, KernelDone, IInv
  <2>3. CASE Terminated \/ UNCHANGED vars
    BY <1>0, <2>3 DEF Terminated, vars
  <2>4. pc' = "wait" => Hold \/ (pc = "wait" /\ Device) \/ Terminated \/ UNCHANGED vars
    BY DEF Next, Host, Copy, Guess, Device, Begin, NextWave, Visit, SplitShare, Drain, Fetch,
       Arrived, ReadFails, FillMissing, FillFails, RingFull, RingFails, Launch, LaunchFails,
       GuessCopy, GuessFails, GuessSkip, GuessNone, Return, Free, CopyDone, KernelDone,
       Guessing, Launching, Launched, Copied, Fill
  <2>. QED  BY <2>1, <2>2, <2>3, <2>4
<1>. QED  BY <1>1, <1>4, <1>5 DEF RoomOK, RingRoom

-----------------------------------------------------------------------------
(* The invariant holds, and with it what the module states. *)

LEMMA InitOK ==
  ASSUME Init
  PROVE  IInv
<1>0. /\ NoPlace \notin Places /\ NoSlot \notin Slots /\ PMax \in Nat /\ K \in Nat
      /\ PendingMax \in Nat /\ Cardinality({}) = 0 /\ 0 \in Layers
  BY Constants, FS_EmptySet, CacheAssumption DEF Layers
<1>1. call \in Calls /\ call = Rest(0, FALSE) /\ pc = "idle"
  BY <1>0, RestType DEF Init
<1>2. /\ call.want = {} /\ call.wave = {} /\ call.missing = {} /\ call.cpu = {}
      /\ call.use = {} /\ call.cur = NoPlace /\ call.layer = 0 /\ call.rows = FALSE
  BY <1>1 DEF Rest, CallOf
<1>3. copies = <<>> /\ kernels = <<>> /\ pending = <<>>
  BY DEF Init
<1>4. /\ copies \in Seq(Work) /\ kernels \in Seq(Kernels) /\ pending \in Seq(Entries)
      /\ Len(copies) = 0 /\ Len(kernels) = 0 /\ Len(pending) = 0
      /\ DOMAIN copies = {} /\ DOMAIN kernels = {} /\ DOMAIN pending = {}
  BY <1>3
<1>5. QueuesOK
  <2>1. /\ place \in [Slots -> Places \cup {NoPlace}] /\ bytes \in [Slots -> Places \cup {NoPlace}]
        /\ where \in [Places -> Slots \cup {NoSlot}] /\ users \in [Places -> Nat]
        /\ held \in [Slots -> BOOLEAN] /\ filling \in [Slots -> BOOLEAN] /\ opened \in Openings
    BY DEF Init
  <2>2. Len(pending) <= PendingMax
    BY <1>0, <1>4
  <2>. QED  BY <1>1, <1>4, <2>1, <2>2 DEF QueuesOK, TypeOK
<1>6. TablesOK /\ UseOK /\ KernelsOK /\ SizesOK /\ RingOK
  <2>1. TablesOK
    BY DEF TablesOK, Init
  <2>2. UseOK /\ KernelsOK
    BY <1>2, <1>4 DEF UseOK, KernelsOK
  <2>3. SizesOK
    BY <1>0, <1>2 DEF SizesOK
  <2>4. RingOK
    BY <1>1, <1>4 DEF RingOK
  <2>. QED  BY <2>1, <2>2, <2>3, <2>4
<1>7. CallOK
  BY <1>0, <1>1, <1>2 DEF CallOK, Resting, Init, Unheld
<1>8. BytesOK
  BY <1>0, <1>4 DEF BytesOK, SlotTrue, CopiesTo, Init
<1>9. InHand = {}
  BY <1>1 DEF InHand
<1>10. HoldsAreOwed
  <2>1. \A p \in Places : users[p] = 0 /\ Mine(p) = 0 /\ Owed(pending, p) = 0
    BY <1>3, <1>9, OwedEmpty DEF Init, Mine
  <2>. QED  BY <2>1, OwedForm
<1>11. RoomOK
  <2>1. Ahead
    BY <1>2 DEF Ahead
  <2>2. Len(pending) + Cardinality(InHand) <= PMax + K
    <3>1. Len(pending) = 0 /\ Cardinality(InHand) = 0
      BY <1>0, <1>4, <1>9
    <3>. QED  BY <1>0, <3>1
  <2>. QED  BY <1>1, <2>1, <2>2 DEF RoomOK
<1>. QED  BY <1>5, <1>6, <1>7, <1>8, <1>10, <1>11 DEF IInv

LEMMA NextOK ==
  ASSUME IInv, [Next]_vars
  PROVE  IInv'
<1>. Next \/ UNCHANGED vars
  OBVIOUS
<1>1. QueuesOK' /\ HoldsAreOwed'
  BY QueuesNext, OwedNext
<1>. QED  BY <1>1, TablesNext, CallNext, RingNext, UseNext, KernelsNext, BytesNext, SizesNext,
             RoomNext DEF IInv

\* The inductive invariant.
THEOREM Invariance == Spec => []IInv
BY InitOK, NextOK, PTL DEF Spec

\* Whatever calls are made and whichever fail, the variables keep their
\* types: the ring never has more than PENDING_MAX entries, and nothing waits
\* for more copies than are queued.
THEOREM TypeCorrect == Spec => []TypeOK
<1>1. IInv => TypeOK
  BY DEF IInv, QueuesOK
<1>. QED  BY <1>1, Invariance, PTL

\* A kernel runs only when its slots hold the experts it was queued for, and
\* no copy into them is queued or under way (model_cuda.cu:4652-4656).
THEOREM ReadsCorrect == Spec => []ReadsRight
<1>1. ASSUME IInv PROVE ReadsRight
  <2>1. ASSUME NEW i \in DOMAIN kernels, kernels[i].wait = 0, NEW u \in kernels[i].reads
        PROVE  bytes[u[1]] = u[2] /\ CopiesTo(u[1]) = {}
    <3>1. u \in Slots \X Places
      BY <1>1, Pieces DEF IInv, Kernels
    <3>2. place[u[1]] = u[2] /\ \A j \in CopiesTo(u[1]) : j <= 0
      BY <1>1, <2>1 DEF IInv, KernelsOK
    <3>3. CopiesTo(u[1]) = {}
      BY <1>1, <3>2, Pieces DEF IInv, CopiesTo
    <3>. QED  BY <1>1, <3>1, <3>2, <3>3, Constants DEF IInv, BytesOK, SlotTrue
  <2>. QED  BY <2>1 DEF ReadsRight
<1>. QED  BY <1>1, Invariance, PTL

\* Every hold of the cache's in the expert stream is owed once, to a copy in
\* the ring or to the call, whichever calls fail
\* (model_cuda.cu:4189-4201,4236-4272,4526-4530).
THEOREM OwedCorrect == Spec => []HoldsAreOwed
<1>1. IInv => HoldsAreOwed
  BY DEF IInv
<1>. QED  BY <1>1, Invariance, PTL

\* A batch is held only when the stream has room for it, and an expert to be
\* copied in finds a slot that is not held
\* (model_cuda.cu:277,3582-3586,4724,5149).
THEOREM RoomCorrect == Spec => []RoomForReads
<1>1. ASSUME IInv PROVE RoomForReads
  <2>1. ASSUME pc = "run", ~Copied PROVE FreeSlots # {}
    <3>1. ~(call.missing \subseteq call.cpu)
      BY <2>1 DEF Copied
    <3>2. Cardinality(HeldSlots) + Cardinality(call.wave)
            + Cardinality(call.missing \ call.cpu) <= W
      BY <1>1, <3>1 DEF IInv, RoomOK, Ahead
    <3>3. /\ Cardinality(HeldSlots) \in Nat /\ Cardinality(call.wave) \in Nat
          /\ Cardinality(call.missing \ call.cpu) \in Nat
      BY <1>1, PlacesFinite, SlotsFew DEF IInv, QueuesOK, Calls, HeldSlots
    <3>4. Cardinality(HeldSlots) < Cardinality(Slots) /\ HeldSlots \subseteq Slots
      BY <3>2, <3>3, Constants DEF HeldSlots
    <3>5. HeldSlots # Slots
      BY <3>3, <3>4, Constants
    <3>6. {s \in Slots : ~held[s]} # {}
      BY <3>5 DEF HeldSlots
    <3>. QED  BY <3>6 DEF FreeSlots
  <2>. QED  BY <1>1, <2>1 DEF IInv, RoomOK, RoomForReads
<1>. QED  BY <1>1, Invariance, PTL

\* A slot that the table says holds an expert does, once the copies into it
\* are done, and the two tables are each other's inverse.
THEOREM TableCorrect == Spec => []TableTrue
<1>1. IInv => TableTrue
  BY DEF IInv, TablesOK, BytesOK, SlotTrue, TableTrue
<1>. QED  BY <1>1, Invariance, PTL
=============================================================================
