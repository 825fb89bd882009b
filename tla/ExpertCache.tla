---------------------------- MODULE ExpertCache -----------------------------
(***************************************************************************)
(* What the expert stream promises the code that runs the model            *)
(* (engine/include/expert_stream.h): no slots, queue or threads, only      *)
(* which places are resident, which the caller asked for, and how often it *)
(* holds each.  A place that is held or asked for and read is not given    *)
(* up; a batch is handed out whole, when all of it is resident, or not at  *)
(* all; what is handed out shows the place's own bytes until released; and *)
(* no more than the cache's slots are ever resident.                       *)
(***************************************************************************)
EXTENDS Integers, FiniteSets

CONSTANTS Places, NoPlace, NSlots

VARIABLES
  resident,  \* the places read and kept
  wanted,    \* the batch that hold was given, until wait returns
  held,      \* how often the caller holds each place it was handed
  shown      \* per place: whose bytes the caller finds where it was handed them

vars == <<resident, wanted, held, shown>>

Init ==
  /\ resident = {}
  /\ wanted = {}
  /\ held = [p \in Places |-> 0]
  /\ shown = [p \in Places |-> NoPlace]

\* Places that may lose their residence.
Idle(p) == held[p] = 0 /\ p \notin wanted

\* At most one place makes room.
Room(S) == Cardinality(S) <= 1 /\ \A p \in S : Idle(p)

\* Hold one place more of a batch.  If it is not resident, another may be
\* given up for it.
Want(p) ==
  /\ p \notin wanted
  /\ wanted' = wanted \cup {p}
  /\ \E S \in SUBSET resident :
       /\ Room(S)
       /\ p \in resident => S = {}
       /\ resident' = resident \ S
  /\ UNCHANGED <<held, shown>>

\* Another place is to be read ahead in place of this one.
Evict(p) ==
  /\ p \in resident /\ Idle(p)
  /\ resident' = resident \ {p}
  /\ UNCHANGED <<wanted, held, shown>>

\* The read of a place, wanted or guessed, ends well.
Arrive(p) ==
  /\ p \notin resident
  /\ Cardinality(resident) < NSlots
  /\ resident' = resident \cup {p}
  /\ UNCHANGED <<wanted, held, shown>>

\* wait returns true.
HandOut ==
  /\ wanted # {} /\ wanted \subseteq resident
  /\ held' = [p \in Places |-> IF p \in wanted THEN held[p] + 1 ELSE held[p]]
  /\ shown' = [p \in Places |-> IF p \in wanted THEN p ELSE shown[p]]
  /\ wanted' = {}
  /\ UNCHANGED resident

\* wait returns false: a read failed.
GiveUp ==
  /\ ~(wanted \subseteq resident)
  /\ wanted' = {}
  /\ UNCHANGED <<resident, held, shown>>

HoldReady(p) ==
  /\ p \in resident
  /\ held' = [held EXCEPT ![p] = @ + 1]
  /\ shown' = [shown EXCEPT ![p] = p]
  /\ UNCHANGED <<resident, wanted>>

Release(S) ==
  /\ \A p \in S : held[p] > 0
  /\ held' = [p \in Places |-> IF p \in S THEN held[p] - 1 ELSE held[p]]
  /\ shown' = [p \in Places |-> IF p \in S /\ held[p] = 1 THEN NoPlace ELSE shown[p]]
  /\ UNCHANGED <<resident, wanted>>

Next ==
  \/ \E p \in Places : Want(p) \/ Evict(p) \/ Arrive(p) \/ HoldReady(p)
  \/ HandOut \/ GiveUp
  \/ \E S \in SUBSET Places : Release(S)

Spec == Init /\ [][Next]_vars
=============================================================================
