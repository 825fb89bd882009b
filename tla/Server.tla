------------------------------- MODULE Server -------------------------------
(***************************************************************************)
(* The HTTP server's connections (engine/src/server.c).  One thread accepts*)
(* them, MaxConnections at most at once, and starts a thread for each, or  *)
(* serves it itself when it cannot.  Once the GPU is lost it closes the    *)
(* listening socket, waits for the open connections, and returns; only     *)
(* then does main.c free the API they use.                                 *)
(*                                                                         *)
(* handle_client is one step from a connection's being served to its being *)
(* answered: what happens in between is Scheduler's, and the socket's      *)
(* timeouts end the rest.                                                  *)
(***************************************************************************)
EXTENDS Integers, FiniteSets

CONSTANTS
  Clients,         \* the connections made, each once
  MaxConnections,  \* MAX_CONNECTIONS: 64 in the code
  Faults           \* what may fail: "select", "accept", "thread"

\* What the constants are; an instance assumes it.
ServerAssumption ==
  /\ IsFiniteSet(Clients)
  /\ MaxConnections \in Nat \ {0}
  /\ Faults \subseteq {"select", "accept", "thread"}

VARIABLES
  active,  \* count.active
  lost,    \* vitna_api_lost
  pc,      \* the accepting thread
  mine,    \* the connection it is at: {} or one
  at       \* per client: where its connection is

vars == <<active, lost, pc, mine, at>>

Init ==
  /\ active = 0
  /\ lost = FALSE
  /\ pc = "look"
  /\ mine = {}
  /\ at = [c \in Clients |-> "away"]

\* The listening socket is open.
Listening == pc \notin {"drain", "draining", "woken", "returned", "freed"}

Waiting == {c \in Clients : at[c] = "waiting"}

\* vitna_cond_signal(&freed): only the accepting thread waits on it.
\* Mutant: nobody is told.
SignalNobody(p) == p

Signal(p) == IF p = "full" THEN "room" ELSE IF p = "draining" THEN "woken" ELSE p

-----------------------------------------------------------------------------
(* The clients and the device: the environment. *)

Arrive(c) ==
  /\ at[c] = "away"
  /\ at' = [at EXCEPT ![c] = IF Listening THEN "waiting" ELSE "refused"]
  /\ UNCHANGED <<active, lost, pc, mine>>

\* The model is only run for a request some connection is served for.
LoseDevice ==
  /\ ~lost /\ \E c \in Clients : at[c] = "served"
  /\ lost' = TRUE
  /\ UNCHANGED <<active, pc, mine, at>>

-----------------------------------------------------------------------------
(* vitna_server_run *)

Look ==
  /\ pc = "look"
  /\ pc' = IF lost THEN "close" ELSE "room"
  /\ UNCHANGED <<active, lost, mine, at>>

\* Mutant: one connection too many.
RoomOff ==
  /\ pc = "room"
  /\ pc' = IF active > MaxConnections THEN "full" ELSE "poll"
  /\ UNCHANGED <<active, lost, mine, at>>

Room ==
  /\ pc = "room"
  /\ pc' = IF active >= MaxConnections THEN "full" ELSE "poll"
  /\ UNCHANGED <<active, lost, mine, at>>

\* Mutant: waits for a connection without a limit.
PollForever ==
  /\ pc = "poll" /\ Waiting # {}
  /\ \/ pc' = "accept"
     \/ "select" \in Faults /\ pc' = "close"
  /\ UNCHANGED <<active, lost, mine, at>>

\* connection_waiting: back around when no connection came in 250 ms.
Poll ==
  /\ pc = "poll"
  /\ \/ Waiting # {} /\ pc' = "accept"
     \/ Waiting = {} /\ pc' = "look"
     \/ "select" \in Faults /\ pc' = "close"
  /\ UNCHANGED <<active, lost, mine, at>>

Accept ==
  /\ pc = "accept"
  /\ \/ \E c \in Waiting :
          /\ at' = [at EXCEPT ![c] = "accepted"]
          /\ mine' = {c}
          /\ pc' = "count"
     \/ /\ "accept" \in Faults
        /\ pc' = "close"
        /\ UNCHANGED <<mine, at>>
  /\ UNCHANGED <<active, lost>>

Count ==
  /\ pc = "count"
  /\ active' = active + 1
  /\ pc' = "start"
  /\ UNCHANGED <<lost, mine, at>>

\* A thread for the connection, or this one.
Start ==
  /\ pc = "start"
  /\ at' = [c \in Clients |-> IF c \in mine THEN "served" ELSE at[c]]
  /\ \/ pc' = "look" /\ mine' = {}
     \/ "thread" \in Faults /\ pc' = "serve" /\ UNCHANGED mine
  /\ UNCHANGED <<active, lost>>

\* handle_client, whose last act is to close the connection.
Answer(c) ==
  /\ at[c] = "served"
  /\ at' = [at EXCEPT ![c] = "answered"]
  /\ UNCHANGED <<active, lost, pc, mine>>

\* connection(), after it.
Uncount(c) ==
  /\ at[c] = "answered" /\ c \notin mine
  /\ at' = [at EXCEPT ![c] = "closed"]
  /\ active' = active - 1
  /\ pc' = Signal(pc)
  /\ UNCHANGED <<lost, mine>>

\* The accepting thread's own connection: it need tell nobody.
Served ==
  /\ pc = "serve" /\ \A c \in mine : at[c] = "answered"
  /\ at' = [c \in Clients |-> IF c \in mine THEN "closed" ELSE at[c]]
  /\ active' = active - 1
  /\ mine' = {}
  /\ pc' = "look"
  /\ UNCHANGED lost

\* CLOSE_SOCKET(server_sock): those not accepted are refused.
CloseSocket ==
  /\ pc = "close"
  /\ at' = [c \in Clients |-> IF c \in Waiting THEN "refused" ELSE at[c]]
  /\ pc' = "drain"
  /\ UNCHANGED <<active, lost, mine>>

\* Mutant: returns the first time it is woken.
DrainOnce ==
  /\ pc \in {"drain", "woken"}
  /\ pc' = IF active > 0 /\ pc = "drain" THEN "draining" ELSE "returned"
  /\ UNCHANGED <<active, lost, mine, at>>

Drain ==
  /\ pc \in {"drain", "woken"}
  /\ pc' = IF active > 0 THEN "draining" ELSE "returned"
  /\ UNCHANGED <<active, lost, mine, at>>

\* cmd_serve: vitna_api_free.
Free ==
  /\ pc = "returned"
  /\ pc' = "freed"
  /\ UNCHANGED <<active, lost, mine, at>>

Terminated == pc = "freed" /\ (\A c \in Clients : at[c] \in {"closed", "refused"}) /\ UNCHANGED vars

-----------------------------------------------------------------------------
ServerStep ==
  \/ Look \/ Room \/ Poll \/ Accept \/ Count \/ Start \/ Served
  \/ CloseSocket \/ Drain \/ Free

Next ==
  \/ ServerStep \/ LoseDevice \/ Terminated
  \/ \E c \in Clients : Arrive(c) \/ Answer(c) \/ Uncount(c)

Spec == Init /\ [][Next]_vars

\* Every thread that can run does.  A connection is answered: its sockets
\* time out after 30 seconds without a byte, and the API answers every
\* request (Scheduler's EveryRequestReturns).
Fairness ==
  /\ WF_vars(ServerStep)
  /\ \A c \in Clients : WF_vars(Answer(c)) /\ WF_vars(Uncount(c))

FairSpec == Spec /\ Fairness

-----------------------------------------------------------------------------
(* Properties *)

TypeOK ==
  /\ active \in 0 .. MaxConnections
  /\ lost \in BOOLEAN
  /\ pc \in {"look", "room", "full", "poll", "accept", "count", "start", "serve", "close",
             "drain", "draining", "woken", "returned", "freed"}
  /\ mine \in SUBSET Clients /\ Cardinality(mine) <= 1
  /\ at \in [Clients -> {"away", "waiting", "accepted", "served", "answered", "closed", "refused"}]

\* The connections whose thread may still use the API or the count.
Open == {c \in Clients : at[c] \in {"accepted", "served", "answered"}}

\* A connection is open exactly while it is counted, but for the one just
\* accepted; so no more than MAX_CONNECTIONS ever are (server.c:56-59,265).
OpenIsCounted ==
  /\ Cardinality(Open) = active + (IF pc = "count" THEN 1 ELSE 0)
  /\ Cardinality(Open) <= MaxConnections

\* The API, and the count on the stack of vitna_server_run, outlive every
\* connection that uses them, whatever made the server stop.
ReturnsQuiet == pc \in {"returned", "freed"} => Open = {}

\* Every connection made is served and closed, or refused.
EveryConnectionEnds == \A c \in Clients : (at[c] = "waiting") ~> (at[c] \in {"closed", "refused"})

\* Once the GPU is lost the server returns, though nobody ever connects
\* again and however many connections it was full of (server.c:14-15).
LostStops == lost ~> (pc = "freed")
=============================================================================
