------------------------------ MODULE Sampler ------------------------------
(***************************************************************************)
(* Choosing the next token (engine/src/sampler.c): the most probable at    *)
(* temperature 0, and else one drawn from the tokens that top-k and then   *)
(* top-p leave, which a radix sort of the probabilities' bits puts in      *)
(* order.  Probabilities are whole numbers here, their bits as ordered as  *)
(* a float's; their sums do not round, and what softmax makes of the logits*)
(* is given.  A token that is masked has probability 0.                    *)
(***************************************************************************)
EXTENDS Integers, Sequences, FiniteSetsExt

CONSTANTS
  KEYS,        \* how many keys there are: 2^32 in the code
  RADIX_SIZE,  \* 2^11, of which they are no power
  Rows,        \* the probabilities of a vocabulary's tokens, some positive
  Settings,    \* [hot, top_k, top_p], top_p in parts of WHOLE, hot unless temperature is 0
  WHOLE        \* what a uniform number, and top_p, is counted in

\* What the constants are; an instance assumes it.
SamplerAssumption ==
  /\ KEYS \in Nat \ {0} /\ RADIX_SIZE \in Nat \ {0, 1} /\ WHOLE \in Nat \ {0}
  /\ \A row \in Rows : row \in Seq(0 .. KEYS - 1) /\ \E i \in DOMAIN row : row[i] > 0
  /\ \A s \in Settings : s.hot \in BOOLEAN /\ s.top_k \in Nat /\ s.top_p \in Nat

VARIABLES
  probs, cfg,  \* the row and its settings
  order,       \* the ids, as the passes so far have sorted them
  unit,        \* 2^shift, what the digit of the next pass counts
  keep,        \* how many ids are kept, 0 before they are counted
  drawn        \* history: the token each uniform number draws

vars == <<probs, cfg, order, unit, keep, drawn>>

Ids == 1 .. Len(probs)

Init ==
  /\ probs \in Rows /\ cfg \in Settings
  /\ order = [k \in Ids |-> k] /\ unit = 1 /\ keep = 0 /\ drawn = <<>>

vitna_argmax == Min({i \in Ids : \A j \in Ids : probs[j] <= probs[i]})

Argmax ==
  /\ ~cfg.hot /\ drawn = <<>>
  /\ drawn' = [u \in 1 .. WHOLE |-> vitna_argmax]
  /\ UNCHANGED <<probs, cfg, order, unit, keep>>

\* An id's key, ~bits, and its digit that the pass sorts by.
Key(i) == KEYS - 1 - probs[i]
Digit(i) == (Key(i) \div unit) % RADIX_SIZE

\* Mutant: only whole digits have a pass.
WholePass == unit * RADIX_SIZE <= KEYS

HasPass == unit < KEYS

\* Where a pass puts the k-th of the order: start, after the ids of lower digits
\* and those of its own digit that came before.
Place(k) ==
  1 + Cardinality({j \in Ids : \/ Digit(order[j]) < Digit(order[k])
                               \/ Digit(order[j]) = Digit(order[k]) /\ j < k})

\* One pass of sort_by_prob.
Pass ==
  /\ cfg.hot /\ keep = 0 /\ HasPass
  /\ order' \in [Ids -> Ids] /\ \A k \in Ids : order'[Place(k)] = order[k]
  /\ unit' = unit * RADIX_SIZE
  /\ UNCHANGED <<probs, cfg, keep, drawn>>

\* What the first n of f add up to, for each n.
Running(f) ==
  LET cum[n \in {0} \cup DOMAIN f] == IF n = 0 THEN 0 ELSE cum[n - 1] + f[n] IN cum

\* The mass of the first n of the order.
Masses == Running([k \in Ids |-> probs[order[k]]])

\* How many are kept: top-k, then the first whose mass reaches top-p of theirs.
Kept(k, mass) ==
  LET reach == {n \in 1 .. k : mass[n] * WHOLE >= cfg.top_p * mass[k]}
  IN  IF cfg.top_p \in 1 .. WHOLE - 1 /\ reach # {} THEN Min(reach) ELSE k

Keep ==
  /\ cfg.hot /\ keep = 0 /\ ~HasPass
  /\ keep' = Kept(IF cfg.top_k \in 1 .. Len(probs) - 1 THEN cfg.top_k ELSE Len(probs), Masses)
  /\ UNCHANGED <<probs, cfg, order, unit, drawn>>

\* The token that the number u - 1 of WHOLE draws.
Drawn(u, mass) == order[Min({keep} \cup {n \in 1 .. keep : (u - 1) * mass[keep] < mass[n] * WHOLE})]

Draw ==
  /\ keep > 0 /\ drawn = <<>>
  /\ LET mass == Masses IN drawn' = [u \in 1 .. WHOLE |-> Drawn(u, mass)]
  /\ UNCHANGED <<probs, cfg, order, unit, keep>>

Terminated == drawn # <<>> /\ UNCHANGED vars

Next == Argmax \/ Pass \/ Keep \/ Draw \/ Terminated

Spec == Init /\ [][Next]_vars

\* A call runs until it returns.
Fairness == WF_vars(Next)

-----------------------------------------------------------------------------
(* Properties *)

\* The tokens more probable than i, or as probable with a lower id.
Ahead(i) == {j \in Ids : probs[j] > probs[i] \/ (probs[j] = probs[i] /\ j < i)}

MassOf(S) == Running([i \in Ids |-> IF i \in S THEN probs[i] ELSE 0])[Len(probs)]

\* The tokens that may be drawn: the top-k, up to the one that reaches top-p of
\* their mass.
TopK == {i \in Ids : cfg.top_k = 0 \/ Cardinality(Ahead(i)) < cfg.top_k}
Nucleus(top) == {i \in top : cfg.top_p \in 1 .. WHOLE - 1 => MassOf(Ahead(i)) * WHOLE < cfg.top_p * MassOf(top)}

\* Each token of the nucleus is drawn for its share, to within one number.
Fair(nucleus, whole) ==
  \A i \in Ids :
    LET times == Cardinality({u \in 1 .. WHOLE : drawn[u] = i})
    IN  IF i \in nucleus
        THEN (times - 1) * whole < probs[i] * WHOLE /\ probs[i] * WHOLE < (times + 1) * whole
        ELSE times = 0

\* Over all uniform numbers each token of the nucleus is drawn for its share of
\* them, to within one, and no other token ever, a masked one least of all; at
\* temperature 0 the most probable is, the first of equals (sampler.c
\* vitna_sample, sort_by_prob).
DrawnByShare ==
  drawn # <<>> =>
    /\ \A u \in 1 .. WHOLE : probs[drawn[u]] > 0
    /\ IF cfg.hot THEN LET nucleus == Nucleus(TopK) IN Fair(nucleus, MassOf(nucleus))
       ELSE \A u \in 1 .. WHOLE : Ahead(drawn[u]) = {}

\* Each call draws a token.
DrawEnds == <>(drawn # <<>>)
=============================================================================
