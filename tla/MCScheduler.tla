---------------------------- MODULE MCScheduler -----------------------------
(* Scheduler with a few short requests over a model of two words and an end. *)
EXTENDS Scheduler

CONSTANTS a, b, z

Word(t) == CASE t = a -> 1 [] t = b -> 2 [] OTHER -> 3

\* What the model gives depends on every token of the context and its place.
\* Now and then no token can follow, as when JSON's masks leave none.
MCGives(context) ==
  LET n == FoldFunction(+, 0, [k \in DOMAIN context |-> k * Word(context[k])]) % 4
  IN  CASE n \in {0, 1} -> a
        [] n = 2 -> b
        [] OTHER -> IF Len(context) % 2 = 0 THEN z ELSE NoToken

\* Prompts that begin alike, so that one can reuse what another left.
ShortAsks ==
  {[ids |-> <<a>>, max |-> 2, stream |-> TRUE],
   [ids |-> <<a, b, b>>, max |-> 1, stream |-> FALSE]}

\* Replies long enough for passes of two drafts.
LongAsks ==
  {[ids |-> <<a, b>>, max |-> 4, stream |-> TRUE],
   [ids |-> <<a, b, a>>, max |-> 3, stream |-> FALSE]}

\* The second begins as the first does with its second token left out.
AlikeAsks ==
  {[ids |-> <<a, a, b>>, max |-> 1, stream |-> FALSE],
   [ids |-> <<a, b, a>>, max |-> 1, stream |-> FALSE]}

Symmetry == Permutations(Requests)
=============================================================================
