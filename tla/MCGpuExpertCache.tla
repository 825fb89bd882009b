------------------------- MODULE MCGpuExpertCache --------------------------
(* How the model is opened, and the symmetry of the instances for TLC: no  *)
(* operator tells one slot, or one expert of a layer, from another.        *)
EXTENDS GpuExpertCache, TLC

AnyOpening == [streamed : BOOLEAN, cpu : BOOLEAN, rows : {TRUE}]
StepsStreamed == [streamed : {TRUE}, cpu : BOOLEAN, rows : {FALSE}]
SlotsAndExperts == Permutations(Slots) \cup Permutations(Experts)
=============================================================================
