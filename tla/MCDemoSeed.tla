----------------------------- MODULE MCDemoSeed -----------------------------
(* Model-checking instance of the demo seed: one asset to be lent, one with *)
(* a returned loan, which is also the one counted as missing, one with an   *)
(* incident, and one that is found and applied for.                         *)
EXTENDS DemoSeed, TLC

CONSTANTS a1, a2, a3, a4

Incident == a3 :> "breakdown"

Symmetry ==
  Permutations(Slots) \cup Permutations(IncidentSlots) \cup Permutations(Sessions)
=============================================================================
