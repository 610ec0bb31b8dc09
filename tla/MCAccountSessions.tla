------------------------- MODULE MCAccountSessions -------------------------
(* Model-checking instance of signing in and out.                           *)
EXTENDS AccountSessions, TLC

Symmetry == Permutations(Keys) \cup Permutations(Workers)
              \cup Permutations(Subjects) \cup Permutations(Browsers)
=============================================================================
