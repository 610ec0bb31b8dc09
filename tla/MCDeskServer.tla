---------------------------- MODULE MCDeskServer ----------------------------
(* Model-checking instance of the served desk: overlapping requests.        *)
EXTENDS DeskServer, TLC

Symmetry ==
  Permutations(Workers) \cup Permutations(Users) \cup Permutations(Slots)
    \cup Permutations(IncidentSlots)
=============================================================================
