---------------------------- MODULE MCAssetDesk ----------------------------
(* Model-checking instance of the asset desk, one request at a time.        *)
EXTENDS AssetDesk, TLC

Symmetry == Permutations(Slots) \cup Permutations(Users) \cup Permutations(IncidentSlots)
=============================================================================
