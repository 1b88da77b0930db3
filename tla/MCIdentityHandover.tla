------------------------ MODULE MCIdentityHandover --------------------------
(* TLC instance of IdentityHandover: symmetric students and face tracks.     *)
EXTENDS IdentityHandover, TLC

Symmetry == Permutations(Students) \cup Permutations(Faces)
=============================================================================
