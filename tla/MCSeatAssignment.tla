-------------------------- MODULE MCSeatAssignment --------------------------
(* TLC instances of SeatAssignment: what is interchangeable.                   *)
EXTENDS SeatAssignment, TLC

Symmetry == Permutations(Seats) \cup Permutations(Students) \cup Permutations(Requests)
=============================================================================
