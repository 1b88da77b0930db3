-------------------------- MODULE MCSeatOccupancy ---------------------------
(* TLC instances of SeatOccupancy: which seats an event observes, and in what  *)
(* state.                                                                      *)
EXTENDS SeatOccupancy, TLC

CONSTANTS e1

\* Every event sees every seat.
AllSeats == [e \in Events |-> Seats]

\* The events do not all see the same.
OneVacant == [e \in Events |-> IF e = e1 THEN "VACANT" ELSE "OCCUPIED"]

Symmetry == Permutations(Events \ {e1}) \cup Permutations(Requests) \cup Permutations(Seats)
=============================================================================
