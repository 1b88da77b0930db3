-------------------------- MODULE MCSeatMigration --------------------------
(* TLC instance of SeatMigration: seats with the codes S1, S2 and S10.  The    *)
(* student starts on S2; S1 may have its place already, or S2 be gone or       *)
(* partly placed; all else is active and has no place yet.                     *)
EXTENDS SeatMigration

ByText == [s \in Seats |-> CASE s = 1 -> 1 [] s = 2 -> 3 [] s = 3 -> 2]

Fresh(s) == seats[s] = [status |-> "active", row |-> None]

MCInit ==
  /\ Init
  /\ assigned[2] # None
  /\ Fresh(3)
  /\ \/ seats[1] = [status |-> "active", row |-> 1] /\ Fresh(2)
     \/ Fresh(1) /\ seats[2] \in {[status |-> "active", row |-> None],
                                      [status |-> "active", row |-> Partial],
                                      [status |-> "gone", row |-> None]}

MCSpec == MCInit /\ [][Next]_vars
=============================================================================
