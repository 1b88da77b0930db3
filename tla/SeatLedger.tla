----------------------------- MODULE SeatLedger -----------------------------
(***************************************************************************)
(* What app/classrooms promises of the observations of seats: a batch      *)
(* counts once and for all its seats together, and a seat shows the newest *)
(* observation that counts.  An edit may lose track of a seat.             *)
(***************************************************************************)
EXTENDS Naturals

CONSTANTS
  Seats,
  Events,
  Covers, \* the seats each event observes
  None,
  Lost    \* what a seat shows that an edit has lost track of

VARIABLES
  at,      \* observed_at of each event
  counted, \* the events whose batch counts
  current  \* the event each seat shows

vars == <<at, counted, current>>

Tracked(s) == current[s] # Lost
Newer(e, s) == current[s] # None => at[e] >= at[current[s]]

\* The batch of an event counts: all its seats take it that show nothing newer.
Record(e) ==
  /\ e \notin counted
  /\ counted' = counted \cup {e}
  /\ current' = [s \in Seats |->
       IF s \in Covers[e] /\ Tracked(s) /\ Newer(e, s) THEN e ELSE current[s]]
  /\ UNCHANGED at

\* Of two observations of the same moment the earlier one may be shown again.
Repeat(e, S) ==
  /\ e \in counted
  /\ \A s \in S : Tracked(s) /\ current[s] # None /\ at[e] = at[current[s]]
  /\ current' = [s \in Seats |-> IF s \in S THEN e ELSE current[s]]
  /\ UNCHANGED <<at, counted>>

Lose(s) ==
  /\ current' = [current EXCEPT ![s] = Lost]
  /\ UNCHANGED <<at, counted>>

Init ==
  /\ counted = {}
  /\ current = [s \in Seats |-> None]

Next ==
  \/ \E e \in Events : Record(e)
  \/ \E e \in Events : \E S \in SUBSET Covers[e] : Repeat(e, S)
  \/ \E s \in Seats : Lose(s)

Spec == Init /\ [][Next]_vars
=============================================================================
