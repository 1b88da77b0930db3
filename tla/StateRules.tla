----------------------------- MODULE StateRules -----------------------------
(***************************************************************************)
(* The pure rules of app/student_monitoring: what one frame of a camera    *)
(* says about its seats (occupancy_mapping.py) and what that makes of a    *)
(* student's state (state_rules.py).                                       *)
(*                                                                         *)
(* A frame is what the worker detected, seen through the seat ROIs of its  *)
(* camera: frame.sights gives each of those seats one of                   *)
(*   "nobody"   no detection matched,                                      *)
(*   "weak"     only detections below the occupancy threshold,             *)
(*   "somebody" a person without an identity above the threshold,          *)
(*   a student  a person identified as that student,                       *)
(* and frame.outside is the set of students identified outside every ROI.  *)
(* A student seen on two seats keeps the seat of the higher confidence, so *)
(* a frame names each student on one seat at most.  Confidences themselves *)
(* and the reason codes are left out.                                      *)
(***************************************************************************)
EXTENDS Integers

CONSTANTS
  Students,
  Seats,
  IdentityHold, \* identity_hold_seconds
  AbsentGrace,  \* absent_grace_seconds
  None          \* no seat, no time, no record

ASSUME RulesAssumption ==
  /\ IdentityHold \in Nat /\ AbsentGrace \in Nat
  /\ None \notin Seats \cup Students \cup Int

Sights == {"nobody", "weak", "somebody"} \cup Students
SeatStates == {"VACANT", "UNKNOWN", "OCCUPIED"}
StudentStates == {"PRESENT", "WRONG_SEAT", "IN_CLASSROOM", "ABSENT", "UNKNOWN"}

Strong(sight) == sight \notin {"nobody", "weak"}

\* map_detections_to_evidence and _seat_state: a seat that is held counts as
\* occupied unless this frame saw somebody there for certain.
SeatState(frame, held) ==
  [seat \in DOMAIN frame.sights |->
     IF Strong(frame.sights[seat]) \/ seat \in held THEN "OCCUPIED"
     ELSE IF frame.sights[seat] = "weak" THEN "UNKNOWN" ELSE "VACANT"]

\* _identified_seats
SeatsIdentifying(frame, student) ==
  {seat \in DOMAIN frame.sights : frame.sights[seat] = student}

SeenAs(seatState, seat, state) == seat \in DOMAIN seatState /\ seatState[seat] = state

\* Mutant of HoldsIdentity: the hold never ends.
HoldsIdentityForever(before, seatState, at) ==
  /\ before # None
  /\ before.state \in {"PRESENT", "WRONG_SEAT"}
  /\ ~SeenAs(seatState, before.seat, "VACANT")

\* _held_previous: the last identification is carried on for a while, unless the
\* seat was seen empty.
HoldsIdentity(before, seatState, at) ==
  /\ before # None
  /\ before.state \in {"PRESENT", "WRONG_SEAT"}
  /\ at - before.identifiedAt <= IdentityHold
  /\ ~SeenAs(seatState, before.seat, "VACANT")

IdentifiedAt(before) == IF before = None THEN None ELSE before.identifiedAt

\* Mutant of VacantSince: absence dates from the judgement before.
VacantSinceJudged(before, at) == IF before # None THEN before.at ELSE at

\* _vacant_since
VacantSince(before, at) ==
  IF before # None /\ before.vacantSince # None THEN before.vacantSince ELSE at

\* unseated_identities: without seat ROIs nobody is outside them.
Outside(frame) == IF DOMAIN frame.sights = {} THEN {} ELSE frame.outside

\* _decide_one, for a student assigned to `seat` (only assigned students are judged).
Decide(student, seat, event, frame, held, before) ==
  LET at == frame.at
      seatState == SeatState(frame, held)
      Record(state, current, identifiedAt, vacantSince) ==
        [state |-> state, seat |-> current, assigned |-> seat, at |-> at, event |-> event,
         identifiedAt |-> identifiedAt, vacantSince |-> vacantSince]
      seated == SeatsIdentifying(frame, student)
      since == VacantSince(before, at)
  IN IF seated # {}
     THEN LET current == CHOOSE s \in seated : TRUE
          IN Record(IF current = seat THEN "PRESENT" ELSE "WRONG_SEAT", current, at, None)
     ELSE IF student \in Outside(frame)
     THEN Record("IN_CLASSROOM", None, at, None)
     ELSE IF HoldsIdentity(before, seatState, at)
     THEN Record(before.state, before.seat, before.identifiedAt, None)
     ELSE IF ~SeenAs(seatState, seat, "VACANT")
     THEN Record("UNKNOWN", None, IdentifiedAt(before), None)
     ELSE Record(IF at - since >= AbsentGrace THEN "ABSENT" ELSE "UNKNOWN",
                 None, IdentifiedAt(before), since)

=============================================================================
