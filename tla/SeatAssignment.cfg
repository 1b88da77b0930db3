\* Two seats, two students, three requests at a time.
SPECIFICATION Spec
CONSTANTS
  Seats = {A, B}
  Students = {s1, s2}
  Requests = {r1, r2, r3}
  RetryLimit = 2
  None = None
SYMMETRY Symmetry
INVARIANT OneSeatPerStudent
PROPERTY OrphansOnlyFromOverlap
CHECK_DEADLOCK FALSE
