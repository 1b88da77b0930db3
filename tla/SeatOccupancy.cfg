\* Two seats, two events, each posted by any of three requests, one edit.
SPECIFICATION Spec
CONSTANTS
  Seats = {A, B}
  Events = {e1, e2}
  Covers <- AllSeats
  Sight <- OneVacant
  e1 = e1
  Times = {1, 2}
  Requests = {r1, r2, r3}
  Editors = {d1}
  RetryLimit = 2
  None = None
SYMMETRY Symmetry
INVARIANT BatchIsWhole
INVARIANT CurrentIsOnRecord
INVARIANT NewestIsShown
PROPERTY ImplementsLedger
CHECK_DEADLOCK FALSE
