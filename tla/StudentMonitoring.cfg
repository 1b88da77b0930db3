\* One student, two seats, one camera each, two events handled at the same time.
SPECIFICATION Spec
CONSTANTS
  c1 = c1
  c2 = c2
  A = A
  B = B
  Students = {s1}
  Seats = {A, B}
  Cameras = {c1, c2}
  Roi <- SplitRoi
  Events = {e1, e2}
  Times = {0, 1, 2}
  Handlers = {h1, h2}
  MaxPosts = 3
  OccupancyHold = 1
  IdentityHold = 1
  AbsentGrace = 1
  MayFail = TRUE
  MayReassign = FALSE
  None = None
SYMMETRY SplitSymmetry
INVARIANT IdentityHasSource
INVARIANT AbsentSawAnEmptySeat
INVARIANT OccupiedHasSource
PROPERTY OnlyStaleReadsGoBack
CHECK_DEADLOCK FALSE
