\* One student, three events, one request at a time, an administrator who moves the student.
SPECIFICATION Spec
CONSTANTS
  c1 = c1
  c2 = c2
  A = A
  B = B
  Students = {s1}
  Seats = {A, B}
  Cameras = {c1, c2}
  Roi <- SplitRoi
  Events = {e1, e2, e3}
  Times = {0, 1}
  Handlers = {h1}
  MaxPosts = 4
  OccupancyHold = 1
  IdentityHold = 1
  AbsentGrace = 1
  MayFail = FALSE
  MayReassign = TRUE
  None = None
SYMMETRY SplitSymmetry
INVARIANT HistoryChains
CHECK_DEADLOCK FALSE
