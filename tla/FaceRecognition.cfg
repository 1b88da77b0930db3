CONSTANTS
  Students = {s1, s2}
  Enrollments = {e1, e2}
  Poses = {front, left}
  Quota <- Quotas
  Required = 2
  MinValid = 1
  Threads = {t1, t2}
  Loop = loop
  MaxSamples = 2
  MaxVectors = 2
  MayBreak = TRUE
  Cameras = {c1}
  Identifier = identifier
  Probe = probe
  None = None
SPECIFICATION MCSpec
SYMMETRY Symmetry
INVARIANT RecognitionStaysOpen
PROPERTIES NoImageIsForgotten TrackersUseTheGallery
CHECK_DEADLOCK FALSE
