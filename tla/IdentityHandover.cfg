\* Two students, two face tracks, two classroom tracks.
SPECIFICATION Spec
CONSTANTS
  Students = {s1, s2}
  Faces = {f1, f2}
  NumTracks = 2
  Times = {0, 2, 4}
  MaxDelay = 2
  Skew = 0
  Stale = 3
  Retention = 2
  TrackBuffer = 1
  RecoveryEnabled = TRUE
  None = None
SYMMETRY Symmetry
INVARIANT OneTrackPerStudent
INVARIANT CarriedDoesNotWait
INVARIANT RemovedTracksAreForgotten
PROPERTY IdentityIsLocked
PROPERTY OnlyRemovalStrandsAPair
CHECK_DEADLOCK FALSE
