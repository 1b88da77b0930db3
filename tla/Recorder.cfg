\* Two segments, a clock that may be set back, one kill.
SPECIFICATION FairSpec
CONSTANTS
  MaxTime = 2
  MaxSegments = 2
  MaxCrashes = 1
  MaxSetbacks = 1
  None = None
INVARIANT NoSegmentIsLost
INVARIANT StoredIsPlayable
INVARIANT NothingIsLeft
PROPERTY EveryFinishedIsStored
CHECK_DEADLOCK FALSE
