\* Two classroom cameras that share a lane: the buffer has room for one of them, so
\* frames are evicted, the queue for both, so results wait behind a resting head.
SPECIFICATION WorkingSpec
CONSTANTS
  c1 = c1
  c2 = c2
  tracking = tracking
  entry = entry
  Cameras = {c1, c2}
  Lanes = {tracking}
  LaneOf <- OneLane
  BufferSize = 1
  QueueSize = 2
  MaxFailures = 2
  MaxFrames = 2
  None = None
INVARIANT FramesInOrder
INVARIANT NothingUncounted
PROPERTIES FirstComeFirstServed WaitingIsServed
CHECK_DEADLOCK FALSE
