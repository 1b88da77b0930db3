\* Two classroom cameras that share a lane, beside the lane of the entrance.
SPECIFICATION FairSpec
CONSTANTS
  c1 = c1
  c2 = c2
  tracking = tracking
  entry = entry
  Cameras = {c1, c2}
  Lanes = {tracking, entry}
  LaneOf <- OneLane
  BufferSize = 2
  QueueSize = 2
  MaxFailures = 1
  MaxFrames = 1
  None = None
INVARIANT NoResultLostAtTheEnd
PROPERTY ShutdownFinishes
CHECK_DEADLOCK FALSE
