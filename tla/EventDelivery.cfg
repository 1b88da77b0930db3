\* Two events of any kind, with a fraction or without; one retry, one failure, two
\* screens with room for one event.
SPECIFICATION MCSpec
CONSTANTS
  Times = {2, 5}
  MaxEvents = 2
  MaxRetries = 1
  MaxFailures = 1
  Subscribers = {s1, s2}
  Capacity = 1
  MaxWalks = 1
SYMMETRY Symmetry
INVARIANT EveryoneIsTold
INVARIANT AckedIsEntered
INVARIANT AckedIsJudged
CHECK_DEADLOCK FALSE
