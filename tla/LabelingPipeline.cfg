\* Two plans, one of which leaks; two values of each setting, and no test or one of two
\* sizes.
SPECIFICATION MCFairSpec
CONSTANTS
  x = x
  m = m
  t = t
  one = one
  Plans = {p, q}
  Leaking = {q}
  Exclusions = {x, y}
  Models = {m, n}
  Targets = {t, u}
  Loose = {one, other}
  HumanLabels = {good, bad}
  Accepted = {good}
  Candidates = candidates
  MaxEdits = 1
  MaxStops = 1
  Missing = Missing
INVARIANT ArchiveIsChecked
INVARIANT PublishedAsReviewed
INVARIANT ReadyFitsItsRun
PROPERTY ReviewedTestStays
PROPERTY GetsReady
CHECK_DEADLOCK FALSE
