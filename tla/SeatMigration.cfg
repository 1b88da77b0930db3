\* Three seats, two of them in another order as text, one student, and two runs.
SPECIFICATION MCSpec
CONSTANTS
  Seats = {1, 2, 3}
  TextRank <- ByText
  Students = {st}
  Rows = {1}
  MaxRuns = 2
  MaxFaults = 2
  MaxChanges = 1
  MaxApprovals = 1
  None = None
  Partial = Partial
INVARIANT ResumedIsTheSame
INVARIANT RestoredIsAsBefore
INVARIANT AuditMissesOnlyFaults
CHECK_DEADLOCK FALSE
