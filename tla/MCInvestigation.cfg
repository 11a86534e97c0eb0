CONSTANTS
  q = q
  other = other
  Request = {q, other}
  Followed = q
  Nobody = Nobody
  n = n
  m = m
  k = k
  nm = nm
  mn = mn
  mk = mk
  Entity <- MCEntity
  Relationship <- MCRelationship
  Ends <- MCEnds
  Row <- MCRow
  GraphSize <- MCGraphSize
  MaxRows = 2
  MaxBytes = 13
  MaxStream = 3
  MaxDrawnNodes = 2
  MaxDrawnRelationships = 1
SPECIFICATION InvestigationSpec
INVARIANTS InvestigationTypeOK RowsWhole WithinLimits CleanMeansComplete OnlyReadsCommit EndedOnce NothingLeftOpen OneClient RunsOnlyComplete PageTellsAll GraphAccounted
PROPERTIES QuestionsEnd
CHECK_DEADLOCK FALSE
