CONSTANTS
  Tab = {t1, t2}
  SessionId = {s1}
  NoCookie = NoCookie
  Question = {q}
  Query = {c, d, bad}
  Rejected = {bad}
  NoText = NoText
  NoDraft = NoDraft
  MaxRuns = 2
  MaxRows = 1
SYMMETRY MCSymmetry
SPECIFICATION Spec
INVARIANTS RunsStayHome LastRunIsKept SavedMeansStored RowsAreRuns RerunsRepeatRuns
PROPERTIES SavingKeepsDrafts
