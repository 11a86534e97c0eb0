CONSTANTS
  Tab = {t1, t2}
  SessionId = {s1}
  NoCookie = NoCookie
  Question = {q}
  Query = {c}
  Rejected = {}
  NoText = NoText
  NoDraft = NoDraft
  MaxRuns = 2
  MaxRows = 1
SYMMETRY MCSymmetry
SPECIFICATION Spec
PROPERTIES SavesOnlyCurrentRuns
