CONSTANTS
  SessionId = {s1, s2, s3, s4}
  NoCookie = NoCookie
  Content <- MCContent
  NewContent = "empty"
  Measure <- MCMeasure
  Budget = 8
  TTL = 2
  MaxTime = 5
SYMMETRY MCSymmetry
SPECIFICATION Spec
INVARIANTS TypeOK RecencyList Accounting WithinBudget
PROPERTIES NoneOverstays EvictsOldestForSpace ContractSpec
