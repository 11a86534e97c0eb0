CONSTANTS
  Midnights <- MCMidnights
  Text = {"schema", "blank"}
  Usable = {"schema"}
  Budget = 1
  MaxTime = 5
  MaxRows = 2
SPECIFICATION Spec
INVARIANTS NoDaySkipped
