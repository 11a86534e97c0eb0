CONSTANTS
  MetadataRow <- MCMetadataRow
  MaxMetadata = 3
  MaxLines = 2
  Budget = 3
  CloseTime = 1
  MaxRequests = 2
SPECIFICATION LifecycleSpec
INVARIANTS LifecycleTypeOK ClientsOutliveUsers SavedIsWhole
PROPERTIES DrainGetsTime SignalEnds
CHECK_DEADLOCK FALSE
