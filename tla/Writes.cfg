CONSTANTS
  Outgoing <- mc_Outgoing
  MaxWrites = 2
  Ways = {"sync", "async"}
  Roomy = TRUE
  Junk = "junk"
  Faults = TRUE
SPECIFICATION Spec
CHECK_DEADLOCK FALSE
INVARIANT OnlyTheRequest
