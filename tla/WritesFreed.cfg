CONSTANTS
  Outgoing <- mc_Outgoing
  MaxWrites = 1
  Ways = {"async"}
  Roomy = FALSE
  Junk = "junk"
  Faults = TRUE
SPECIFICATION Spec
CHECK_DEADLOCK FALSE
INVARIANT OnlyTheRequest
