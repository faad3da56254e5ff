CONSTANTS
  Text = {"t", "u"}
  Zero = "NUL"
  Messages <- mc_AllShapes
  MaxSent = 1
  Window = 24
  Uses <- mc_Split
  NewResponse = TRUE
  Lockstep = TRUE
SPECIFICATION Spec
INVARIANT EntireMessage
CHECK_DEADLOCK FALSE
