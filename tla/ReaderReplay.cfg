CONSTANTS
  Text = {"t", "u"}
  Zero = "NUL"
  Messages <- mc_Lengths
  MaxSent = 3
  Window = 24
  Uses <- mc_Reused
  NewResponse = FALSE
  Lockstep = TRUE
SPECIFICATION Spec
INVARIANT AnotherMessage
CHECK_DEADLOCK FALSE
