CONSTANTS
  Text = {"t", "u"}
  Zero = "NUL"
  Messages <- mc_Noisy
  MaxSent = 3
  Window = 4
  Uses <- mc_All
  NewResponse = FALSE
  Lockstep = FALSE
SPECIFICATION Spec
INVARIANTS TypeOK InFlight FirstIsShown
PROPERTIES NothingLostWhileReading NeverResynchronises
CHECK_DEADLOCK FALSE
