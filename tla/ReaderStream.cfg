CONSTANTS
  Text = {"t", "u"}
  Zero = "NUL"
  Messages <- mc_Alike
  MaxSent = 4
  Window = 24
  Uses <- mc_Stream
  NewResponse = FALSE
  Lockstep = TRUE
SPECIFICATION FairSpec
INVARIANTS MatchIsInBuffer BufferDrained
PROPERTIES StreamSpec AllReported
CHECK_DEADLOCK FALSE
