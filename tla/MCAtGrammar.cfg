CONSTANTS
  Text = {"t"}
  Words <- mc_Words
  MaxWords = 6
  MaxStray = 1
SPECIFICATION Spec
INVARIANTS AgreesWithGrammar RoundTrip RcMeansFinalCode CodeIsNoLine
PROPERTY MatchIsStable
CHECK_DEADLOCK FALSE
