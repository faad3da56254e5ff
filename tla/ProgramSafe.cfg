CONSTANTS
  Text = {"u", "info", "usb", "0", "1", "+CMT:", "sms", "+CMGS:", "+QCFG:", "da", "hello"}
  Zero = "NUL"
  Window = 24
  Da <- mc_Da
  SmsText <- mc_Text
  Subcommands <- mc_All
  QcfgAnswers = {"response", "urc"}
  Refuses = TRUE
  MaxFaults = 1
  Urcs <- mc_Urcs
  MaxUrcs = 1
  WhenListening = FALSE
  WholeReads = {TRUE, FALSE}
  Again <- mc_Again
  MaxRestarts = 2
  MaxTrouble = 2
SPECIFICATION Spec
INVARIANTS TypeOK OneAtATime TextOnlyAtPrompt ConfigIsTheModems ConfigIsHeard ConfiguredFirst
PROPERTIES OnlyRealSms TextEntrySpec ConfigHasAValue
CHECK_DEADLOCK FALSE
