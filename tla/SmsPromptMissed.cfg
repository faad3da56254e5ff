CONSTANTS
  Text = {"u", "info", "usb", "0", "1", "+CMT:", "sms", "+CMGS:", "+QCFG:", "da", "hello"}
  Zero = "NUL"
  Window = 24
  Da <- mc_Da
  SmsText <- mc_Text
  Subcommands = {"send-sms"}
  QcfgAnswers = {"response", "urc"}
  Refuses = FALSE
  MaxFaults = 0
  Urcs <- mc_Line
  MaxUrcs = 1
  WhenListening = FALSE
  WholeReads = {TRUE}
  Again = {}
  MaxRestarts = 0
  MaxTrouble = 2
SPECIFICATION Spec
PROPERTIES NotReceivedIsTrue
CHECK_DEADLOCK FALSE
