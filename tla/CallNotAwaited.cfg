CONSTANTS
  Text = {"u", "info", "usb", "0", "1", "+CMT:", "sms", "+CMGS:", "+QCFG:", "da", "hello"}
  Zero = "NUL"
  Window = 24
  Da <- mc_Da
  SmsText <- mc_Text
  Subcommands = {"rcv-call"}
  QcfgAnswers = {"urc"}
  Refuses = FALSE
  MaxFaults = 0
  Urcs <- mc_Ring
  MaxUrcs = 1
  WhenListening = FALSE
  WholeReads = {FALSE}
  Again = {}
  MaxRestarts = 0
  MaxTrouble = 2
SPECIFICATION Spec
PROPERTIES WaitsForTheCall
CHECK_DEADLOCK FALSE
