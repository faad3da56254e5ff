CONSTANTS
  Text = {"u", "info", "usb", "0", "1", "+CMT:", "sms", "+CMGS:", "+QCFG:", "da", "hello"}
  Zero = "NUL"
  Window = 24
  Da <- mc_Da
  SmsText <- mc_Text
  Subcommands <- mc_All
  QcfgAnswers = {"response", "urc"}
  Refuses = TRUE
  MaxFaults = 0
  Urcs <- mc_Ring
  MaxUrcs = 1
  WhenListening = TRUE
  WholeReads = {TRUE, FALSE}
  Again <- mc_All
  MaxRestarts = 1
  MaxTrouble = 1
SPECIFICATION FairSpec
PROPERTIES ExchangeSpec PromptIsAnswered Terminates ReactsToSms AudioIsOffAfterwards
CHECK_DEADLOCK FALSE
