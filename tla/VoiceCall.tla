------------------------------ MODULE VoiceCall ------------------------------
(***************************************************************************)
(* run_make_vcall and run_receive_vcall (app/src/do_make_vcall.cpp,        *)
(* app/src/do_receive_vcall.cpp).  Both ask for the USB configuration,     *)
(* wait for a +QCFG line, write the configuration back with its last flag  *)
(* on, and switch the audio on; then one dials, sleeps and hangs up, the   *)
(* other waits for a RING; both switch the audio off.                      *)
(*                                                                         *)
(* The second wait of run_receive_vcall is here what it is in the code:    *)
(* ios.run() of an io_service that ran out of work before, and was not     *)
(* restarted, returns at once.  The handler of RING never runs.            *)
(***************************************************************************)
EXTENDS Session

VARIABLES usb_cfg,   \* the configuration to write
          stopped    \* whether ios.run() has run out of work

-----------------------------------------------------------------------------
VoiceCallOpened ==
  /\ Opens("query")
  /\ UNCHANGED <<usb_cfg, stopped>>

QueryExecuted ==
  /\ \/ ExecuteWrites("query", make_at_qcfg_write(<<"USBCFG">>))
     \/ ExecuteReturns("query", "listen")
  /\ UNCHANGED <<usb_cfg, stopped>>

QcfgListeningStarts ==
  /\ step = "listen"
  /\ op = Idle
  /\ SearchOn(Fresh)
  /\ UNCHANGED <<device, step, msg, status, usb_cfg, stopped>>

\* Mutated form: the name of the setting is taken for a part of its value.
FlagOnWhole(cfg) == [(<<"+QCFG:">> \o cfg) EXCEPT ![Len(cfg) + 1] = "1"]

\* Mutated form: the flag is left as it was.
FlagKept(cfg) == cfg

\* Mutated form: any line is the configuration.
UrcReceivedAny(m) == m.body # <<>>

\* qcfg_read_handler.  The flag is the last character of the first line, the
\* configuration what follows its name; substr and back need it not to be empty,
\* see Program!ConfigHasAValue.
UrcReceived(m) == FrontIs(m, "+QCFG:")
FlagOn(cfg)    == [cfg EXCEPT ![Len(cfg)] = "1"]

NoQcfgRead ==
  /\ ReadsAgain("listen")
  /\ ~UrcReceived(msg')
  /\ UNCHANGED <<device, step, status, usb_cfg, stopped>>

QcfgRead ==
  /\ ReadEnds("listen")
  /\ UrcReceived(msg')
  /\ usb_cfg' = FlagOn(Tail(msg'.body[1]))
  /\ op' = Idle
  /\ step' = "config"
  /\ stopped' = TRUE
  /\ UNCHANGED <<device, status>>

\* An error is logged, and the subcommand goes on without a configuration.
QcfgListeningFails ==
  /\ step = "listen"
  /\ op.st = "waiting"
  /\ op' = Idle
  /\ step' = "config"
  /\ stopped' = TRUE
  /\ UNCHANGED <<device, sb, msg, status, usb_cfg>>

ConfigExecuted ==
  /\ \/ ExecuteWrites("config", make_at_qcfg_write(usb_cfg))
     \/ ExecuteReturns("config", "audio on")
  /\ UNCHANGED <<usb_cfg, stopped>>

AudioOnExecuted ==
  /\ \/ ExecuteWrites("audio on", make_at_qpcmv_write(<<"1,2">>))
     \/ ExecuteReturns("audio on", "cscs")
  /\ UNCHANGED <<usb_cfg, stopped>>

VoiceCallCscsExecuted ==
  /\ \/ ExecuteWrites("cscs", make_at_cscs_write(<<"GSM">>))
     \/ ExecuteReturns("cscs", IF subcommand = "rcv-call" THEN "wait" ELSE "dial")
  /\ UNCHANGED <<usb_cfg, stopped>>

-----------------------------------------------------------------------------
\* Mutated form: the call is not hung up.
DialExecutedOnly ==
  /\ \/ ExecuteWrites("dial", make_atd(<<"{}">>))
     \/ ExecuteReturns("dial", "audio off")
  /\ UNCHANGED <<usb_cfg, stopped>>

\* run_make_vcall.  The argument of make_atd is a literal; sleep(30) lies
\* between the two commands.
DialExecuted ==
  /\ \/ ExecuteWrites("dial", make_atd(<<"{}">>))
     \/ ExecuteReturns("dial", "hang up")
  /\ UNCHANGED <<usb_cfg, stopped>>

HangUpExecuted ==
  /\ \/ ExecuteWrites("hang up", make_ath)
     \/ ExecuteReturns("hang up", "audio off")
  /\ UNCHANGED <<usb_cfg, stopped>>

\* run_receive_vcall: async_read, and ios.run() of an io_service that is
\* stopped.  The read takes what the device has at that moment into the put
\* area of the buffer, or nothing if buf still holds a response; its
\* completion is never run, and nobody looks at buf again.
CallAwaited ==
  /\ step = "wait"
  /\ stopped
  /\ \E n \in 0 .. Least(ReadSize(Fresh), Len(line)) :
       /\ sb' = Fill(Prepared(Fresh), 0, SubSeq(line, 1, n))
       /\ line' = SubSeq(line, n + 1, Len(line))
  /\ step' = "audio off"
  /\ UNCHANGED <<wire, modem, urcs, op, msg, status, usb_cfg, stopped>>

AudioOffExecuted ==
  /\ \/ ExecuteWrites("audio off", make_at_qpcmv_write(<<"0">>))
     \/ ExecuteEnds("audio off")
  /\ UNCHANGED <<usb_cfg, stopped>>

-----------------------------------------------------------------------------
VoiceCallActs ==
  \/ VoiceCallOpened \/ QueryExecuted \/ QcfgListeningStarts \/ NoQcfgRead \/ QcfgRead
  \/ ConfigExecuted \/ AudioOnExecuted \/ VoiceCallCscsExecuted
  \/ DialExecuted \/ HangUpExecuted \/ CallAwaited \/ AudioOffExecuted

Commands == {"query", "config", "audio on", "cscs", "dial", "hang up", "audio off"}

VoiceCallFails ==
  \/ QcfgListeningFails
  \/ /\ OpenFails \/ \E at \in Commands : ExecuteFails(at)
     /\ UNCHANGED <<usb_cfg, stopped>>
=============================================================================
