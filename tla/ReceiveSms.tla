----------------------------- MODULE ReceiveSms -----------------------------
(***************************************************************************)
(* run_receive_sms (app/src/do_receive_sms.cpp): three commands are        *)
(* executed, then one completion handler reads message after message until *)
(* the first line of the response object is a +CMT notification.  The      *)
(* object is the one execute() has used, and its lines are never cleared.  *)
(***************************************************************************)
EXTENDS Session

CONSTANT WhenListening    \* the SMS comes when the program waits for it

ReceiveSmsOpened == Opens("cmgf")

ReceiveSmsCmgfExecuted ==
  \/ ExecuteWrites("cmgf", make_at_cmgf_write(<<"1">>))
  \/ ExecuteReturns("cmgf", "cscs")

ReceiveSmsCscsExecuted ==
  \/ ExecuteWrites("cscs", make_at_cscs_write(<<"GSM">>))
  \/ ExecuteReturns("cscs", "cnmi")

CnmiExecuted ==
  \/ ExecuteWrites("cnmi", make_at_cnmi_write(<<"1,2,0,0,0">>))
  \/ ExecuteReturns("cnmi", "listen")

SmsListeningStarts ==
  /\ step = "listen"
  /\ op = Idle
  /\ SearchOn(Fresh)
  /\ UNCHANGED <<device, step, msg, status>>

\* Mutated form: the last line is looked at.
SmsReceivedLast(m) == m.body # <<>> /\ m.body[Len(m.body)][1] = "+CMT:"

\* Mutated form: any line is a notification.
SmsReceivedAny(m) == m.body # <<>>

\* The completion handler: another read, or the end of ios.run().
SmsReceived(m) == FrontIs(m, "+CMT:")

NoSmsRead ==
  /\ ReadsAgain("listen")
  /\ ~SmsReceived(msg')
  /\ UNCHANGED <<device, step, status>>

SmsRead ==
  /\ ReadEnds("listen")
  /\ SmsReceived(msg')
  /\ Exit(0)
  /\ UNCHANGED device

SmsListeningFails ==
  /\ step = "listen"
  /\ op.st = "waiting"
  /\ Exit(0)
  /\ UNCHANGED <<device, sb, msg>>

\* The network delivers an SMS and the modem, once told to, announces it with
\* +CMT and the text (external).
SmsAnnounced ==
  /\ modem.cmt /\ ~modem.sms
  /\ WhenListening =>
       subcommand = "rcv-sms" /\ step = "listen" /\ op.st = "waiting" /\ line = <<>> /\ wire = <<>>
  /\ line' = line \o Cmt
  /\ modem' = [modem EXCEPT !.sms = TRUE]
  /\ UNCHANGED <<wire, urcs, program>>

ReceiveSmsActs ==
  \/ ReceiveSmsOpened \/ ReceiveSmsCmgfExecuted \/ ReceiveSmsCscsExecuted \/ CnmiExecuted
  \/ SmsListeningStarts \/ NoSmsRead \/ SmsRead

ReceiveSmsFails == OpenFails \/ (\E at \in {"cmgf", "cscs", "cnmi"} : ExecuteFails(at)) \/ SmsListeningFails
=============================================================================
