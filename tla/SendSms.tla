------------------------------- MODULE SendSms -------------------------------
(***************************************************************************)
(* run_send_sms (app/src/do_send_sms.cpp): two commands are executed, then *)
(* a chain of completion handlers writes AT+CMGS, waits for the modem's    *)
(* prompt and writes the text.  An error in the chain is only logged.      *)
(***************************************************************************)
EXTENDS Session

CONSTANTS Da, SmsText     \* destination address and text, as tokens

SendSmsOpened == Opens("cmgf")

SendSmsCmgfExecuted ==
  \/ ExecuteWrites("cmgf", make_at_cmgf_write(<<"1">>))
  \/ ExecuteReturns("cmgf", "cscs")

SendSmsCscsExecuted ==
  \/ ExecuteWrites("cscs", make_at_cscs_write(<<"GSM">>))
  \/ ExecuteReturns("cscs", "cmgs")

\* Mutated form: the prompt is not waited for.
CmgsWrittenBlindly ==
  /\ step = "cmgs"
  /\ Write(ToString(make_at_cmgs_write(Da)))
  /\ step' = "text"
  /\ UNCHANGED <<sb, op, msg, status>>

\* async_write and cmgs_write_handler, which starts to wait for the prompt.
CmgsWritten ==
  /\ step = "cmgs"
  /\ Write(ToString(make_at_cmgs_write(Da)))
  /\ SearchOn(Fresh)
  /\ step' = "prompt"
  /\ UNCHANGED <<msg, status>>

\* Mutated form: the prompt must be the only line.
PromptReceivedAlone(m) == m.rc = None /\ m.body = <<<<PROMPT>>>>

\* Mutated form: any message without a code is a prompt.
PromptReceivedAny(m) == m.rc = None

\* prompt_read_handler.
PromptReceived(m) == m.rc = None /\ FrontIs(m, PROMPT)

PromptRead ==
  /\ ReadEnds("prompt")
  /\ IF PromptReceived(msg')
     THEN op' = Idle /\ step' = "text" /\ UNCHANGED status
     ELSE Exit(0)
  /\ UNCHANGED device

\* async_write_text and text_write_handler; then ios.run() has nothing to do.
TextWritten ==
  /\ step = "text"
  /\ Write(TextToString(SmsText))
  /\ Exit(0)
  /\ UNCHANGED <<sb, msg>>

\* An operation of the chain completes with an error, which is logged.
ChainFails ==
  /\ step \in {"cmgs", "text"} \/ (step = "prompt" /\ op.st = "waiting")
  /\ Exit(0)
  /\ UNCHANGED <<device, sb, msg>>

SendSmsActs ==
  \/ SendSmsOpened \/ SendSmsCmgfExecuted \/ SendSmsCscsExecuted
  \/ CmgsWritten \/ PromptRead \/ TextWritten

SendSmsFails == OpenFails \/ (\E at \in {"cmgf", "cscs"} : ExecuteFails(at)) \/ ChainFails
=============================================================================
