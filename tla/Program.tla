------------------------------- MODULE Program -------------------------------
(***************************************************************************)
(* The program (app/src/main.cpp): main starts one of the subcommands,     *)
(* which runs against the device and the modem.  What a subcommand does is *)
(* in its module; here it is put together with the bytes that arrive and   *)
(* with the modem, which answers, refuses and speaks unasked at any time.  *)
(* The program may be killed and run again on the same device: its state   *)
(* is gone, what is on the line and in the modem is not.                   *)
(***************************************************************************)
EXTENDS SendSms, ReceiveSms, VoiceCall, Query

CONSTANTS
  Subcommands,    \* the subcommands main may be asked for
  WholeReads,     \* what whole may be
  Again,          \* bound: the subcommands it may be started again with
  MaxRestarts,    \* bound: how often the program is started again
  MaxFaults,      \* bound: how many reads and writes of the device fail
  MaxTrouble      \* bound: how many URCs, restarts and faults there are

ASSUME ProgramAssumption ==
  /\ {Da, SmsText} \subseteq Seq(Text)
  /\ WhenListening \in BOOLEAN
  /\ WholeReads \subseteq BOOLEAN
  /\ Again \subseteq Subcommands
  /\ MaxRestarts \in Nat
  /\ MaxFaults \in Nat
  /\ MaxTrouble \in Nat

VARIABLES
  whole,              \* a read of the device returns all there is to return
  restarts,           \* how often the program was started again
  faults,             \* how many operations failed
  fresh               \* history: it was opened without a trace of an earlier use

calls == <<usb_cfg, stopped>>
life == <<subcommand, whole, restarts>>
vars  == <<device, program, calls, life, faults, fresh>>

-----------------------------------------------------------------------------
Init ==
  /\ subcommand \in Subcommands
  /\ Started
  /\ usb_cfg = <<>>
  /\ stopped = FALSE
  /\ line = <<>>
  /\ wire = <<>>
  /\ modem = PowerUp
  /\ urcs = 0
  /\ whole \in WholeReads
  /\ restarts = 0
  /\ faults = 0
  /\ fresh = FALSE

\* What the thread of the program does next.
Runs ==
  /\ \/ subcommand = "send-sms" /\ SendSmsActs /\ UNCHANGED calls
     \/ subcommand = "rcv-sms" /\ ReceiveSmsActs /\ UNCHANGED calls
     \/ subcommand \in {"make-call", "rcv-call"} /\ VoiceCallActs
     \/ subcommand \in {"at_ok", "ati", "at+cops"} /\ QueryActs /\ UNCHANGED calls
  /\ fresh' = IF step = "open" THEN line' = <<>> /\ wire = <<>> /\ ~modem.text ELSE fresh
  /\ UNCHANGED <<life, faults>>

TroubleAllowed == urcs + restarts + faults < MaxTrouble

\* The device is not opened, or an operation on it completes with an error.
Fails ==
  /\ faults < MaxFaults
  /\ TroubleAllowed
  /\ \/ subcommand = "send-sms" /\ SendSmsFails /\ UNCHANGED calls
     \/ subcommand = "rcv-sms" /\ ReceiveSmsFails /\ UNCHANGED calls
     \/ subcommand \in {"make-call", "rcv-call"} /\ VoiceCallFails
     \/ subcommand \in {"at_ok", "ati", "at+cops"} /\ QueryFails /\ UNCHANGED calls
  /\ faults' = faults + 1
  /\ UNCHANGED <<life, fresh>>

Receives ==
  /\ step # "exit"
  /\ \E n \in 1 .. Len(line) :
       /\ whole => n = Least(op.n, Len(line))
       /\ Arrive(n)
  /\ UNCHANGED <<calls, life, faults, fresh>>

ModemAnswers == ModemActs /\ wire' # wire /\ UNCHANGED <<calls, life, faults, fresh>>

ModemSpeaksUp ==
  /\ TroubleAllowed
  /\ ModemActs /\ wire' = wire
  /\ UNCHANGED <<calls, life, faults, fresh>>

SmsArrives == SmsAnnounced /\ UNCHANGED <<calls, life, faults, fresh>>

\* The program has ended, or is killed at any moment ("Press Ctrl-C to
\* terminate"), and main is run again.  The modem, what was written to it and
\* what it has sent stay as they are.  Bound: from then on reads are whole, though
\* the program before may have left a part of a message on the line.
StartsAgain ==
  /\ restarts < MaxRestarts
  /\ TroubleAllowed
  /\ restarts' = restarts + 1
  /\ subcommand' \in Again
  /\ StartsOver
  /\ usb_cfg' = <<>>
  /\ stopped' = FALSE
  /\ fresh' = FALSE
  /\ whole' = TRUE
  /\ UNCHANGED faults

Next ==
  \/ Runs
  \/ Fails
  \/ Receives
  \/ ModemAnswers
  \/ ModemSpeaksUp
  \/ SmsArrives
  \/ StartsAgain

Spec == Init /\ [][Next]_vars

\* The thread of the program has something to do.
CanRun == step # "exit" /\ op.st # "waiting"

\* The program runs, the kernel hands over what it has, and the modem answers
\* what it is sent; whether it speaks unasked is its own affair.  The first is
\* WF_vars(Runs) with what enables it written out (without faults).
FairSpec ==
  /\ Spec
  /\ <>[]CanRun => []<><<Runs>>_vars
  /\ WF_vars(Receives)
  /\ WF_vars(ModemAnswers)

-----------------------------------------------------------------------------
\* Every variable has its type.
TypeOK ==
  /\ SessionTypeOK
  /\ usb_cfg \in Seq(Char)
  /\ stopped \in BOOLEAN

\* Nothing unasked was said, nothing of an earlier use is left, and a call has
\* heard its configuration.
Undisturbed == urcs = 0 /\ ~modem.sms /\ fresh /\ (stopped => usb_cfg # <<>>)

\* As long as the modem says nothing unasked, a command is only written when
\* the one before was answered (execute, and the handlers behind it), whatever
\* was refused or failed and however the bytes of the answers trickled in, if the
\* program found no trace of an earlier use (Validation.md:7).  A call that failed
\* to hear its configuration may still find it on the line.
OneAtATime == Undisturbed => Len(wire) <= 1

\* Undisturbed, the program implements the abstract exchange: it only writes when
\* no byte of an earlier answer is left anywhere, and only goes on when the answer
\* has come and is read, however its bytes trickled in.  (Where a call listens,
\* the modem may still tell the configuration it was asked for.)
onTheLine ==
  IF ~Undisturbed \/ step \in {"open", "exit"} THEN "none"
  ELSE IF Len(wire) = 1 /\ line = <<>> /\ Data(sb) = <<>> /\ op.st = "waiting" THEN "asked"
  ELSE IF wire = <<>> /\ op.st # "idle" THEN "answered"
  ELSE IF wire = <<>> /\ (line = <<>> \/ step = "listen") THEN "free"
  ELSE "astray"

Dialogue == INSTANCE Exchange WITH exchange <- onTheLine

ExchangeSpec == Dialogue!Spec

\* The text of an SMS (async_write_text) is only ever on its way to a modem that
\* waits for it, and only one text is: a message that was refused, a prompt the
\* program only seems to see or one an earlier program has read must not send
\* the user's text to the command interpreter.
TextOnlyAtPrompt ==
  \A i \in DOMAIN wire : Names(wire[i], SUB) =>
    /\ modem.text
    /\ fresh => i = 1
    /\ \A j \in DOMAIN wire : Names(wire[j], SUB) => j = i

\* Sending an SMS implements the abstract text entry, whatever programs are
\* killed or run after one another on the same modem (async_write_text).
textEntry ==
  IF \E i \in DOMAIN wire : Names(wire[i], SUB)
  THEN IF modem.text THEN "given" ELSE "astray"
  ELSE IF modem.text THEN "open" ELSE "closed"

Entry == INSTANCE TextEntry WITH entry <- textEntry

TextEntrySpec == Entry!Spec

\* The line a call takes for its configuration has a value behind its name, or
\* substr(7) would throw and back() write to an empty string
\* (do_make_vcall.cpp:113), whatever other messages, pieces of messages and old
\* bytes of the buffer the response object holds.
ConfigHasAValue ==
  [][step = "listen" /\ step' = "config" /\ op.st = "matched" => usb_cfg' # <<>>]_vars

\* The modem only has the audio on if it was told to allow it, or refused
\* something, or a read failed: only then does a call go on without a
\* configuration (do_make_vcall.cpp:127), also when other programs were killed
\* before it.
ConfiguredFirst == modem.pcm => modem.flag \/ modem.refused \/ faults > 0

\* "SMS received." is never printed for another message, for bytes that were
\* read before, or for what is left in the buffer behind a message.
OnlyRealSms ==
  [][subcommand = "rcv-sms" /\ step = "listen" /\ step' = "exit" /\ op.st = "matched" =>
       modem.sms]_vars

\* The configuration a call writes back is the one the modem has told, with
\* the flag on, if reads of the device do not cut its messages: a line that was
\* put together from old bytes of the buffer is not taken for it.
ConfigIsTheModems == whole /\ usb_cfg # <<>> => usb_cfg = <<"usb", "1">>

\* A call that has stopped listening has heard the configuration, unless its read
\* failed: it neither misses the answer to its question, which comes in one
\* message or two and in whatever pieces, nor takes another line for it, if the
\* modem says nothing unasked and no earlier use left a trace.
ConfigIsHeard ==
  urcs = 0 /\ ~modem.sms /\ fresh /\ stopped =>
    usb_cfg = <<"usb", "1">> \/ (usb_cfg = <<>> /\ faults > 0)

-----------------------------------------------------------------------------
\* A modem that prompts for a text gets it and leaves text entry, however the
\* bytes of the prompt trickle in and whatever became of the commands before,
\* if it says nothing unasked and the program is neither killed nor was started
\* on what another left behind.
PromptIsAnswered ==
  modem.text /\ urcs = 0 /\ fresh ~> ~modem.text \/ urcs > 0 \/ step = "open"

\* With a modem that answers, no read of these subcommands waits for ever:
\* unsolicited messages and the answers to an earlier program may be taken for
\* answers, and answers be thrown away with the buffer of execute, but something
\* is always there to be read.  Only a URC that execute cuts in two may block
\* send-sms, and a modem that an earlier program left in text entry, or the rest
\* of a message it has left on the line (Validation.md:7), may block all.
Terminates ==
  \A r \in 0 .. MaxRestarts :
    /\ restarts = r /\ step = "open" /\ (line = <<>> \/ Matched(line))
    /\ subcommand \in {"send-sms", "at_ok", "ati", "at+cops"}
    ~> \/ status # Running
       \/ subcommand = "send-sms" /\ urcs > 0 /\ ~whole
       \/ modem.text /\ ~fresh
       \/ restarts > r

\* "SMS reception means reacting to indications about received SMS the moment
\* the network sends such notification" (solution/README.md:89), also after a
\* RING, unless execute has cut that in two.  (Another program may take it.)
ReactsToSms ==
  modem.sms /\ restarts = 0 ~> status = 0 \/ (urcs > 0 /\ ~whole) \/ restarts > 0

\* When a call is reported as done, the modem is left, in the end, with the
\* audio off and no call, although answers and unsolicited messages may have
\* been taken for one another on the way, and although an earlier program may
\* have been killed with the audio on and a call up, if it refused none of the
\* commands and is not in text entry.
AudioIsOffAfterwards ==
  status = 0 /\ subcommand \in {"make-call", "rcv-call"} ~>
    \/ ~modem.pcm /\ (subcommand = "make-call" => ~modem.call) /\ wire = <<>>
    \/ modem.refused
    \/ step = "open"

-----------------------------------------------------------------------------
\* "Prompt '> ' not received" (do_send_sms.cpp:103), logged when send-sms ends
\* at this step: then the last message was no prompt.
NotReceivedIsTrue ==
  [][step = "prompt" /\ step' = "exit" /\ op.st = "matched" =>
       ~\E i \in DOMAIN msg'.body \ DOMAIN msg.body : msg'.body[i] = <<PROMPT>>]_vars

\* "Waiting for the call. Press Ctrl-C to terminate" (do_receive_vcall.cpp:206):
\* where the only unsolicited message is RING, the wait ends with one.
WaitsForTheCall == [][step = "wait" /\ step' = "audio off" => urcs > 0]_vars
=============================================================================
