-------------------------------- MODULE Modem --------------------------------
(***************************************************************************)
(* The modem, as the program uses it (external: what it answers is taken   *)
(* from what the code and the transcripts of Validation.md expect).  It    *)
(* takes what was written one piece at a time, answers it, and may send an *)
(* unsolicited message (URC) at any moment.  After AT+CMGS it prompts, and *)
(* takes all it is sent for the text of an SMS, until Ctrl-Z.              *)
(***************************************************************************)
EXTENDS AtGrammar, Requests

CONSTANTS
  Refuses,      \* it may answer a command with an error
  QcfgAnswers,  \* how it tells its USB configuration: "response", "urc" or both
  Urcs,         \* what it may send unasked
  MaxUrcs       \* bound: how often

ASSUME ModemAssumption ==
  /\ {"info", "+CMT:", "sms", "+CMGS:", "+QCFG:", "usb", "0", "1"} \subseteq Text
  /\ {SUB, "CMGS", "QPCMV", "I", "COPS"} \cap Text = {}
  /\ Refuses \in BOOLEAN
  /\ QcfgAnswers \subseteq {"response", "urc"}
  /\ Urcs \subseteq Seq(Char \ {PROMPT, "+CMT:"})
  /\ MaxUrcs \in Nat

VARIABLES
  line,    \* bytes on their way to the program
  wire,    \* what was written and the modem has not taken yet
  modem,   \* its state
  urcs     \* how many URCs it has sent

PowerUp == [text |-> FALSE,    \* it waits for the text of an SMS
            cmt  |-> FALSE,    \* it announces SMSs
            sms  |-> FALSE,    \* history: it has announced one
            flag |-> FALSE,    \* history: it was told to allow audio over USB
            pcm  |-> FALSE,    \* audio over USB is on
            call |-> FALSE,    \* a call was dialled and not hung up
            refused |-> FALSE] \* history: it has refused a command

Said(code)     == CRLF \o <<code>> \o CRLF
Line(text)     == CRLF \o text \o CRLF
Prompt         == CRLF \o <<PROMPT>>
Configuration  == <<"+QCFG:", "usb", "0">>
Cmt            == CRLF \o <<"+CMT:">> \o CRLF \o <<"sms">> \o CRLF

Query == ToString(make_at_qcfg_write(<<"USBCFG">>))

-----------------------------------------------------------------------------
\* What an accepted piece does to the modem, and the answers it may get.
Taken(w) ==
  IF modem.text THEN [modem EXCEPT !.text = ~Names(w, SUB)]
  ELSE [modem EXCEPT
          !.text = Names(w, "CMGS"),
          !.cmt  = @ \/ Names(w, "CNMI"),
          !.flag = @ \/ (Names(w, "QCFG") /\ Names(w, "1")),
          !.pcm  = IF Names(w, "QPCMV") THEN Names(w, "1,2") ELSE @,
          !.call = (@ \/ Names(w, "D")) /\ ~Names(w, "H")]

Answers(w) ==
  IF Names(w, SUB) THEN {IF modem.text THEN Line(<<"+CMGS:">>) \o Said("OK") ELSE <<>>}
  ELSE IF modem.text THEN {<<>>}
  ELSE IF Names(w, "CMGS") THEN {Prompt}
  ELSE IF w = Query
  THEN {Line(Configuration) \o Said("OK") : q \in QcfgAnswers \cap {"response"}}
         \cup {Said("OK") \o Line(Configuration) : q \in QcfgAnswers \cap {"urc"}}
  ELSE IF Names(w, "I") \/ Names(w, "COPS") THEN {Line(<<"info">>) \o Said("OK")}
  ELSE {Said("OK")}

ModemAccepts ==
  /\ wire # <<>>
  /\ \E a \in Answers(Head(wire)) : line' = line \o a
  /\ modem' = Taken(Head(wire))
  /\ wire' = Tail(wire)
  /\ UNCHANGED urcs

ModemRefuses ==
  /\ Refuses
  /\ wire # <<>>
  /\ ~modem.text
  /\ line' = line \o Said("ERROR")
  /\ modem' = [modem EXCEPT !.refused = TRUE]
  /\ wire' = Tail(wire)
  /\ UNCHANGED urcs

ModemNotifies ==
  /\ urcs < MaxUrcs
  /\ ~modem.text
  /\ \E u \in Urcs : line' = line \o u
  /\ urcs' = urcs + 1
  /\ UNCHANGED <<wire, modem>>
=============================================================================
