---------------------------- MODULE ProgramProofs ----------------------------
(***************************************************************************)
(* The program never sends the text of an SMS to a modem that does not     *)
(* wait for it: the invariant of SessionProofs holds of every subcommand,  *)
(* whatever the modem answers, refuses or says unasked, whatever fails,    *)
(* and whatever programs are killed or run after one another; and with it  *)
(* the program implements TextEntry.                                       *)
(***************************************************************************)
EXTENDS Program, SessionProofs

Inv == SessionInv /\ usb_cfg \in Seq(Char)

-----------------------------------------------------------------------------
\* A token alone is a sequence of tokens.
LEMMA Single ==
  ASSUME NEW S, NEW x \in S
  PROVE  <<x>> \in Seq(S)
OBVIOUS

\* The arguments the subcommands give to their requests.
LEMMA Arguments ==
  /\ {<<"1">>, <<"GSM">>, <<"1,2,0,0,0">>, <<"USBCFG">>, <<"1,2">>, <<"0">>, <<"{}">>} \subseteq Seq(Other)
  /\ Da \in Seq(Other) /\ SmsText \in Seq(Other)
  /\ Seq(Char) \subseteq Seq(Other)
<1>1. {"1", "GSM", "1,2,0,0,0", "USBCFG", "1,2", "0", "{}"} \subseteq Other /\ Char \subseteq Other
  BY DEF Other
<1>2. Text \subseteq Other
  BY <1>1, Tokens DEF Plain
<1>3. Seq(Char) \subseteq Seq(Other) /\ Seq(Text) \subseteq Seq(Other)
  BY <1>1, <1>2, SeqMonotonic
<1>4. \A x \in Other : <<x>> \in Seq(Other)
  BY Single
<1>5. {<<"1">>, <<"GSM">>, <<"1,2,0,0,0">>, <<"USBCFG">>, <<"1,2">>, <<"0">>, <<"{}">>} \subseteq Seq(Other)
  BY <1>1, <1>4
<1>6. Da \in Seq(Other) /\ SmsText \in Seq(Other)
  BY <1>3, ProgramAssumption
<1>. QED BY <1>3, <1>5, <1>6

\* The requests of the subcommands, all but the one that asks for a text.
LEMMA OtherCommands ==
  ASSUME NEW p \in Seq(Other)
  PROVE  /\ ToString(make_at) \in Seq(Other) /\ ToString(make_ati) \in Seq(Other)
         /\ ToString(make_ath) \in Seq(Other) /\ ToString(make_at_cops_read) \in Seq(Other)
         /\ ToString(make_atd(p)) \in Seq(Other) /\ ToString(make_at_cmgf_write(p)) \in Seq(Other)
         /\ ToString(make_at_cscs_write(p)) \in Seq(Other) /\ ToString(make_at_cnmi_write(p)) \in Seq(Other)
         /\ ToString(make_at_qcfg_write(p)) \in Seq(Other) /\ ToString(make_at_qpcmv_write(p)) \in Seq(Other)
<1>1. ASSUME NEW f, NEW c \in {<<>>, <<"I">>, <<"H">>, <<"D">>, <<"CMGF">>, <<"CSCS">>,
                               <<"CNMI">>, <<"QCFG">>, <<"QPCMV">>, <<"COPS">>},
             NEW a \in Seq(Other)
      PROVE  ToString(Request(f, c, a)) \in Seq(Other)
  <2>1. /\ {"I", "H", "D", "CMGF", "CSCS", "CNMI", "QCFG", "QPCMV", "COPS"} \subseteq Other
        /\ {"AT", "S", "=", "+", "=?", "?", "CR", "LF"} \subseteq Other
    BY DEF Other
  <2>2. c \in Seq(Other)
    <3>1. CASE c = <<>>
      BY <3>1, EmptySeq
    <3>2. CASE c # <<>>
      <4>1. PICK x \in Other : c = <<x>>
        BY <2>1, <3>2
      <4>. HIDE DEF Other
      <4>. QED BY <4>1, Single
    <3>. QED BY <3>1, <3>2
  <2>3. Request(f, c, a).command = c /\ Request(f, c, a).args = a
    BY DEF Request
  <2>. QED BY <2>1, <2>2, <2>3, RequestTokens
<1>2. <<>> \in Seq(Other)
  BY EmptySeq
<1>3. /\ ToString(make_at) \in Seq(Other) /\ ToString(make_ati) \in Seq(Other)
      /\ ToString(make_ath) \in Seq(Other) /\ ToString(make_at_cops_read) \in Seq(Other)
  BY <1>1, <1>2 DEF make_at, make_ati, make_ath, make_at_cops_read
<1>4. /\ ToString(make_atd(p)) \in Seq(Other) /\ ToString(make_at_cmgf_write(p)) \in Seq(Other)
      /\ ToString(make_at_cscs_write(p)) \in Seq(Other) /\ ToString(make_at_cnmi_write(p)) \in Seq(Other)
      /\ ToString(make_at_qcfg_write(p)) \in Seq(Other) /\ ToString(make_at_qpcmv_write(p)) \in Seq(Other)
  BY <1>1 DEF make_atd, make_at_cmgf_write, make_at_cscs_write, make_at_cnmi_write,
              make_at_qcfg_write, make_at_qpcmv_write
<1>. QED BY <1>3, <1>4

\* All of them name no Ctrl-Z.
LEMMA QuietCommands ==
  ASSUME NEW p \in Seq(Other)
  PROVE  /\ ToString(make_at) \in Seq(Quiet) /\ ToString(make_ati) \in Seq(Quiet)
         /\ ToString(make_ath) \in Seq(Quiet) /\ ToString(make_at_cops_read) \in Seq(Quiet)
         /\ ToString(make_atd(p)) \in Seq(Quiet) /\ ToString(make_at_cmgf_write(p)) \in Seq(Quiet)
         /\ ToString(make_at_cscs_write(p)) \in Seq(Quiet) /\ ToString(make_at_cnmi_write(p)) \in Seq(Quiet)
         /\ ToString(make_at_qcfg_write(p)) \in Seq(Quiet) /\ ToString(make_at_qpcmv_write(p)) \in Seq(Quiet)
         /\ ToString(make_at_cmgs_write(p)) \in Seq(Quiet)
<1>1. Other \subseteq Quiet /\ "CMGS" \in Quiet /\ {"AT", "S", "=", "+", "=?", "?", "CR", "LF"} \subseteq Quiet
  BY DEF Quiet, Other
<1>2. Seq(Other) \subseteq Seq(Quiet)
  BY <1>1, SeqMonotonic
<1>. HIDE DEF Quiet
<1>3. <<"CMGS">> \in Seq(Quiet) /\ p \in Seq(Quiet)
  BY <1>1, <1>2, Single
<1>4. make_at_cmgs_write(p).command = <<"CMGS">> /\ make_at_cmgs_write(p).args = p
  BY DEF make_at_cmgs_write, Request
<1>5. ToString(make_at_cmgs_write(p)) \in Seq(Quiet)
  BY <1>1, <1>3, <1>4, RequestTokens
<1>. QED BY <1>2, <1>5, OtherCommands

\* A command is written and its answer read by a chain of handlers.
LEMMA WritesKeeps ==
  ASSUME SessionInv, step # "exit", step' # "text", NEW w \in Seq(Quiet), Write(w), SearchOn(Fresh),
         UNCHANGED msg
  PROVE  SessionInv'
<1>1. sb' \in Buffers(Char) /\ sb' \in Buffers(Plain) /\ op' \in OpType
  BY Tokens, FreshProperties, SearchOnKeeps
<1>2. wire' = Append(wire, w) /\ UNCHANGED <<line, modem, msg>> /\ msg \in Response
  BY DEF Write, SessionInv, SessionType
<1>. QED BY <1>1, <1>2, QuietStepKeepsPrompt DEF Clean

\* A handler starts to read into a new buffer.
LEMMA StartsReadingKeeps ==
  ASSUME SessionInv, step = "listen", SearchOn(Fresh), UNCHANGED <<line, wire, modem, step, msg>>
  PROVE  SessionInv'
<1>1. sb' \in Buffers(Char) /\ sb' \in Buffers(Plain) /\ op' \in OpType
  BY Tokens, FreshProperties, SearchOnKeeps
<1>2. msg \in Response
  BY DEF SessionInv, SessionType
<1>. QED BY <1>1, <1>2, QuietStepKeepsPrompt DEF Clean

\* What the first line is found to start with is one of its tokens.
LEMMA FrontIn ==
  ASSUME NEW S, NEW m, m.body \in Seq(Seq(S)), NEW t, FrontIs(m, t)
  PROVE  t \in S
<1>. DEFINE T == Seq(S)
            b == m.body
<1>1. b \in Seq(T) /\ b # <<>> /\ b[1] # <<>> /\ b[1][1] = t
  BY DEF FrontIs
<1>. HIDE DEF T, b
<1>2. b[1] \in T
  BY <1>1, EmptySeq, LenProperties, ElementOfSeq
<1>3. b[1][1] \in S
  BY <1>1, <1>2, EmptySeq, LenProperties, ElementOfSeq DEF T
<1>. QED BY <1>1, <1>3

-----------------------------------------------------------------------------
\* send-sms.  Only a prompt makes it go on to the text ...
LEMMA PromptReadKeeps == SessionInv /\ PromptRead => SessionInv'
<1>. SUFFICES ASSUME SessionInv, PromptRead PROVE SessionInv'
  OBVIOUS
<1>1. /\ ReadEnds("prompt") /\ step # "exit" /\ UNCHANGED <<line, wire, modem>>
      /\ IF PromptReceived(msg') THEN op' = Idle /\ step' = "text" /\ UNCHANGED status ELSE Exit(0)
  BY DEF PromptRead, ReadEnds, device
<1>2. sb' \in Buffers(Char) /\ msg' \in Response /\ (Clean => Clean')
  BY <1>1, ReadEndsKeeps
<1>3. CASE PromptReceived(msg')
  <2>1. msg'.body \notin Seq(Seq(Plain))
    BY <1>3, FrontIn DEF PromptReceived, Plain
  <2>2. op' \in OpType /\ step' = "text"
    BY <1>1, <1>3 DEF Idle, OpType
  <2>. QED BY <1>1, <1>2, <2>1, <2>2, QuietStepKeepsPrompt
<1>4. CASE ~PromptReceived(msg')
  BY <1>1, <1>2, <1>4, ExitKeeps
<1>. QED BY <1>3, <1>4

\* ... which goes to a modem that waits for it.
LEMMA TextWrittenKeeps ==
  ASSUME SessionInv, TextWritten
  PROVE  SessionInv' /\ modem.text /\ ~Pending /\ modem'.text
<1>1. /\ step = "text" /\ step' = "exit" /\ op' = Idle /\ UNCHANGED <<line, modem, sb, msg>>
      /\ wire' = Append(wire, TextToString(SmsText))
  BY DEF TextWritten, Write, Exit
<1>2. SessionType /\ PromptInv
  BY DEF SessionInv
<1>3. Holds /\ modem.text /\ ~Pending /\ ~Names(line, PROMPT)
  BY <1>1, <1>2 DEF PromptInv, Holds, Clean
<1>. DEFINE S == Seq(Written)
            w == TextToString(SmsText)
<1>4. w \in S
  <2>1. SmsText \in Seq(Written) /\ <<SUB>> \in Seq(Written)
    <3>1. Other \subseteq Written /\ SUB \in Written
      BY DEF Written, Quiet
    <3>. HIDE DEF Written
    <3>. QED BY <3>1, Arguments, SeqMonotonic, Single
  <2>. QED BY <2>1, ConcatProperties DEF TextToString
<1>5. wire \in Seq(S)
  BY <1>2 DEF SessionType
<1>. HIDE DEF S, w
<1>6. /\ wire' \in Seq(S) /\ Len(wire') = Len(wire) + 1 /\ Len(wire) \in Nat
      /\ \A i \in 1 .. Len(wire) : wire'[i] = wire[i]
  BY <1>1, <1>4, <1>5, AppendProperties, LenProperties DEF w
<1>7. DOMAIN wire = 1 .. Len(wire) /\ DOMAIN wire' = 1 .. Len(wire) + 1
  BY <1>5, <1>6, LenProperties
<1>8. \A i \in DOMAIN wire' : Names(wire'[i], SUB) => i = Len(wire) + 1
  BY <1>3, <1>6, <1>7 DEF Pending
<1>9. SessionType'
  BY <1>1, <1>2, <1>6 DEF SessionType, S, Idle, OpType
<1>10. PromptInv'
  BY <1>1, <1>2, <1>3, <1>8 DEF PromptInv, Holds
<1>. QED BY <1>1, <1>3, <1>9, <1>10 DEF SessionInv

\* All that send-sms does.
LEMMA SendSmsKeeps == SessionInv /\ (SendSmsActs \/ SendSmsFails) => SessionInv'
<1>. SUFFICES ASSUME SessionInv, SendSmsActs \/ SendSmsFails PROVE SessionInv'
  OBVIOUS
<1>. USE QuietCommands, Arguments
<1>1. CASE SendSmsOpened
  BY <1>1, OpensKeeps DEF SendSmsOpened
<1>2. CASE SendSmsCmgfExecuted
  BY <1>2, ExecuteWritesKeeps, ExecuteReturnsKeeps DEF SendSmsCmgfExecuted
<1>3. CASE SendSmsCscsExecuted
  BY <1>3, ExecuteWritesKeeps, ExecuteReturnsKeeps DEF SendSmsCscsExecuted
<1>4. CASE CmgsWritten
  BY <1>4, WritesKeeps DEF CmgsWritten
<1>5. CASE PromptRead
  BY <1>5, PromptReadKeeps
<1>6. CASE TextWritten
  BY <1>6, TextWrittenKeeps
<1>7. CASE SendSmsFails
  BY <1>7, FailingKeeps DEF SendSmsFails, OpenFails, ExecuteFails, ChainFails
<1>. QED BY <1>1, <1>2, <1>3, <1>4, <1>5, <1>6, <1>7 DEF SendSmsActs

-----------------------------------------------------------------------------
\* All that rcv-sms does.
LEMMA ReceiveSmsKeeps == SessionInv /\ (ReceiveSmsActs \/ ReceiveSmsFails) => SessionInv'
<1>. SUFFICES ASSUME SessionInv, ReceiveSmsActs \/ ReceiveSmsFails PROVE SessionInv'
  OBVIOUS
<1>. USE QuietCommands, Arguments
<1>1. CASE ReceiveSmsOpened
  BY <1>1, OpensKeeps DEF ReceiveSmsOpened
<1>2. CASE ReceiveSmsCmgfExecuted
  BY <1>2, ExecuteWritesKeeps, ExecuteReturnsKeeps DEF ReceiveSmsCmgfExecuted
<1>3. CASE ReceiveSmsCscsExecuted
  BY <1>3, ExecuteWritesKeeps, ExecuteReturnsKeeps DEF ReceiveSmsCscsExecuted
<1>4. CASE CnmiExecuted
  BY <1>4, ExecuteWritesKeeps, ExecuteReturnsKeeps DEF CnmiExecuted
<1>5. CASE SmsListeningStarts
  BY <1>5, StartsReadingKeeps DEF SmsListeningStarts, device
<1>6. CASE NoSmsRead
  <2>1. ReadsAgain("listen") /\ UNCHANGED <<device, step>> /\ step = "listen"
    BY <1>6 DEF NoSmsRead, ReadsAgain
  <2>. QED BY <2>1, ReadsAgainKeeps
<1>7. CASE SmsRead
  <2>1. ReadEnds("listen") /\ Exit(0) /\ step # "exit" /\ UNCHANGED device
    BY <1>7 DEF SmsRead, ReadEnds
  <2>. QED BY <2>1, ReadEndsKeeps, ExitKeeps DEF device
<1>8. CASE ReceiveSmsFails
  BY <1>8, FailingKeeps DEF ReceiveSmsFails, OpenFails, ExecuteFails, SmsListeningFails
<1>. QED BY <1>1, <1>2, <1>3, <1>4, <1>5, <1>6, <1>7, <1>8 DEF ReceiveSmsActs

\* A second announced SMS would be no prompt either.
LEMMA SmsAnnouncedKeeps == SessionInv /\ SmsAnnounced => SessionInv'
<1>. SUFFICES ASSUME SessionInv, SmsAnnounced PROVE SessionInv'
  OBVIOUS
<1>1. /\ line' = line \o Cmt /\ modem' = [modem EXCEPT !.sms = TRUE]
      /\ UNCHANGED <<wire, program>> /\ modem \in ModemType
  BY DEF SmsAnnounced, SessionInv, SessionType
<1>2. Cmt \in Seq(Plain)
  <2>1. {CR, LF, "+CMT:", "sms"} \subseteq Plain
    BY Tokens, ModemAssumption
  <2>2. CRLF \in Seq(Plain) /\ <<"+CMT:">> \in Seq(Plain) /\ <<"sms">> \in Seq(Plain)
    BY <2>1 DEF CRLF
  <2>3. \A s, u \in Seq(Plain) : s \o u \in Seq(Plain)
    BY ConcatProperties
  <2>. QED BY <2>2, <2>3 DEF Cmt
<1>3. modem' \in ModemType /\ modem'.text = modem.text
  BY <1>1 DEF ModemType
<1>4. Pending' <=> Pending
  BY <1>1 DEF Pending
<1>. QED BY <1>1, <1>2, <1>3, <1>4, SpeechKeepsPrompt

-----------------------------------------------------------------------------
\* All that at_ok, ati and at+cops do.
LEMMA QueryKeeps ==
  ASSUME SessionInv, subcommand # "text", QueryActs \/ QueryFails
  PROVE  SessionInv'
<1>. USE QuietCommands, Arguments
<1>1. CASE QueryOpened
  BY <1>1, OpensKeeps DEF QueryOpened
<1>2. CASE AtOk
  BY <1>2, ExecuteWritesKeeps, ExecuteEndsKeeps DEF AtOk
<1>3. CASE Ati
  BY <1>3, ExecuteWritesKeeps, ExecuteEndsKeeps DEF Ati
<1>4. CASE CopsWritten
  BY <1>4, WritesKeeps DEF CopsWritten
<1>5. CASE CopsRead
  <2>1. /\ step # "exit" /\ Exit(0) /\ UNCHANGED <<line, wire, modem>> /\ Shows
        /\ sb' = Consume(Commit(sb, op.rb), op.rb)
    BY <1>5 DEF CopsRead, device
  <2>2. SessionType /\ sb \in Buffers(Char) /\ op.rb \in Nat
    BY DEF SessionInv, SessionType, OpType
  <2>3. sb' \in Buffers(Char) /\ msg' \in Response
    BY <2>1, <2>2, CommitProperties, ConsumeProperties, ShowsKeeps
  <2>. QED BY <2>1, <2>3, ExitKeeps
<1>6. CASE QueryFails
  BY <1>6, FailingKeeps DEF QueryFails, OpenFails, ExecuteFails, CopsFails
<1>. QED BY <1>1, <1>2, <1>3, <1>4, <1>5, <1>6 DEF QueryActs

-----------------------------------------------------------------------------
\* make-call and rcv-call.

\* What a call takes for its configuration is made of what the modem sent.
LEMMA QcfgReadKeeps ==
  ASSUME SessionInv, QcfgRead
  PROVE  SessionInv' /\ usb_cfg' \in Seq(Char)
<1>1. /\ ReadEnds("listen") /\ step # "exit" /\ step' = "config" /\ op' = Idle
      /\ UNCHANGED <<line, wire, modem>>
      /\ usb_cfg' = FlagOn(Tail(msg'.body[1])) /\ UrcReceived(msg')
  BY DEF QcfgRead, ReadEnds, device
<1>2. sb' \in Buffers(Char) /\ msg' \in Response /\ (Clean => Clean')
  BY <1>1, ReadEndsKeeps
<1>3. op' \in OpType
  BY <1>1 DEF Idle, OpType
<1>4. SessionInv'
  BY <1>1, <1>2, <1>3, QuietStepKeepsPrompt
<1>. DEFINE S == Seq(Char)
            b == msg'.body
<1>5. b \in Seq(S) /\ b # <<>> /\ b[1] # <<>>
  BY <1>1, <1>2 DEF UrcReceived, FrontIs, Response
<1>. HIDE DEF b, S
<1>6. b[1] \in S
  BY <1>5, EmptySeq, LenProperties, ElementOfSeq
<1>. DEFINE cfg == Tail(b[1])
<1>7. cfg \in Seq(Char)
  BY <1>5, <1>6, HeadTailProperties DEF S
<1>8. "1" \in Char
  BY ModemAssumption DEF Char
<1>. HIDE DEF cfg
<1>9. FlagOn(cfg) \in Seq(Char)
  <2>1. cfg \in [1 .. Len(cfg) -> Char] /\ Len(cfg) \in Nat
    BY <1>7, LenProperties
  <2>. HIDE DEF Char
  <2>2. FlagOn(cfg) \in [1 .. Len(cfg) -> Char]
    BY <1>8, <2>1 DEF FlagOn
  <2>. QED BY <2>1, <2>2, FunctionIsSeq
<1>. QED BY <1>1, <1>4, <1>9 DEF cfg, b

\* The read that is never completed takes bytes from the line all the same, and
\* there is nothing in the buffer but them.
LEMMA CallAwaitedTakes ==
  ASSUME SessionInv, CallAwaited
  PROVE  \E n \in 0 .. Len(line) :
           /\ line' = SubSeq(line, n + 1, Len(line))
           /\ \A S : Zero \in S /\ SubSeq(line, 1, n) \in Seq(S) => sb' \in Buffers(S)
<1>. DEFINE N == Len(line)
            R == ReadSize(Fresh)
<1>1. line \in Seq(Char)
  BY DEF SessionInv, SessionType
<1>2. \E n \in 0 .. Least(R, N) : /\ sb' = Fill(Prepared(Fresh), 0, SubSeq(line, 1, n))
                                 /\ line' = SubSeq(line, n + 1, N)
  BY DEF CallAwaited
<1>3. N \in Nat
  BY <1>1, LenProperties
<1>. HIDE DEF N
<1>4. R \in Nat
  BY WindowAssumption DEF ReadSize, Fresh, Size, Greatest
<1>. HIDE DEF R
<1>5. PICK n \in 0 .. N : /\ sb' = Fill(Prepared(Fresh), 0, SubSeq(line, 1, n))
                         /\ line' = SubSeq(line, n + 1, N)
  <2>1. \A n \in 0 .. Least(R, N) : n \in 0 .. N
    BY <1>3, <1>4 DEF Least
  <2>. QED BY <1>2, <2>1
<1>. DEFINE cs == SubSeq(line, 1, n)
<1>6. n \in Nat
  OBVIOUS
<1>7. ASSUME NEW S, Zero \in S, cs \in Seq(S) PROVE sb' \in Buffers(S)
  <2>1. Prepared(Fresh) \in Buffers(S)
    BY <1>4, <1>7, FreshProperties, PrepareProperties DEF Prepared, R
  <2>. HIDE DEF cs
  <2>2. Fill(Prepared(Fresh), 0, cs) \in Buffers(S)
    BY <1>6, <1>7, <2>1, FillCommitType
  <2>. QED BY <1>5, <2>2 DEF cs
<1>. QED BY <1>5, <1>7 DEF N

\* It is a step that keeps the prompt where it is.
LEMMA CallAwaitedKeeps ==
  ASSUME SessionInv, CallAwaited
  PROVE  SessionInv'
<1>1. /\ step # "exit" /\ step' = "audio off" /\ UNCHANGED <<wire, modem, op, msg>>
      /\ SessionType /\ line \in Seq(Char)
  BY DEF CallAwaited, SessionInv, SessionType
<1>2. PICK n \in 0 .. Len(line) :
        /\ line' = SubSeq(line, n + 1, Len(line))
        /\ \A S : Zero \in S /\ SubSeq(line, 1, n) \in Seq(S) => sb' \in Buffers(S)
  BY CallAwaitedTakes
<1>. DEFINE cs == SubSeq(line, 1, n)
<1>3. cs \in Seq(Char) /\ line' \in Seq(Char)
  BY <1>1, <1>2, Cut
<1>4. ~Names(cs, PROMPT) => cs \in Seq(Plain)
  BY <1>3, WithoutPrompt
<1>. HIDE DEF cs
<1>5. sb' \in Buffers(Char) /\ (~Names(cs, PROMPT) => sb' \in Buffers(Plain))
  BY <1>2, <1>3, <1>4, Tokens DEF cs
<1>6. SessionType'
  BY <1>1, <1>3, <1>5 DEF SessionType
<1>7. Clean => Clean' \/ Names(SubSeq(line, 1, n), PROMPT)
  BY <1>1, <1>5 DEF Clean, cs
<1>. QED BY <1>1, <1>2, <1>6, <1>7, StepKeepsPrompt

\* All that the two calls do; a failed read leaves them without a configuration.
LEMMA VoiceCallKeeps == Inv /\ (VoiceCallActs \/ VoiceCallFails) => Inv'
<1>. SUFFICES ASSUME SessionInv, usb_cfg \in Seq(Char), VoiceCallActs \/ VoiceCallFails
              PROVE  SessionInv' /\ usb_cfg' \in Seq(Char)
  BY DEF Inv
<1>. USE QuietCommands, Arguments
<1>1. CASE VoiceCallOpened
  BY <1>1, OpensKeeps DEF VoiceCallOpened
<1>2. CASE QueryExecuted
  BY <1>2, ExecuteWritesKeeps, ExecuteReturnsKeeps DEF QueryExecuted
<1>3. CASE QcfgListeningStarts
  BY <1>3, StartsReadingKeeps DEF QcfgListeningStarts, device
<1>4. CASE NoQcfgRead
  <2>1. ReadsAgain("listen") /\ UNCHANGED <<device, step, usb_cfg>> /\ step = "listen"
    BY <1>4 DEF NoQcfgRead, ReadsAgain
  <2>. QED BY <2>1, ReadsAgainKeeps
<1>5. CASE QcfgRead
  BY <1>5, QcfgReadKeeps
<1>6. CASE ConfigExecuted
  BY <1>6, ExecuteWritesKeeps, ExecuteReturnsKeeps DEF ConfigExecuted
<1>7. CASE AudioOnExecuted
  BY <1>7, ExecuteWritesKeeps, ExecuteReturnsKeeps DEF AudioOnExecuted
<1>8. CASE VoiceCallCscsExecuted
  <2>1. (IF subcommand = "rcv-call" THEN "wait" ELSE "dial") # "text"
    OBVIOUS
  <2>. QED BY <1>8, <2>1, ExecuteWritesKeeps, ExecuteReturnsKeeps DEF VoiceCallCscsExecuted
<1>9. CASE DialExecuted
  BY <1>9, ExecuteWritesKeeps, ExecuteReturnsKeeps DEF DialExecuted
<1>10. CASE HangUpExecuted
  BY <1>10, ExecuteWritesKeeps, ExecuteReturnsKeeps DEF HangUpExecuted
<1>11. CASE CallAwaited
  <2>1. UNCHANGED usb_cfg
    BY <1>11 DEF CallAwaited
  <2>. QED BY <1>11, <2>1, CallAwaitedKeeps
<1>12. CASE AudioOffExecuted
  BY <1>12, ExecuteWritesKeeps, ExecuteEndsKeeps DEF AudioOffExecuted
<1>13. CASE QcfgListeningFails
  <2>1. /\ UNCHANGED <<line, wire, modem, sb, msg, usb_cfg>> /\ step = "listen" /\ step' = "config"
        /\ op' = Idle
    BY <1>13 DEF QcfgListeningFails, device
  <2>2. op' \in OpType /\ sb \in Buffers(Char) /\ msg \in Response
    BY <2>1 DEF Idle, OpType, SessionInv, SessionType
  <2>3. Clean => Clean'
    BY <2>1 DEF Clean
  <2>. QED BY <2>1, <2>2, <2>3, QuietStepKeepsPrompt
<1>14. CASE OpenFails /\ UNCHANGED usb_cfg
  BY <1>14, FailingKeeps DEF OpenFails
<1>15. CASE (\E at \in Commands : ExecuteFails(at)) /\ UNCHANGED usb_cfg
  BY <1>15, FailingKeeps DEF ExecuteFails, Commands
<1>. QED BY <1>1, <1>2, <1>3, <1>4, <1>5, <1>6, <1>7, <1>8, <1>9, <1>10, <1>11, <1>12, <1>13, <1>14, <1>15
         DEF VoiceCallActs, VoiceCallFails

-----------------------------------------------------------------------------
\* The program as a whole.

\* No text is asked for and none is on its way when the modem is switched on.
LEMMA InitInv == Init => Inv
<1>. SUFFICES ASSUME Init PROVE Inv
  OBVIOUS
<1>1. /\ step = "open" /\ sb = Fresh /\ op = Idle /\ msg = NoMessage /\ usb_cfg = <<>>
      /\ line = <<>> /\ wire = <<>> /\ modem = PowerUp
  BY DEF Init, Started
<1>2. /\ Fresh \in Buffers(Char) /\ Fresh \in Buffers(Plain) /\ Idle \in OpType
      /\ NoMessage \in Response /\ NoMessage.body \in Seq(Seq(Plain)) /\ PowerUp \in ModemType
  BY FreshProperties DEF NoMessage, Response, Idle, OpType, PowerUp, ModemType
<1>3. \A S : <<>> \in Seq(S) /\ DOMAIN <<>> = {}
  BY EmptySeq
<1>4. SessionType
  BY <1>1, <1>2, <1>3 DEF SessionType
<1>5. ~Holds /\ ~Pending /\ ~Names(line, PROMPT)
  BY <1>1, <1>2, <1>3 DEF Holds, Clean, Pending, Names
<1>6. PromptInv
  BY <1>1, <1>3, <1>5 DEF PromptInv
<1>. QED BY <1>1, <1>3, <1>4, <1>6 DEF Inv, SessionInv

\* What the thread of the program does, and what fails of it.
LEMMA RunsKeeps == Inv /\ (Runs \/ Fails) => Inv'
<1>. SUFFICES ASSUME Inv, Runs \/ Fails PROVE Inv'
  OBVIOUS
<1>0. SessionInv /\ usb_cfg \in Seq(Char)
  BY DEF Inv
<1>1. CASE (SendSmsActs \/ SendSmsFails) /\ UNCHANGED calls
  BY <1>0, <1>1, SendSmsKeeps DEF Inv, calls
<1>2. CASE (ReceiveSmsActs \/ ReceiveSmsFails) /\ UNCHANGED calls
  BY <1>0, <1>2, ReceiveSmsKeeps DEF Inv, calls
<1>3. CASE VoiceCallActs \/ VoiceCallFails
  BY <1>3, VoiceCallKeeps
<1>4. CASE subcommand \in {"at_ok", "ati", "at+cops"} /\ (QueryActs \/ QueryFails) /\ UNCHANGED calls
  <2>1. subcommand # "text"
    BY <1>4
  <2>. QED BY <1>0, <1>4, <2>1, QueryKeeps DEF Inv, calls
<1>. QED BY <1>1, <1>2, <1>3, <1>4 DEF Runs, Fails

\* One step of the program, of the device or of the modem.
LEMMA NextInv == Inv /\ [Next]_vars => Inv'
<1>. SUFFICES ASSUME Inv, [Next]_vars PROVE Inv'
  OBVIOUS
<1>0. SessionInv /\ usb_cfg \in Seq(Char)
  BY DEF Inv
<1>1. CASE Runs \/ Fails
  BY <1>1, RunsKeeps
<1>2. CASE Receives
  <2>1. PICK n \in 1 .. Len(line) : Arrive(n)
    BY <1>2 DEF Receives
  <2>2. step # "exit" /\ UNCHANGED usb_cfg
    BY <1>2 DEF Receives, calls
  <2>. QED BY <1>0, <2>1, <2>2, ArriveKeeps DEF Inv
<1>3. CASE ModemAnswers \/ ModemSpeaksUp
  <2>1. ModemActs /\ UNCHANGED usb_cfg
    BY <1>3 DEF ModemAnswers, ModemSpeaksUp, calls
  <2>. QED BY <1>0, <2>1, ModemKeepsPrompt DEF Inv
<1>4. CASE SmsArrives
  BY <1>0, <1>4, SmsAnnouncedKeeps DEF Inv, SmsArrives, calls
<1>5. CASE StartsAgain
  <2>1. StartsOver /\ usb_cfg' = <<>>
    BY <1>5 DEF StartsAgain
  <2>2. usb_cfg' \in Seq(Char)
    BY <2>1, EmptySeq
  <2>. QED BY <1>0, <2>1, <2>2, StartsOverKeeps DEF Inv
<1>6. CASE UNCHANGED vars
  <2>1. UNCHANGED <<line, wire, modem, step, sb, op, msg, usb_cfg>>
    BY <1>6 DEF vars, device, program, calls
  <2>. QED BY <1>0, <2>1 DEF Inv, SessionInv, SessionType, PromptInv, Pending, Holds, Clean
<1>. QED BY <1>1, <1>2, <1>3, <1>4, <1>5, <1>6 DEF Next

\* One prompt at most is on its way or held by the program, and then the modem
\* waits for a text and none is on its way.
THEOREM PromptsAreKept == Spec => []Inv
<1>1. Init => Inv
  BY InitInv
<1>2. Inv /\ [Next]_vars => Inv'
  BY NextInv
<1>. QED BY <1>1, <1>2, PTL DEF Spec

\* The exit status is that of a subcommand, and so is the state of the io_service.
Ends == status \in {Running, 0, -1} /\ stopped \in BOOLEAN

\* Every step keeps them so.
LEMMA ProgramEnds == Ends /\ [Next]_vars => Ends'
<1>. SUFFICES ASSUME Ends, [Next]_vars PROVE Ends'
  OBVIOUS
<1>0. status \in {Running, 0, -1} /\ stopped \in BOOLEAN
  BY DEF Ends
<1>1. CASE UNCHANGED <<status, stopped>>
  BY <1>0, <1>1 DEF Ends
<1>2. ASSUME NEW code \in {0, -1}, Exit(code), UNCHANGED stopped PROVE Ends'
  BY <1>0, <1>2 DEF Exit, Ends
<1>3. CASE Runs
  <2>1. CASE SendSmsActs /\ UNCHANGED calls
    <3>1. UNCHANGED <<status, stopped>> \/ (Exit(0) /\ UNCHANGED stopped)
      BY <2>1 DEF SendSmsActs, SendSmsOpened, SendSmsCmgfExecuted, SendSmsCscsExecuted, CmgsWritten, PromptRead,
                  TextWritten, Opens, ExecuteWrites, ExecuteReturns, calls
    <3>. QED BY <1>1, <1>2, <3>1
  <2>2. CASE ReceiveSmsActs /\ UNCHANGED calls
    <3>1. UNCHANGED <<status, stopped>> \/ (Exit(0) /\ UNCHANGED stopped)
      BY <2>2 DEF ReceiveSmsActs, ReceiveSmsOpened, ReceiveSmsCmgfExecuted, ReceiveSmsCscsExecuted, CnmiExecuted,
                  SmsListeningStarts, NoSmsRead, SmsRead, Opens, ExecuteWrites, ExecuteReturns, calls
    <3>. QED BY <1>1, <1>2, <3>1
  <2>3. CASE VoiceCallActs
    <3>1. UNCHANGED <<status, stopped>> \/ (Exit(0) /\ UNCHANGED stopped) \/ (UNCHANGED status /\ stopped' = TRUE)
      BY <2>3 DEF VoiceCallActs, VoiceCallOpened, QueryExecuted, QcfgListeningStarts, NoQcfgRead, QcfgRead,
                  ConfigExecuted, AudioOnExecuted, VoiceCallCscsExecuted, DialExecuted, HangUpExecuted,
                  CallAwaited, AudioOffExecuted, Opens, ExecuteWrites, ExecuteReturns, ExecuteEnds
    <3>. QED BY <1>0, <1>1, <1>2, <3>1 DEF Ends
  <2>4. CASE QueryActs /\ UNCHANGED calls
    <3>1. UNCHANGED <<status, stopped>> \/ (Exit(0) /\ UNCHANGED stopped)
      BY <2>4 DEF QueryActs, QueryOpened, AtOk, Ati, CopsWritten, CopsRead, Opens, ExecuteWrites, ExecuteEnds, calls
    <3>. QED BY <1>1, <1>2, <3>1
  <2>. QED BY <1>3, <2>1, <2>2, <2>3, <2>4 DEF Runs
<1>4. CASE Fails
  <2>1. \/ (Exit(0) \/ Exit(-1)) /\ UNCHANGED stopped
        \/ UNCHANGED status /\ stopped' = TRUE
    BY <1>4 DEF Fails, SendSmsFails, ReceiveSmsFails, VoiceCallFails, QueryFails, OpenFails, ExecuteFails,
                ChainFails, SmsListeningFails, QcfgListeningFails, CopsFails, calls
  <2>. QED BY <1>0, <1>2, <2>1 DEF Ends
<1>5. CASE Receives
  BY <1>1, <1>5 DEF Receives, Arrive, calls
<1>6. CASE ModemAnswers \/ ModemSpeaksUp \/ SmsArrives
  BY <1>1, <1>6 DEF ModemAnswers, ModemSpeaksUp, ModemActs, SmsArrives, SmsAnnounced, program, calls
<1>7. CASE StartsAgain
  BY <1>7 DEF StartsAgain, StartsOver, Ends
<1>8. CASE UNCHANGED vars
  BY <1>1, <1>8 DEF vars, program, calls
<1>. QED BY <1>3, <1>4, <1>5, <1>6, <1>7, <1>8 DEF Next

\* Every variable of the program has its type, over all its subcommands.
THEOREM TypeCorrect == Spec => []TypeOK
<1>1. Init => Ends
  BY DEF Init, Started, Ends
<1>2. Inv /\ Ends => TypeOK
  BY DEF Inv, SessionInv, SessionType, Ends, TypeOK, SessionTypeOK, OpType
<1>. QED BY <1>1, <1>2, ProgramEnds, PromptsAreKept, PTL DEF Spec

-----------------------------------------------------------------------------
\* What a step of the program writes: nothing, a command that asks for no text,
\* AT+CMGS, or the text.  It neither takes from the wire nor touches the modem.
LEMMA ProgramWrites ==
  ASSUME Inv, Runs \/ Fails \/ Receives
  PROVE  /\ modem' = modem
         /\ step # "exit"
         /\ \/ /\ wire' = wire
               /\ step \in {"prompt", "text"} => step' \in {"prompt", "text", "exit"}
            \/ /\ step \notin {"prompt", "text"}
               /\ \E w \in Seq(Other) : wire' = Append(wire, w)
            \/ CmgsWritten
            \/ TextWritten
<1>. DEFINE Writes ==
       /\ modem' = modem
       /\ step # "exit"
       /\ \/ /\ wire' = wire
             /\ step \in {"prompt", "text"} => step' \in {"prompt", "text", "exit"}
          \/ /\ step \notin {"prompt", "text"}
             /\ \E w \in Seq(Other) : wire' = Append(wire, w)
          \/ CmgsWritten
          \/ TextWritten
<1>. USE OtherCommands, Arguments
<1>0. usb_cfg \in Seq(Other)
  BY DEF Inv
<1>1. ASSUME NEW next, step = "open", Opens(next) PROVE Writes
  BY <1>1 DEF Opens
<1>2. ASSUME NEW at, at \notin {"prompt", "text", "exit"}, NEW r, ToString(r) \in Seq(Other), ExecuteWrites(at, r)
      PROVE  Writes
  BY <1>2 DEF ExecuteWrites, Write
<1>3. ASSUME NEW at, at \notin {"prompt", "text", "exit"}, NEW next, ExecuteReturns(at, next) \/ ExecuteEnds(at)
      PROVE  Writes
  BY <1>3 DEF ExecuteReturns, ExecuteEnds, device
<1>. DEFINE Looks == step \notin {"prompt", "text", "exit"} /\ UNCHANGED <<wire, modem>>
<1>4. Looks => Writes
  OBVIOUS
<1>5. ASSUME step # "exit", step' = "exit", UNCHANGED <<wire, modem>> PROVE Writes
  BY <1>5
<1>6. CASE SendSmsActs
  <2>1. CASE SendSmsOpened
    BY <1>1, <2>1 DEF SendSmsOpened, Opens
  <2>2. CASE SendSmsCmgfExecuted
    BY <1>2, <1>3, <2>2 DEF SendSmsCmgfExecuted
  <2>3. CASE SendSmsCscsExecuted
    BY <1>2, <1>3, <2>3 DEF SendSmsCscsExecuted
  <2>4. CASE CmgsWritten
    BY <2>4 DEF CmgsWritten, Write
  <2>5. CASE PromptRead
    BY <2>5 DEF PromptRead, ReadEnds, Exit, device
  <2>6. CASE TextWritten
    BY <2>6 DEF TextWritten, Write
  <2>. QED BY <1>6, <2>1, <2>2, <2>3, <2>4, <2>5, <2>6 DEF SendSmsActs
<1>7. CASE ReceiveSmsActs
  <2>1. CASE ReceiveSmsOpened
    BY <1>1, <2>1 DEF ReceiveSmsOpened, Opens
  <2>2. CASE ReceiveSmsCmgfExecuted
    BY <1>2, <1>3, <2>2 DEF ReceiveSmsCmgfExecuted
  <2>3. CASE ReceiveSmsCscsExecuted
    BY <1>2, <1>3, <2>3 DEF ReceiveSmsCscsExecuted
  <2>4. CASE CnmiExecuted
    BY <1>2, <1>3, <2>4 DEF CnmiExecuted
  <2>5. CASE SmsListeningStarts \/ NoSmsRead \/ SmsRead
    <3>1. Looks
      BY <2>5 DEF SmsListeningStarts, NoSmsRead, SmsRead, ReadsAgain, ReadEnds, device
    <3>. QED BY <1>4, <3>1
  <2>. QED BY <1>7, <2>1, <2>2, <2>3, <2>4, <2>5 DEF ReceiveSmsActs
<1>8. CASE VoiceCallActs
  <2>1. CASE VoiceCallOpened
    BY <1>1, <2>1 DEF VoiceCallOpened, Opens
  <2>2. CASE QueryExecuted
    BY <1>2, <1>3, <2>2 DEF QueryExecuted
  <2>3. CASE QcfgListeningStarts \/ NoQcfgRead \/ QcfgRead \/ CallAwaited
    <3>1. Looks
      BY <2>3 DEF QcfgListeningStarts, NoQcfgRead, QcfgRead, CallAwaited, ReadsAgain, ReadEnds, device
    <3>. QED BY <1>4, <3>1
  <2>4. CASE ConfigExecuted
    BY <1>0, <1>2, <1>3, <2>4 DEF ConfigExecuted
  <2>5. CASE AudioOnExecuted
    BY <1>2, <1>3, <2>5 DEF AudioOnExecuted
  <2>6. CASE VoiceCallCscsExecuted
    BY <1>2, <1>3, <2>6 DEF VoiceCallCscsExecuted
  <2>7. CASE DialExecuted
    BY <1>2, <1>3, <2>7 DEF DialExecuted
  <2>8. CASE HangUpExecuted
    BY <1>2, <1>3, <2>8 DEF HangUpExecuted
  <2>9. CASE AudioOffExecuted
    BY <1>2, <1>3, <2>9 DEF AudioOffExecuted
  <2>. QED BY <1>8, <2>1, <2>2, <2>3, <2>4, <2>5, <2>6, <2>7, <2>8, <2>9 DEF VoiceCallActs
<1>9. CASE QueryActs
  <2>1. CASE QueryOpened
    BY <1>1, <2>1 DEF QueryOpened, Opens
  <2>2. CASE AtOk
    BY <1>2, <1>3, <2>2 DEF AtOk
  <2>3. CASE Ati
    BY <1>2, <1>3, <2>3 DEF Ati
  <2>4. CASE CopsWritten
    BY <2>4 DEF CopsWritten, Write
  <2>5. CASE CopsRead
    BY <1>5, <2>5 DEF CopsRead, Exit, device
  <2>. QED BY <1>9, <2>1, <2>2, <2>3, <2>4, <2>5 DEF QueryActs
<1>10. CASE Fails
  <2>1. CASE QcfgListeningFails
    BY <1>4, <2>1 DEF QcfgListeningFails, device
  <2>2. CASE ~QcfgListeningFails
    BY <1>5, <1>10, <2>2 DEF Fails, SendSmsFails, ReceiveSmsFails, VoiceCallFails, QueryFails, OpenFails,
                ExecuteFails, Commands, ChainFails, SmsListeningFails, CopsFails, Exit, device
  <2>. QED BY <2>1, <2>2
<1>11. CASE Receives
  BY <1>11 DEF Receives, Arrive
<1>. QED BY <1>6, <1>7, <1>8, <1>9, <1>10, <1>11 DEF Runs

\* A piece that is written comes last on the wire.
LEMMA WireAppend ==
  ASSUME Inv, NEW w, wire' = Append(wire, w)
  PROVE  /\ Len(wire) \in Nat /\ DOMAIN wire = 1 .. Len(wire)
         /\ Len(wire') = Len(wire) + 1 /\ DOMAIN wire' = 1 .. Len(wire) + 1
         /\ \A i \in DOMAIN wire : wire'[i] = wire[i] /\ i \in DOMAIN wire'
         /\ wire'[Len(wire) + 1] = w
         /\ Pending => Pending'
<1>. DEFINE S == Seq(Written) \cup {w}
<1>1. wire \in Seq(S) /\ w \in S
  BY SeqMonotonic DEF Inv, SessionInv, SessionType
<1>. HIDE DEF S
<1>2. /\ wire' \in Seq(S) /\ Len(wire') = Len(wire) + 1 /\ Len(wire) \in Nat
      /\ \A i \in 1 .. Len(wire) : wire'[i] = wire[i]
      /\ wire'[Len(wire) + 1] = w
  BY <1>1, AppendProperties, LenProperties
<1>3. DOMAIN wire = 1 .. Len(wire) /\ DOMAIN wire' = 1 .. Len(wire) + 1
  BY <1>1, <1>2, LenProperties
<1>4. \A i \in 1 .. Len(wire) : i \in 1 .. Len(wire) + 1
  BY <1>2
<1>5. Pending => Pending'
  BY <1>2, <1>3, <1>4 DEF Pending
<1>. QED BY <1>2, <1>3, <1>4, <1>5

\* The program, as opposed to the modem, never changes what the modem waits for,
\* and takes no text from the wire.
LEMMA ProgramEntry ==
  ASSUME Inv, Runs \/ Fails \/ Receives \/ SmsArrives \/ StartsAgain
  PROVE  modem'.text = modem.text /\ (Pending => Pending')
<1>1. CASE Runs \/ Fails \/ Receives
  <2>1. modem' = modem /\ (wire' = wire \/ \E w : wire' = Append(wire, w))
    BY <1>1, ProgramWrites DEF CmgsWritten, TextWritten, Write
  <2>. QED BY <2>1, WireAppend DEF Pending
<1>2. CASE SmsArrives
  BY <1>2 DEF SmsArrives, SmsAnnounced, Pending, Inv, SessionInv, SessionType, ModemType
<1>3. CASE StartsAgain
  BY <1>3 DEF StartsAgain, StartsOver, device, Pending
<1>. QED BY <1>1, <1>2, <1>3

\* A text is only given to a modem that has asked for one, and once for each time
\* it has asked, whatever programs are killed or run after one another
\* (async_write_text, do_send_sms.cpp).
THEOREM ImplementsTextEntry == Spec => TextEntrySpec
<1>. DEFINE closed == ~Pending /\ ~modem.text
            open   == ~Pending /\ modem.text
            given  == Pending /\ modem.text
<1>1. Init => Entry!Init
  <2>. SUFFICES ASSUME Init PROVE textEntry = "closed"
    BY DEF Entry!Init
  <2>1. wire = <<>> /\ ~modem.text
    BY DEF Init, PowerUp
  <2>. QED BY <2>1 DEF textEntry
<1>2. Inv /\ Inv' /\ [Next]_vars =>
        \/ modem'.text = modem.text /\ (Pending' <=> Pending)
        \/ closed /\ open'
        \/ open /\ given'
        \/ given /\ closed'
  <2>. SUFFICES ASSUME Inv, Inv', [Next]_vars
                PROVE  \/ modem'.text = modem.text /\ (Pending' <=> Pending)
                       \/ closed /\ open'
                       \/ open /\ given'
                       \/ given /\ closed'
    OBVIOUS
  <2>1. /\ SessionInv /\ (Pending => modem.text) /\ (Pending' => modem'.text)
        /\ modem.text \in BOOLEAN /\ modem'.text \in BOOLEAN
    BY DEF Inv, SessionInv, SessionType, ModemType, PromptInv
  <2>2. CASE Runs \/ Fails \/ Receives \/ SmsArrives \/ StartsAgain
    BY <2>1, <2>2, ProgramEntry
  <2>3. CASE ModemAnswers \/ ModemSpeaksUp
    <3>1. ModemActs
      BY <2>3 DEF ModemAnswers, ModemSpeaksUp
    <3>. QED BY <2>1, <3>1, ModemEntry
  <2>4. CASE UNCHANGED vars
    BY <2>4 DEF vars, device, Pending
  <2>. QED BY <2>2, <2>3, <2>4 DEF Next
<1>3. Inv /\ Inv' /\ [Next]_vars => [Entry!Next]_textEntry
  <2>. SUFFICES ASSUME Inv, Inv', [Next]_vars PROVE [Entry!Next]_textEntry
    OBVIOUS
  <2>1. CASE modem'.text = modem.text /\ (Pending' <=> Pending)
    <3>1. textEntry' = textEntry
      BY <2>1 DEF textEntry, Pending
    <3>. QED BY <3>1
  <2>2. CASE closed /\ open'
    <3>1. textEntry = "closed" /\ textEntry' = "open"
      BY <2>2 DEF textEntry, Pending
    <3>. QED BY <3>1 DEF Entry!Next, Entry!Prompts
  <2>3. CASE open /\ given'
    <3>1. textEntry = "open" /\ textEntry' = "given"
      BY <2>3 DEF textEntry, Pending
    <3>. QED BY <3>1 DEF Entry!Next, Entry!Gives
  <2>4. CASE given /\ closed'
    <3>1. textEntry = "given" /\ textEntry' = "closed"
      BY <2>4 DEF textEntry, Pending
    <3>. QED BY <3>1 DEF Entry!Next, Entry!Takes
  <2>. QED BY <1>2, <2>1, <2>2, <2>3, <2>4
<1>. QED BY <1>1, <1>3, PromptsAreKept, PTL DEF Spec, TextEntrySpec, Entry!Spec

-----------------------------------------------------------------------------
\* On a modem that was found without a trace of an earlier use, the text is also
\* the only thing on its way: the commands before it were taken when the prompt
\* was sent, and nothing follows AT+CMGS but the text.

\* A text is asked for by what is on its way.
Asked == \E i \in DOMAIN wire : Names(wire[i], "CMGS")

FreshInv ==
  fresh =>
    /\ modem.text \/ Asked => step \in {"prompt", "text", "exit"}
    /\ Asked => ~modem.text /\ step # "text"
    /\ \A i \in DOMAIN wire : Names(wire[i], "CMGS") => i = Len(wire)
    /\ modem.text => wire = <<>> \/ (Len(wire) = 1 /\ Pending /\ step = "exit")

\* What the program does.
LEMMA ProgramKeepsFresh ==
  ASSUME Inv, Inv', FreshInv, Runs \/ Fails \/ Receives
  PROVE  FreshInv'
<1>0. /\ modem' = modem /\ step # "exit" /\ SessionInv /\ SessionInv'
      /\ (step = "text" => modem.text /\ ~Pending)
      /\ (step' = "text" => modem'.text)
  BY ProgramWrites DEF Inv, SessionInv, PromptInv, Holds, Clean
<1>1. CASE Runs /\ step = "open"
  <2>1. wire' = wire
    <3>1. ~CmgsWritten /\ ~TextWritten
      BY <1>1 DEF CmgsWritten, TextWritten
    <3>2. QueryActs /\ step = "open" /\ subcommand \in {"at_ok", "ati", "at+cops"} => wire' = wire
      BY DEF QueryActs, QueryOpened, AtOk, Ati, CopsWritten, CopsRead, Opens, ExecuteWrites, ExecuteEnds
    <3>3. SendSmsActs /\ step = "open" => wire' = wire
      BY <3>1 DEF SendSmsActs, SendSmsOpened, SendSmsCmgfExecuted, SendSmsCscsExecuted, PromptRead, Opens,
                  ExecuteWrites, ExecuteReturns, device
    <3>4. ReceiveSmsActs /\ step = "open" => wire' = wire
      BY DEF ReceiveSmsActs, ReceiveSmsOpened, ReceiveSmsCmgfExecuted, ReceiveSmsCscsExecuted, CnmiExecuted,
             SmsListeningStarts, NoSmsRead, SmsRead, Opens, ExecuteWrites, ExecuteReturns, device
    <3>5. VoiceCallActs /\ step = "open" => wire' = wire
      BY DEF VoiceCallActs, VoiceCallOpened, QueryExecuted, QcfgListeningStarts, NoQcfgRead, QcfgRead,
             ConfigExecuted, AudioOnExecuted, VoiceCallCscsExecuted, DialExecuted, HangUpExecuted,
             CallAwaited, AudioOffExecuted, Opens, ExecuteWrites, ExecuteReturns, ExecuteEnds, device
    <3>. QED BY <1>1, <3>2, <3>3, <3>4, <3>5 DEF Runs
  <2>2. fresh' => wire' = <<>> /\ ~modem'.text
    BY <1>0, <1>1, <2>1 DEF Runs
  <2>. QED BY <2>2 DEF FreshInv, Asked
<1>2. CASE ~(Runs /\ step = "open")
  <2>0. fresh' = fresh
    BY <1>2 DEF Runs, Fails, Receives
  <2>. SUFFICES ASSUME fresh PROVE FreshInv'
    BY <2>0 DEF FreshInv
  <2>1. CASE wire' = wire /\ (step \in {"prompt", "text"} => step' \in {"prompt", "text", "exit"})
    BY <1>0, <2>1 DEF FreshInv, Asked, Pending
  <2>2. ASSUME step \notin {"prompt", "text"}, NEW w \in Seq(Other), wire' = Append(wire, w)
        PROVE  FreshInv'
    <3>1. ~modem.text /\ ~Asked
      BY <1>0, <2>2 DEF FreshInv
    <3>2. ~Names(w, "CMGS")
      <4>1. \A i \in DOMAIN w : w[i] \in Other
        BY LenProperties, ElementOfSeq
      <4>. QED BY <4>1, Tokens DEF Names
    <3>3. ~Asked'
      <4>1. \A i \in 1 .. Len(wire) + 1 : i \in DOMAIN wire \/ i = Len(wire) + 1
        BY <2>2, WireAppend
      <4>. QED BY <2>2, <3>1, <3>2, <4>1, WireAppend DEF Asked
    <3>. QED BY <1>0, <3>1, <3>3 DEF FreshInv, Asked
  <2>3. CASE CmgsWritten
    <3>1. /\ step \notin {"prompt", "text", "exit"} /\ step' = "prompt"
          /\ wire' = Append(wire, ToString(make_at_cmgs_write(Da)))
      BY <2>3 DEF CmgsWritten, Write
    <3>2. ~modem.text /\ ~Asked
      BY <3>1 DEF FreshInv
    <3>3. \A i \in DOMAIN wire' : Names(wire'[i], "CMGS") => i = Len(wire')
      <4>1. \A i \in 1 .. Len(wire) + 1 : i \in DOMAIN wire \/ i = Len(wire) + 1
        BY <3>1, WireAppend
      <4>. QED BY <3>1, <3>2, <4>1, WireAppend DEF Asked
    <3>. QED BY <1>0, <3>1, <3>2, <3>3 DEF FreshInv
  <2>4. CASE TextWritten
    <3>1. /\ step = "text" /\ step' = "exit" /\ modem'.text
          /\ wire' = Append(wire, TextToString(SmsText))
      BY <1>0, <2>4 DEF TextWritten, Write, Exit
    <3>2. wire = <<>>
      BY <1>0, <3>1 DEF FreshInv
    <3>3. Len(wire') = 1 /\ DOMAIN wire' = 1 .. 1 /\ wire'[1] = TextToString(SmsText)
      <4>1. Len(wire) = 0
        BY <3>2
      <4>. QED BY <3>1, <4>1, WireAppend
    <3>4. Names(wire'[1], SUB) /\ ~Names(wire'[1], "CMGS")
      <4>1. SmsText \in Seq(Text)
        BY ProgramAssumption
      <4>2. /\ DOMAIN TextToString(SmsText) = 1 .. Len(SmsText) + 1 /\ Len(SmsText) \in Nat
            /\ TextToString(SmsText)[Len(SmsText) + 1] = SUB
            /\ \A i \in 1 .. Len(SmsText) : TextToString(SmsText)[i] \in Text
        <5>. DEFINE B == Text \cup {SUB}
        <5>1. SmsText \in Seq(B) /\ SUB \in B /\ Len(SmsText) \in Nat
          BY <4>1, SeqMonotonic, LenProperties
        <5>2. \A i \in 1 .. Len(SmsText) : SmsText[i] \in Text
          BY <4>1, ElementOfSeq
        <5>. HIDE DEF B
        <5>3. TextToString(SmsText) = Append(SmsText, SUB)
          BY <5>1, AppendIsConcat DEF TextToString
        <5>4. /\ Append(SmsText, SUB) \in Seq(B) /\ Len(Append(SmsText, SUB)) = Len(SmsText) + 1
              /\ Append(SmsText, SUB)[Len(SmsText) + 1] = SUB
              /\ \A i \in 1 .. Len(SmsText) : Append(SmsText, SUB)[i] = SmsText[i]
          BY <5>1, AppendProperties
        <5>5. DOMAIN Append(SmsText, SUB) = 1 .. Len(SmsText) + 1
          BY <5>4, LenProperties
        <5>. QED BY <5>1, <5>2, <5>3, <5>4, <5>5
      <4>3. \A i \in 1 .. Len(SmsText) + 1 : i \in 1 .. Len(SmsText) \/ i = Len(SmsText) + 1
        BY <4>2
      <4>4. "CMGS" \notin Text /\ SUB # "CMGS"
        BY ModemAssumption DEF SUB
      <4>5. Len(SmsText) + 1 \in DOMAIN TextToString(SmsText)
        BY <4>2
      <4>. QED BY <3>3, <4>2, <4>3, <4>4, <4>5 DEF Names
    <3>5. Pending' /\ ~Asked'
      <4>1. \A i \in DOMAIN wire' : i = 1
        BY <3>3
      <4>2. 1 \in DOMAIN wire'
        BY <3>3
      <4>. QED BY <3>4, <4>1, <4>2 DEF Pending, Asked
    <3>. QED BY <3>1, <3>3, <3>5 DEF FreshInv, Asked
  <2>. QED BY <2>1, <2>2, <2>3, <2>4, ProgramWrites
<1>. QED BY <1>1, <1>2

\* What the modem does.
LEMMA ModemKeepsFresh ==
  ASSUME Inv, FreshInv, ModemActs, UNCHANGED fresh
  PROVE  FreshInv'
<1>. SUFFICES ASSUME fresh PROVE FreshInv'
  BY DEF FreshInv
<1>0. SessionInv /\ modem \in ModemType /\ UNCHANGED step /\ (Pending => modem.text)
  BY DEF Inv, SessionInv, SessionType, PromptInv, ModemActs, program
<1>1. CASE wire # <<>> /\ wire' = Tail(wire)
  <2>1. /\ wire \in Seq(Seq(Written)) /\ Len(wire) \in Nat /\ DOMAIN wire = 1 .. Len(wire)
        /\ Len(wire) # 0
    BY <1>0, <1>1, LenProperties, EmptySeq DEF SessionInv, SessionType
  <2>2. /\ Len(wire') = Len(wire) - 1 /\ DOMAIN wire' = 1 .. Len(wire) - 1
        /\ Head(wire) = wire[1] /\ 1 \in DOMAIN wire
        /\ \A i \in DOMAIN wire' : wire'[i] = wire[i + 1] /\ i + 1 \in DOMAIN wire
    <3>. DEFINE S == Seq(Written)
    <3>1. wire \in Seq(S)
      BY <2>1
    <3>. HIDE DEF S
    <3>2. /\ wire' \in Seq(S) /\ Len(wire') = Len(wire) - 1 /\ Head(wire) = wire[1]
          /\ \A i \in 1 .. Len(wire') : wire'[i] = wire[i + 1]
      BY <1>1, <3>1, HeadTailProperties
    <3>3. DOMAIN wire' = 1 .. Len(wire) - 1
      BY <3>2, LenProperties
    <3>4. \A i \in 1 .. Len(wire) - 1 : i + 1 \in 1 .. Len(wire)
      BY <2>1
    <3>. QED BY <2>1, <3>2, <3>3, <3>4
  <2>3. Asked' => Asked
    BY <2>2 DEF Asked
  <2>4. \A i \in DOMAIN wire' : Names(wire'[i], "CMGS") => i = Len(wire')
    <3>. SUFFICES ASSUME NEW i \in DOMAIN wire', Names(wire'[i], "CMGS") PROVE i = Len(wire')
      OBVIOUS
    <3>1. i + 1 = Len(wire)
      BY <2>2 DEF FreshInv
    <3>. QED BY <2>1, <2>2, <3>1
  <2>5. CASE modem.text
    <3>1. Len(wire) = 1 /\ Pending /\ step = "exit" /\ ~Asked
      BY <1>1, <2>5 DEF FreshInv
    <3>2. wire' = <<>>
      <4>1. Len(wire') = 0
        BY <2>2, <3>1
      <4>2. wire' \in Seq(Seq(Written))
        BY <1>0, <1>1, WireTail
      <4>. QED BY <4>1, <4>2, EmptySeq
    <3>3. ~Asked'
      BY <2>3, <3>1
    <3>. QED BY <1>0, <2>4, <3>1, <3>2, <3>3 DEF FreshInv
  <2>6. CASE ~modem.text /\ ~modem'.text
    BY <1>0, <2>3, <2>4, <2>6 DEF FreshInv
  <2>7. CASE ~modem.text /\ modem'.text
    <3>1. Names(Head(wire), "CMGS")
      <4>1. CASE ModemAccepts
        BY <1>0, <2>7, <4>1, TakenProperties DEF ModemAccepts
      <4>2. CASE ModemRefuses
        BY <1>0, <2>7, <4>2 DEF ModemRefuses, ModemType
      <4>3. CASE ModemNotifies
        BY <2>7, <4>3 DEF ModemNotifies
      <4>. QED BY <4>1, <4>2, <4>3 DEF ModemActs
    <3>2. Asked /\ Len(wire) = 1
      BY <2>2, <3>1 DEF Asked, FreshInv
    <3>3. wire' = <<>>
      <4>1. Len(wire') = 0
        BY <2>2, <3>2
      <4>2. wire' \in Seq(Seq(Written))
        BY <1>0, <1>1, WireTail
      <4>. QED BY <4>1, <4>2, EmptySeq
    <3>4. ~Asked'
      BY <3>3 DEF Asked
    <3>. QED BY <1>0, <2>4, <3>2, <3>3, <3>4 DEF FreshInv
  <2>. QED BY <2>5, <2>6, <2>7
<1>2. CASE UNCHANGED <<wire, modem>>
  BY <1>0, <1>2 DEF FreshInv, Asked, Pending
<1>. QED BY <1>1, <1>2 DEF ModemActs, ModemAccepts, ModemRefuses, ModemNotifies

\* One step of the program, of the device or of the modem.
LEMMA NextFresh == Inv /\ Inv' /\ FreshInv /\ [Next]_vars => FreshInv'
<1>. SUFFICES ASSUME Inv, Inv', FreshInv, [Next]_vars PROVE FreshInv'
  OBVIOUS
<1>1. CASE Runs \/ Fails \/ Receives
  BY <1>1, ProgramKeepsFresh
<1>2. CASE ModemAnswers \/ ModemSpeaksUp
  BY <1>2, ModemKeepsFresh DEF ModemAnswers, ModemSpeaksUp
<1>3. CASE SmsArrives
  <2>1. UNCHANGED <<wire, step, fresh>> /\ modem'.text = modem.text
    BY <1>3 DEF SmsArrives, SmsAnnounced, program, Inv, SessionInv, SessionType, ModemType
  <2>. QED BY <2>1 DEF FreshInv, Asked, Pending
<1>4. CASE StartsAgain
  BY <1>4 DEF StartsAgain, FreshInv
<1>5. CASE UNCHANGED vars
  BY <1>5 DEF vars, device, program, FreshInv, Asked, Pending
<1>. QED BY <1>1, <1>2, <1>3, <1>4, <1>5 DEF Next

\* It holds of every behaviour.
LEMMA FreshIsKept == Spec => []FreshInv
<1>1. Init => FreshInv
  BY DEF Init, FreshInv
<1>. QED BY <1>1, NextFresh, PromptsAreKept, PTL DEF Spec

\* The text of an SMS is only ever on its way to a modem that waits for it, only
\* one is, and nothing before it if no earlier use left a trace
\* (async_write_text, do_send_sms.cpp).
THEOREM TextsAreAwaited == Spec => []TextOnlyAtPrompt
<1>1. Inv /\ FreshInv => TextOnlyAtPrompt
  <2>. SUFFICES ASSUME Inv, FreshInv, NEW i \in DOMAIN wire, Names(wire[i], SUB)
                PROVE  /\ modem.text
                       /\ fresh => i = 1
                       /\ \A j \in DOMAIN wire : Names(wire[j], SUB) => j = i
    BY DEF TextOnlyAtPrompt
  <2>1. /\ modem.text /\ \A j \in DOMAIN wire : Names(wire[j], SUB) => j = i
    BY DEF Inv, SessionInv, PromptInv, Pending
  <2>2. ASSUME fresh PROVE i = 1
    <3>1. DOMAIN wire = 1 .. Len(wire)
      BY LenProperties DEF Inv, SessionInv, SessionType
    <3>2. wire # <<>>
      OBVIOUS
    <3>3. Len(wire) = 1
      BY <2>1, <2>2, <3>2 DEF FreshInv
    <3>. QED BY <3>1, <3>3
  <2>. QED BY <2>1, <2>2
<1>. QED BY <1>1, FreshIsKept, PromptsAreKept, PTL DEF Spec

-----------------------------------------------------------------------------
\* What the program has of the modem's messages, it has read from the line.

\* The line, the buffer and the lines of the response have tokens of S only.
Within(S) == line \in Seq(S) /\ sb \in Buffers(S) /\ msg.body \in Seq(Seq(S))

\* A step of the program makes up no tokens, but for the zeros of new storage.
LEMMA ProgramWithin ==
  ASSUME NEW S, Zero \in S, Inv, Within(S), Runs \/ Fails \/ Receives \/ StartsAgain
  PROVE  Within(S)'
<1>0. /\ SessionInv /\ SessionType /\ op.rb \in Nat /\ op.at \in Nat /\ msg \in Response
      /\ line \in Seq(S) /\ sb \in Buffers(S) /\ msg.body \in Seq(Seq(S))
      /\ Fresh \in Buffers(S)
  BY FreshProperties DEF Inv, SessionInv, SessionType, OpType, Within
<1>1. ASSUME line' = line \/ line' = <<>>, UNCHANGED <<sb, msg>> PROVE Within(S)'
  BY <1>0, <1>1, EmptySeq DEF Within
<1>2. ASSUME SearchOn(Fresh), UNCHANGED <<line, msg>> PROVE Within(S)'
  BY <1>0, <1>2, SearchOnKeeps DEF Within
<1>3. Shows => msg'.body \in Seq(Seq(S))
  <2>1. Commit(sb, op.rb) \in Buffers(S)
    BY <1>0, CommitProperties
  <2>. QED BY <1>0, <2>1, PopulateBody DEF Shows
<1>4. Handled \in Buffers(S) /\ Consume(Handled, op.rb) \in Buffers(S)
  BY <1>0, CommitProperties, ConsumeProperties DEF Handled
<1>5. ASSUME Shows, sb' \in {Fresh, Handled, Consume(Handled, op.rb)}, UNCHANGED line PROVE Within(S)'
  BY <1>0, <1>3, <1>4, <1>5 DEF Within
<1>6. ASSUME NEW at, ReadsAgain(at), UNCHANGED line PROVE Within(S)'
  <2>. DEFINE found == Search(Handled, Data(Handled))
  <2>1. sb' = Consume(found.sb, op.rb)
    BY <1>6 DEF ReadsAgain
  <2>2. found.sb \in Buffers(S)
    BY <1>4, SearchProperties
  <2>. HIDE DEF found
  <2>3. sb' \in Buffers(S)
    BY <1>0, <2>1, <2>2, ConsumeProperties
  <2>. QED BY <1>0, <1>3, <1>6, <2>3 DEF Within, ReadsAgain
<1>7. ASSUME NEW n \in 1 .. Len(line), Arrive(n) PROVE Within(S)'
  <2>. DEFINE cs == SubSeq(line, 1, n)
              b  == Commit(Fill(sb, op.at, cs), n)
  <2>1. n \in 0 .. Len(line) /\ n \in Nat
    BY <1>0, LenProperties
  <2>2. cs \in Seq(S) /\ line' \in Seq(S)
    BY <1>0, <1>7, <2>1, Cut DEF Arrive
  <2>3. b \in Buffers(S)
    BY <1>0, <2>1, <2>2, FillCommitType
  <2>4. SearchOn(b) /\ UNCHANGED msg
    BY <1>7 DEF Arrive
  <2>. HIDE DEF b
  <2>. QED BY <1>0, <2>2, <2>3, <2>4, SearchOnKeeps DEF Within
<1>8. ASSUME CallAwaited PROVE Within(S)'
  <2>1. PICK n \in 0 .. Len(line) :
          /\ line' = SubSeq(line, n + 1, Len(line))
          /\ \A T : Zero \in T /\ SubSeq(line, 1, n) \in Seq(T) => sb' \in Buffers(T)
    BY <1>0, <1>8, CallAwaitedTakes
  <2>2. SubSeq(line, 1, n) \in Seq(S) /\ line' \in Seq(S)
    BY <1>0, <2>1, Cut
  <2>3. UNCHANGED msg
    BY <1>8 DEF CallAwaited
  <2>. QED BY <1>0, <2>1, <2>2, <2>3 DEF Within
<1>9. ASSUME StartsOver PROVE Within(S)'
  <2>1. NoMessage.body \in Seq(Seq(S))
    BY EmptySeq DEF NoMessage
  <2>. QED BY <1>0, <1>9, <2>1 DEF StartsOver, device, Within
<1>10. ASSUME NEW next, Opens(next) PROVE Within(S)'
  BY <1>1, <1>10 DEF Opens
<1>11. ASSUME NEW at, NEW r, ExecuteWrites(at, r) PROVE Within(S)'
  BY <1>2, <1>11 DEF ExecuteWrites, Write
<1>12. ASSUME NEW at, NEW next, ExecuteReturns(at, next) \/ ExecuteEnds(at) PROVE Within(S)'
  BY <1>5, <1>12 DEF ExecuteReturns, ExecuteEnds, device
<1>13. ASSUME NEW at, ReadEnds(at), UNCHANGED device PROVE Within(S)'
  BY <1>5, <1>13 DEF ReadEnds, device
<1>14. CASE SendSmsActs
  <2>1. CASE SendSmsOpened \/ SendSmsCmgfExecuted \/ SendSmsCscsExecuted
    BY <1>10, <1>11, <1>12, <2>1 DEF SendSmsOpened, SendSmsCmgfExecuted, SendSmsCscsExecuted
  <2>2. CASE CmgsWritten
    BY <1>2, <2>2 DEF CmgsWritten, Write
  <2>3. CASE PromptRead
    BY <1>13, <2>3 DEF PromptRead
  <2>4. CASE TextWritten
    BY <1>1, <2>4 DEF TextWritten, Write
  <2>. QED BY <1>14, <2>1, <2>2, <2>3, <2>4 DEF SendSmsActs
<1>15. CASE ReceiveSmsActs
  <2>1. CASE ReceiveSmsOpened \/ ReceiveSmsCmgfExecuted \/ ReceiveSmsCscsExecuted \/ CnmiExecuted
    BY <1>10, <1>11, <1>12, <2>1 DEF ReceiveSmsOpened, ReceiveSmsCmgfExecuted, ReceiveSmsCscsExecuted, CnmiExecuted
  <2>2. CASE SmsListeningStarts
    BY <1>2, <2>2 DEF SmsListeningStarts, device
  <2>3. CASE NoSmsRead
    BY <1>6, <2>3 DEF NoSmsRead, device
  <2>4. CASE SmsRead
    BY <1>13, <2>4 DEF SmsRead
  <2>. QED BY <1>15, <2>1, <2>2, <2>3, <2>4 DEF ReceiveSmsActs
<1>16. CASE VoiceCallActs
  <2>1. CASE VoiceCallOpened \/ QueryExecuted \/ ConfigExecuted \/ AudioOnExecuted \/ VoiceCallCscsExecuted
    BY <1>10, <1>11, <1>12, <2>1 DEF VoiceCallOpened, QueryExecuted, ConfigExecuted, AudioOnExecuted,
                                     VoiceCallCscsExecuted
  <2>2. CASE DialExecuted \/ HangUpExecuted \/ AudioOffExecuted
    BY <1>11, <1>12, <2>2 DEF DialExecuted, HangUpExecuted, AudioOffExecuted
  <2>3. CASE QcfgListeningStarts
    BY <1>2, <2>3 DEF QcfgListeningStarts, device
  <2>4. CASE NoQcfgRead
    BY <1>6, <2>4 DEF NoQcfgRead, device
  <2>5. CASE QcfgRead
    BY <1>13, <2>5 DEF QcfgRead
  <2>6. CASE CallAwaited
    BY <1>8, <2>6
  <2>. QED BY <1>16, <2>1, <2>2, <2>3, <2>4, <2>5, <2>6 DEF VoiceCallActs
<1>17. CASE QueryActs
  <2>1. CASE QueryOpened \/ AtOk \/ Ati
    BY <1>10, <1>11, <1>12, <2>1 DEF QueryOpened, AtOk, Ati
  <2>2. CASE CopsWritten
    BY <1>2, <2>2 DEF CopsWritten, Write
  <2>3. CASE CopsRead
    BY <1>5, <2>3 DEF CopsRead, Handled, device
  <2>. QED BY <1>17, <2>1, <2>2, <2>3 DEF QueryActs
<1>18. CASE Fails
  BY <1>1, <1>18 DEF Fails, SendSmsFails, ReceiveSmsFails, VoiceCallFails, QueryFails, OpenFails, ExecuteFails,
                     ChainFails, SmsListeningFails, QcfgListeningFails, CopsFails, device
<1>19. CASE Receives
  BY <1>7, <1>19 DEF Receives
<1>20. CASE StartsAgain
  BY <1>9, <1>20 DEF StartsAgain
<1>. QED BY <1>14, <1>15, <1>16, <1>17, <1>18, <1>19, <1>20 DEF Runs

-----------------------------------------------------------------------------
\* Nothing anywhere looks like an SMS before one was announced.
NoCmt == Char \ {"+CMT:"}

SmsInv == ~modem.sms => Within(NoCmt)

\* The modem says nothing else that looks like one.
LEMMA ModemKeepsSms ==
  ASSUME Inv, SmsInv, ModemActs
  PROVE  SmsInv'
<1>0. SessionInv /\ modem \in ModemType /\ UNCHANGED <<sb, msg>> /\ line \in Seq(Char)
  BY DEF Inv, SessionInv, SessionType, ModemActs, program
<1>1. Seq(Spoken) \subseteq Seq(NoCmt) /\ Prompt \in Seq(NoCmt) /\ <<>> \in Seq(NoCmt) /\ Said("ERROR") \in Seq(NoCmt)
  <2>1. {CR, LF, PROMPT, "ERROR"} \subseteq NoCmt /\ Spoken \subseteq NoCmt
    BY DEF Spoken, NoCmt, Char, CR, LF, PROMPT, Codes, PlainCodes
  <2>. HIDE DEF NoCmt
  <2>2. CRLF \in Seq(NoCmt) /\ <<PROMPT>> \in Seq(NoCmt) /\ <<"ERROR">> \in Seq(NoCmt)
    BY <2>1 DEF CRLF
  <2>3. \A s, u \in Seq(NoCmt) : s \o u \in Seq(NoCmt)
    BY ConcatProperties
  <2>. QED BY <2>1, <2>2, <2>3, SeqMonotonic, EmptySeq DEF Prompt, Said
<1>. SUFFICES ASSUME NEW a \in Seq(NoCmt), line' = line \o a, modem'.sms = modem.sms PROVE SmsInv'
  <2>1. CASE ModemAccepts
    <3>1. PICK a \in Answers(Head(wire)) : line' = line \o a
      BY <2>1 DEF ModemAccepts
    <3>2. a \in Seq(NoCmt)
      BY <1>1, AnswersProperties
    <3>3. modem'.sms = modem.sms
      BY <1>0, <2>1 DEF ModemAccepts, Taken, ModemType
    <3>. QED BY <3>1, <3>2, <3>3
  <2>2. CASE ModemRefuses
    BY <1>0, <1>1, <2>2 DEF ModemRefuses, ModemType
  <2>3. CASE ModemNotifies
    <3>1. PICK u \in Urcs : line' = line \o u
      BY <2>3 DEF ModemNotifies
    <3>2. u \in Seq(NoCmt)
      BY <1>1, ModemAssumption DEF Spoken
    <3>. QED BY <2>3, <3>1, <3>2 DEF ModemNotifies
  <2>. QED BY <2>1, <2>2, <2>3 DEF ModemActs
<1>2. ASSUME line \in Seq(NoCmt) PROVE line' \in Seq(NoCmt)
  BY <1>2, ConcatProperties
<1>. QED BY <1>0, <1>2 DEF SmsInv, Within

\* "SMS received." is only printed when the modem has announced one
\* (do_receive_sms.cpp): not for another message, nor for old bytes.
THEOREM ReceivedSmsAreReal == Spec => OnlyRealSms
<1>1. Init => SmsInv
  <2>. SUFFICES ASSUME Init PROVE Within(NoCmt)
    BY DEF SmsInv
  <2>. QED BY FreshProperties, EmptySeq DEF Init, Started, Within, NoMessage
<1>2. Inv /\ SmsInv /\ [Next]_vars => SmsInv'
  <2>. SUFFICES ASSUME Inv, SmsInv, [Next]_vars PROVE SmsInv'
    OBVIOUS
  <2>1. Zero \in NoCmt
    BY SessionAssumption DEF NoCmt, Char, NUL
  <2>2. CASE Runs \/ Fails \/ Receives \/ StartsAgain
    <3>1. UNCHANGED modem
      BY <2>2, ProgramWrites DEF StartsAgain, StartsOver, device
    <3>. QED BY <2>1, <2>2, <3>1, ProgramWithin DEF SmsInv
  <2>3. CASE ModemAnswers \/ ModemSpeaksUp
    BY <2>3, ModemKeepsSms DEF ModemAnswers, ModemSpeaksUp
  <2>4. CASE SmsArrives
    BY <2>4 DEF SmsArrives, SmsAnnounced, SmsInv, Inv, SessionInv, SessionType, ModemType
  <2>5. CASE UNCHANGED vars
    BY <2>5 DEF vars, device, program, SmsInv, Within
  <2>. QED BY <2>2, <2>3, <2>4, <2>5 DEF Next
<1>3. Inv /\ SmsInv /\ [Next]_vars =>
        (subcommand = "rcv-sms" /\ step = "listen" /\ step' = "exit" /\ op.st = "matched" => modem.sms)
  <2>. SUFFICES ASSUME Inv, SmsInv, [Next]_vars, subcommand = "rcv-sms", step = "listen", step' = "exit",
                       op.st = "matched", ~modem.sms
                PROVE  FALSE
    OBVIOUS
  <2>1. CASE Runs
    <3>1. SmsRead
      BY <2>1 DEF Runs, ReceiveSmsActs, ReceiveSmsOpened, ReceiveSmsCmgfExecuted, ReceiveSmsCscsExecuted,
                  CnmiExecuted, SmsListeningStarts, NoSmsRead, Opens, ExecuteWrites, ExecuteReturns
    <3>2. /\ sb \in Buffers(NoCmt) /\ msg.body \in Seq(Seq(NoCmt)) /\ op.rb \in Nat
      BY DEF SmsInv, Within, Inv, SessionInv, SessionType, OpType
    <3>3. Commit(sb, op.rb) \in Buffers(NoCmt)
      BY <3>2, CommitProperties
    <3>4. msg'.body \in Seq(Seq(NoCmt))
      BY <3>1, <3>2, <3>3, PopulateBody DEF SmsRead, ReadEnds, Shows
    <3>5. FrontIs(msg', "+CMT:")
      BY <3>1 DEF SmsRead, SmsReceived
    <3>. QED BY <3>4, <3>5, FrontIn DEF NoCmt
  <2>2. CASE Fails
    BY <2>2 DEF Fails, ReceiveSmsFails, OpenFails, ExecuteFails, SmsListeningFails
  <2>3. CASE Receives
    BY <2>3 DEF Receives, Arrive
  <2>4. CASE ModemAnswers \/ ModemSpeaksUp \/ SmsArrives
    BY <2>4 DEF ModemAnswers, ModemSpeaksUp, ModemActs, SmsArrives, SmsAnnounced, program
  <2>5. CASE StartsAgain
    BY <2>5 DEF StartsAgain, StartsOver
  <2>6. CASE UNCHANGED vars
    BY <2>6 DEF vars, program
  <2>. QED BY <2>1, <2>2, <2>3, <2>4, <2>5, <2>6 DEF Next
<1>. QED BY <1>1, <1>2, <1>3, PromptsAreKept, PTL DEF Spec, OnlyRealSms
=============================================================================
