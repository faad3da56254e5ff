--------------------------- MODULE DialogueProofs ---------------------------
(***************************************************************************)
(* The dialogue of the program with the modem.  What a call tells it, and  *)
(* in which order: whatever is refused or fails, and whatever programs     *)
(* were killed or ran before on the same modem, the audio is only on if    *)
(* the configuration that allows it was taken first.  And who speaks when: *)
(* between a program and a modem that says nothing unasked one command is  *)
(* on its way, or its answer, or neither.  And what a call hears then: the *)
(* configuration, in whatever order and pieces the answer comes.           *)
(***************************************************************************)
EXTENDS ProgramProofs

\* Why a call may have the audio on.
Told == modem.flag \/ modem.refused \/ faults > 0

\* A piece that allows audio over USB, and one that switches it on.
IsConfig(w) == Names(w, "QCFG") /\ Names(w, "1") /\ ~Names(w, SUB)
TurnsOn(w)  == Names(w, "QPCMV") /\ Names(w, "1,2")

\* What comes behind the first n pieces of the wire is not taken by a modem that
\* does not know the configuration.
Announced(n) == Told \/ (IF n = 0 THEN modem.text ELSE IsConfig(wire[n]))

\* The audio is switched on right behind the configuration, on the wire and by
\* the program.
ConfigInv ==
  /\ faults \in Nat
  /\ \A i \in DOMAIN wire : TurnsOn(wire[i]) => Announced(i - 1)
  /\ modem.pcm => Told
  /\ step = "config" => Told \/ Names(usb_cfg, "1")
  /\ (step = "config" /\ op.st # "idle") \/ (step = "audio on" /\ op.st = "idle") => Announced(Len(wire))

-----------------------------------------------------------------------------
\* The tokens of all commands but the one for the audio.
Silent == (Other \cup {"CMGS", SUB}) \ {"QPCMV"}

\* What is made of them does not switch the audio on.
LEMMA SilentTokens ==
  /\ Silent \subseteq Written /\ Char \subseteq Silent
  /\ {"AT", "S", "=", "+", "=?", "?", "CR", "LF", "I", "A", "H", "D", "CMGF", "CSCS", "CMGS", SUB,
      "CNMI", "CUSD", "QCFG", "COPS", "1", "GSM", "1,2,0,0,0", "USBCFG", "1,2", "0", "{}"} \subseteq Silent
  /\ \A w \in Seq(Silent) : ~TurnsOn(w)
<1>1. "QPCMV" \notin Char
  BY ModemAssumption DEF Char, CR, LF, NUL, PROMPT, Codes, PlainCodes, ErrorCodes
<1>2. Silent \subseteq Written /\ Char \subseteq Silent
  BY <1>1 DEF Silent, Written, Quiet, Other
<1>3. {"AT", "S", "=", "+", "=?", "?", "CR", "LF", "I", "A", "H", "D", "CMGF", "CSCS", "CMGS", SUB,
      "CNMI", "CUSD", "QCFG", "COPS", "1", "GSM", "1,2,0,0,0", "USBCFG", "1,2", "0", "{}"} \subseteq Silent
  BY DEF Silent, Other, SUB
<1>4. "QPCMV" \notin Silent
  BY DEF Silent
<1>. HIDE DEF Silent
<1>5. \A w \in Seq(Silent) : \A i \in DOMAIN w : w[i] \in Silent
  BY LenProperties, ElementOfSeq
<1>6. \A w \in Seq(Silent) : ~TurnsOn(w)
  BY <1>4, <1>5 DEF TurnsOn, Names
<1>. QED BY <1>2, <1>3, <1>6

\* The requests of the subcommands, all but the one for the audio.
LEMMA SilentCommands ==
  ASSUME NEW p \in Seq(Silent)
  PROVE  /\ ToString(make_at) \in Seq(Silent) /\ ToString(make_ati) \in Seq(Silent)
         /\ ToString(make_ath) \in Seq(Silent) /\ ToString(make_at_cops_read) \in Seq(Silent)
         /\ ToString(make_atd(p)) \in Seq(Silent) /\ ToString(make_at_cmgf_write(p)) \in Seq(Silent)
         /\ ToString(make_at_cscs_write(p)) \in Seq(Silent) /\ ToString(make_at_cnmi_write(p)) \in Seq(Silent)
         /\ ToString(make_at_qcfg_write(p)) \in Seq(Silent) /\ ToString(make_at_cmgs_write(p)) \in Seq(Silent)
<1>1. ASSUME NEW f, NEW c \in {<<>>, <<"I">>, <<"H">>, <<"D">>, <<"CMGF">>, <<"CSCS">>,
                               <<"CNMI">>, <<"QCFG">>, <<"CMGS">>, <<"COPS">>},
             NEW a \in Seq(Silent)
      PROVE  ToString(Request(f, c, a)) \in Seq(Silent)
  <2>2. c \in Seq(Silent)
    <3>1. CASE c = <<>>
      BY <3>1, EmptySeq
    <3>2. CASE c # <<>>
      <4>1. PICK x \in Silent : c = <<x>>
        BY SilentTokens, <3>2
      <4>. QED BY <4>1, Single
    <3>. QED BY <3>1, <3>2
  <2>3. Request(f, c, a).command = c /\ Request(f, c, a).args = a
    BY DEF Request
  <2>. QED BY SilentTokens, <2>2, <2>3, RequestTokens
<1>2. <<>> \in Seq(Silent)
  BY EmptySeq
<1>3. /\ ToString(make_at) \in Seq(Silent) /\ ToString(make_ati) \in Seq(Silent)
      /\ ToString(make_ath) \in Seq(Silent) /\ ToString(make_at_cops_read) \in Seq(Silent)
  BY <1>1, <1>2 DEF make_at, make_ati, make_ath, make_at_cops_read
<1>4. /\ ToString(make_atd(p)) \in Seq(Silent) /\ ToString(make_at_cmgf_write(p)) \in Seq(Silent)
      /\ ToString(make_at_cscs_write(p)) \in Seq(Silent) /\ ToString(make_at_cnmi_write(p)) \in Seq(Silent)
      /\ ToString(make_at_qcfg_write(p)) \in Seq(Silent) /\ ToString(make_at_cmgs_write(p)) \in Seq(Silent)
  BY <1>1 DEF make_atd, make_at_cmgf_write, make_at_cscs_write, make_at_cnmi_write,
              make_at_qcfg_write, make_at_cmgs_write
<1>. QED BY <1>3, <1>4

\* Their arguments.
LEMMA SilentArguments ==
  /\ {<<"1">>, <<"GSM">>, <<"1,2,0,0,0">>, <<"USBCFG">>, <<"1,2">>, <<"0">>, <<"{}">>} \subseteq Seq(Silent)
  /\ Da \in Seq(Silent) /\ SmsText \in Seq(Silent) /\ Seq(Char) \subseteq Seq(Silent)
<1>1. Text \subseteq Silent
  BY SilentTokens, Tokens
<1>2. Seq(Char) \subseteq Seq(Silent) /\ Seq(Text) \subseteq Seq(Silent)
  BY <1>1, SilentTokens, SeqMonotonic
<1>3. \A x \in Silent : <<x>> \in Seq(Silent)
  BY Single
<1>4. {<<"1">>, <<"GSM">>, <<"1,2,0,0,0">>, <<"USBCFG">>, <<"1,2">>, <<"0">>, <<"{}">>} \subseteq Seq(Silent)
  BY SilentTokens, <1>3
<1>. QED BY <1>2, <1>4, ProgramAssumption

\* The piece that switches the audio off.
LEMMA OffIsSilent == ~TurnsOn(ToString(make_at_qpcmv_write(<<"0">>)))
<1>. DEFINE S == Written \ {"1,2"}
<1>1. {"AT", "S", "=", "+", "=?", "?", "CR", "LF", "QPCMV", "0"} \subseteq S /\ "1,2" \notin S
  BY DEF Written, Quiet, Other
<1>. HIDE DEF S
<1>2. <<"QPCMV">> \in Seq(S) /\ <<"0">> \in Seq(S)
  BY <1>1, Single
<1>3. make_at_qpcmv_write(<<"0">>).command = <<"QPCMV">> /\ make_at_qpcmv_write(<<"0">>).args = <<"0">>
  BY DEF make_at_qpcmv_write, Request
<1>. DEFINE w == ToString(make_at_qpcmv_write(<<"0">>))
<1>4. w \in Seq(S)
  BY <1>1, <1>2, <1>3, RequestTokens
<1>. HIDE DEF w
<1>5. \A i \in DOMAIN w : w[i] \in S
  BY <1>4, LenProperties, ElementOfSeq
<1>6. ~Names(w, "1,2")
  BY <1>1, <1>5 DEF Names
<1>. QED BY <1>6 DEF TurnsOn, w

\* A token of a part is one of the whole.
LEMMA NamesConcat ==
  ASSUME NEW S, NEW s \in Seq(S), NEW t \in Seq(S), NEW x
  PROVE  Names(s \o t, x) <=> Names(s, x) \/ Names(t, x)
<1>1. /\ Len(s) \in Nat /\ Len(t) \in Nat /\ s \o t \in Seq(S) /\ Len(s \o t) = Len(s) + Len(t)
      /\ \A i \in 1 .. Len(s) + Len(t) : (s \o t)[i] = IF i <= Len(s) THEN s[i] ELSE t[i - Len(s)]
  BY LenProperties, ConcatProperties
<1>2. DOMAIN s = 1 .. Len(s) /\ DOMAIN t = 1 .. Len(t) /\ DOMAIN (s \o t) = 1 .. Len(s) + Len(t)
  BY <1>1, LenProperties
<1>3. ASSUME NEW i \in DOMAIN s, s[i] = x PROVE Names(s \o t, x)
  <2>1. i \in DOMAIN (s \o t) /\ (s \o t)[i] = x
    BY <1>1, <1>2, <1>3
  <2>. QED BY <2>1 DEF Names
<1>4. ASSUME NEW i \in DOMAIN t, t[i] = x PROVE Names(s \o t, x)
  <2>1. Len(s) + i \in DOMAIN (s \o t) /\ (s \o t)[Len(s) + i] = x
    BY <1>1, <1>2, <1>4
  <2>. QED BY <2>1 DEF Names
<1>5. ASSUME NEW i \in DOMAIN (s \o t), (s \o t)[i] = x PROVE Names(s, x) \/ Names(t, x)
  <2>1. CASE i <= Len(s)
    BY <1>1, <1>2, <1>5, <2>1 DEF Names
  <2>2. CASE i > Len(s)
    <3>1. i - Len(s) \in DOMAIN t /\ t[i - Len(s)] = x
      BY <1>1, <1>2, <1>5, <2>2
    <3>. QED BY <3>1 DEF Names
  <2>. QED BY <1>1, <1>2, <2>1, <2>2
<1>. QED BY <1>3, <1>4, <1>5 DEF Names

\* A configuration with the flag on allows the audio.
LEMMA ConfigCommand ==
  ASSUME NEW cfg \in Seq(Char), Names(cfg, "1")
  PROVE  IsConfig(ToString(make_at_qcfg_write(cfg)))
<1>. DEFINE S == Quiet
            w == ToString(make_at_qcfg_write(cfg))
<1>1. w \in Seq(S) /\ cfg \in Seq(S) /\ {"AT", "+", "QCFG", "=", "CR", "LF"} \subseteq S /\ SUB \notin S
  <2>1. Other \subseteq Quiet /\ {"AT", "+", "QCFG", "=", "CR", "LF"} \subseteq Other
    BY DEF Quiet, Other
  <2>2. cfg \in Seq(Other) /\ Seq(Other) \subseteq Seq(Quiet)
    BY <2>1, Arguments, SeqMonotonic
  <2>. QED BY <2>1, <2>2, QuietCommands, Tokens
<1>2. w = <<"AT">> \o (<<"+">> \o <<"QCFG">> \o <<"=">> \o cfg) \o <<"CR", "LF">>
  BY DEF ToString, make_at_qcfg_write, Request
<1>. HIDE DEF S, w
<1>3. /\ <<"AT">> \in Seq(S) /\ <<"+">> \in Seq(S) /\ <<"QCFG">> \in Seq(S) /\ <<"=">> \in Seq(S)
      /\ <<"CR", "LF">> \in Seq(S)
  BY <1>1
<1>4. \A s, t \in Seq(S) : s \o t \in Seq(S) /\ \A x : Names(s \o t, x) <=> Names(s, x) \/ Names(t, x)
  BY ConcatProperties, NamesConcat
<1>5. Names(<<"QCFG">>, "QCFG")
  BY DEF Names
<1>6. Names(w, "QCFG") /\ Names(w, "1")
  <2>1. LET a == <<"+">> \o <<"QCFG">>
            b == a \o <<"=">>
            c == b \o cfg
            d == <<"AT">> \o c
        IN  /\ a \in Seq(S) /\ b \in Seq(S) /\ c \in Seq(S) /\ d \in Seq(S)
            /\ Names(a, "QCFG") /\ Names(b, "QCFG") /\ Names(c, "QCFG") /\ Names(c, "1")
            /\ Names(d, "QCFG") /\ Names(d, "1") /\ w = d \o <<"CR", "LF">>
    BY <1>1, <1>2, <1>3, <1>4, <1>5
  <2>. QED BY <1>3, <1>4, <2>1
<1>7. \A i \in DOMAIN w : w[i] \in S
  BY <1>1, LenProperties, ElementOfSeq
<1>8. ~Names(w, SUB)
  BY <1>1, <1>7 DEF Names
<1>. QED BY <1>6, <1>8 DEF IsConfig, w

-----------------------------------------------------------------------------
\* Whoever knows that the modem was told, or that something went wrong, has
\* nothing left to see to.
LEMMA ToldIsEnough ==
  ASSUME Told', faults' \in Nat
  PROVE  ConfigInv'
BY DEF ConfigInv, Announced

\* What is written last may come last.
LEMMA AnnouncedBehind ==
  ASSUME Inv, ConfigInv, modem' = modem, Told => Told',
         NEW w, wire' = Append(wire, w), TurnsOn(w) => Announced(Len(wire))
  PROVE  \A i \in DOMAIN wire' : TurnsOn(wire'[i]) => Announced(i - 1)'
<1>. DEFINE N == Len(wire)
<1>1. /\ N \in Nat /\ DOMAIN wire = 1 .. N /\ DOMAIN wire' = 1 .. N + 1
      /\ \A i \in 1 .. N : wire'[i] = wire[i]
      /\ wire'[N + 1] = w
  BY WireAppend
<1>2. TurnsOn(w) => Announced(N)
  OBVIOUS
<1>. HIDE DEF N
<1>3. ASSUME NEW n \in 0 .. N, Announced(n) PROVE Announced(n)'
  <2>1. n = 0 \/ n \in 1 .. N
    BY <1>1
  <2>. QED BY <1>1, <1>3, <2>1 DEF Announced
<1>4. ASSUME NEW i \in 1 .. N + 1, TurnsOn(wire'[i]) PROVE Announced(i - 1)'
  <2>1. i - 1 \in 0 .. N
    BY <1>1
  <2>2. CASE i = N + 1
    <3>1. i - 1 = N
      BY <1>1, <2>2
    <3>. QED BY <1>1, <1>2, <1>3, <1>4, <2>1, <2>2, <3>1
  <2>3. CASE i # N + 1
    <3>1. i \in DOMAIN wire /\ wire'[i] = wire[i]
      BY <1>1, <2>3
    <3>. QED BY <1>3, <1>4, <2>1, <3>1 DEF ConfigInv
  <2>. QED BY <2>2, <2>3
<1>. QED BY <1>1, <1>4

\* A step of the program keeps the order, if it writes nothing or something that
\* does not switch the audio on or follows the configuration, and if it goes to
\* write the configuration with one, and to switch the audio on behind it.
LEMMA ConfigStep ==
  ASSUME Inv, ConfigInv, modem' = modem, faults' \in Nat, Told => Told',
         \/ wire' = wire
         \/ \E w : wire' = Append(wire, w) /\ (TurnsOn(w) => Announced(Len(wire))),
         step' = "config" => Told' \/ Names(usb_cfg', "1"),
         (step' = "config" /\ op'.st # "idle") \/ (step' = "audio on" /\ op'.st = "idle") => Announced(Len(wire))'
  PROVE  ConfigInv'
<1>1. ConfigInv /\ (Told => Told')
  OBVIOUS
<1>2. CASE wire' = wire
  BY <1>1, <1>2 DEF ConfigInv, Announced
<1>3. ASSUME NEW w, wire' = Append(wire, w), TurnsOn(w) => Announced(Len(wire)) PROVE ConfigInv'
  BY <1>1, <1>3, AnnouncedBehind DEF ConfigInv
<1>. QED BY <1>2, <1>3

\* A step that leaves the wire alone and has nothing to do with the two commands.
LEMMA ElsewhereKeeps ==
  ASSUME Inv, ConfigInv, UNCHANGED <<wire, modem>>, faults' \in Nat, Told => Told',
         step' \notin {"config", "audio on"}
  PROVE  ConfigInv'
BY ConfigStep

\* One that writes another command.
LEMMA SilentWriteKeeps ==
  ASSUME Inv, ConfigInv, faults' = faults, NEW w, ~TurnsOn(w), Write(w), step' \notin {"config", "audio on"}
  PROVE  ConfigInv'
<1>1. modem' = modem /\ wire' = Append(wire, w) /\ faults' \in Nat /\ (Told => Told')
  BY DEF Write, ConfigInv, Told
<1>. QED BY <1>1, ConfigStep

\* Execute elsewhere.
LEMMA SilentExecuteKeeps ==
  ASSUME Inv, ConfigInv, faults' = faults, NEW at, at \notin {"config", "audio on"},
         NEW r, ToString(r) \in Seq(Silent),
         NEW next, next \notin {"config", "audio on"},
         ExecuteWrites(at, r) \/ ExecuteReturns(at, next) \/ ExecuteEnds(at)
  PROVE  ConfigInv'
<1>1. faults' \in Nat /\ (modem' = modem => (Told => Told'))
  BY DEF ConfigInv, Told
<1>2. CASE ExecuteWrites(at, r)
  BY <1>2, SilentWriteKeeps, SilentTokens DEF ExecuteWrites
<1>3. CASE ExecuteReturns(at, next)
  BY <1>1, <1>3, ElsewhereKeeps DEF ExecuteReturns, device
<1>4. CASE ExecuteEnds(at)
  BY <1>1, <1>4, ElsewhereKeeps DEF ExecuteEnds, Exit, device
<1>. QED BY <1>2, <1>3, <1>4

\* A read that has begun is no longer idle.
LEMMA SearchIsBusy ==
  ASSUME NEW b, SearchOn(b)
  PROVE  op'.st # "idle"
BY DEF SearchOn, Search

\* What send-sms, rcv-sms and the queries do.
LEMMA OthersKeepConfig ==
  ASSUME Inv, ConfigInv, faults' = faults,
         \/ SendSmsActs \/ ReceiveSmsActs
         \/ QueryActs /\ subcommand \in {"at_ok", "ati", "at+cops"}
  PROVE  ConfigInv'
<1>. USE SilentCommands, SilentArguments
<1>0. faults' \in Nat /\ (modem' = modem => (Told => Told'))
  BY DEF ConfigInv, Told
<1>. DEFINE Elsewhere == UNCHANGED <<wire, modem>> /\ step' \notin {"config", "audio on"}
<1>1. Elsewhere => ConfigInv'
  BY <1>0, ElsewhereKeeps
<1>2. CASE SendSmsOpened \/ PromptRead
  <2>1. Elsewhere
    BY <1>2 DEF SendSmsOpened, Opens, PromptRead, ReadEnds, Exit, device
  <2>. QED BY <1>1, <2>1
<1>3. CASE SendSmsCmgfExecuted
  BY <1>3, SilentExecuteKeeps DEF SendSmsCmgfExecuted
<1>4. CASE SendSmsCscsExecuted
  BY <1>4, SilentExecuteKeeps DEF SendSmsCscsExecuted
<1>5. CASE CmgsWritten
  BY <1>5, SilentWriteKeeps, SilentTokens DEF CmgsWritten
<1>6. CASE TextWritten
  <2>1. <<SUB>> \in Seq(Silent)
    BY SilentTokens, Single
  <2>2. TextToString(SmsText) \in Seq(Silent)
    BY <2>1, ConcatProperties DEF TextToString
  <2>. QED BY <1>6, <2>2, SilentWriteKeeps, SilentTokens DEF TextWritten, Exit
<1>7. CASE ReceiveSmsOpened \/ SmsListeningStarts \/ NoSmsRead \/ SmsRead
  <2>1. Elsewhere
    BY <1>7 DEF ReceiveSmsOpened, Opens, SmsListeningStarts, NoSmsRead, SmsRead, ReadsAgain, ReadEnds, Exit, device
  <2>. QED BY <1>1, <2>1
<1>8. CASE ReceiveSmsCmgfExecuted
  BY <1>8, SilentExecuteKeeps DEF ReceiveSmsCmgfExecuted
<1>9. CASE ReceiveSmsCscsExecuted
  BY <1>9, SilentExecuteKeeps DEF ReceiveSmsCscsExecuted
<1>10. CASE CnmiExecuted
  BY <1>10, SilentExecuteKeeps DEF CnmiExecuted
<1>11. CASE (QueryOpened \/ CopsRead) /\ subcommand \in {"at_ok", "ati", "at+cops"}
  <2>1. Elsewhere
    BY <1>11 DEF QueryOpened, Opens, CopsRead, Exit, device
  <2>. QED BY <1>1, <2>1
<1>12. CASE AtOk
  BY <1>12, SilentExecuteKeeps DEF AtOk
<1>13. CASE Ati
  BY <1>13, SilentExecuteKeeps DEF Ati
<1>14. CASE CopsWritten
  BY <1>14, SilentWriteKeeps, SilentTokens DEF CopsWritten
<1>. QED BY <1>2, <1>3, <1>4, <1>5, <1>6, <1>7, <1>8, <1>9, <1>10, <1>11, <1>12, <1>13, <1>14
         DEF SendSmsActs, ReceiveSmsActs, QueryActs

\* The configuration a call takes has its flag on, if it has a value.
LEMMA FlagIsOn ==
  ASSUME NEW cfg \in Seq(Char), FlagOn(cfg) # <<>>
  PROVE  Names(FlagOn(cfg), "1")
<1>1. Len(cfg) \in Nat /\ DOMAIN cfg = 1 .. Len(cfg)
  BY LenProperties
<1>2. CASE cfg = <<>>
  <2>1. FlagOn(cfg) \in [{} -> Char]
    BY <1>2, EmptySeq DEF FlagOn
  <2>2. FlagOn(cfg) = <<>>
    BY <2>1
  <2>. QED BY <2>2
<1>3. CASE cfg # <<>>
  <2>1. Len(cfg) \in 1 .. Len(cfg)
    BY <1>1, <1>3, EmptySeq
  <2>2. Len(cfg) \in DOMAIN FlagOn(cfg) /\ FlagOn(cfg)[Len(cfg)] = "1"
    BY <1>1, <2>1 DEF FlagOn
  <2>. QED BY <2>2 DEF Names
<1>. QED BY <1>2, <1>3

\* What was written last is the end of the wire.
LEMMA WireEnd ==
  ASSUME Inv, NEW w, wire' = Append(wire, w)
  PROVE  Len(wire') # 0 /\ wire'[Len(wire')] = w
<1>. DEFINE N == Len(wire)
            M == Len(wire')
<1>1. N \in Nat /\ M = N + 1 /\ wire'[N + 1] = w
  BY WireAppend
<1>. HIDE DEF N, M
<1>2. M # 0 /\ wire'[M] = w
  BY <1>1
<1>. QED BY <1>2 DEF M

\* The line a call takes for the configuration is made of what the modem sent.
LEMMA FirstLineHasATail ==
  ASSUME Inv', UrcReceived(msg')
  PROVE  Tail(msg'.body[1]) \in Seq(Char)
<1>. DEFINE S == Seq(Char)
            b == msg'.body
<1>1. b \in Seq(S) /\ b # <<>> /\ b[1] # <<>>
  BY DEF UrcReceived, FrontIs, Response, Inv, SessionInv, SessionType
<1>. HIDE DEF b, S
<1>2. b[1] \in S
  BY <1>1, EmptySeq, LenProperties, ElementOfSeq
<1>3. Tail(b[1]) \in Seq(Char)
  BY <1>1, <1>2, HeadTailProperties DEF S
<1>. QED BY <1>3 DEF b

\* What make-call and rcv-call do, if the line they take for the configuration
\* has a value.
LEMMA VoiceCallKeepsConfig ==
  ASSUME Inv, Inv', ConfigInv, faults' = faults, VoiceCallActs,
         step = "listen" /\ step' = "config" /\ op.st = "matched" => usb_cfg' # <<>>
  PROVE  ConfigInv'
<1>. USE SilentCommands, SilentArguments
<1>0. /\ faults' \in Nat /\ (modem' = modem => (Told => Told'))
      /\ usb_cfg \in Seq(Char)
  BY DEF ConfigInv, Told, Inv
<1>. DEFINE Elsewhere == UNCHANGED <<wire, modem>> /\ step' \notin {"config", "audio on"}
<1>1. Elsewhere => ConfigInv'
  BY <1>0, ElsewhereKeeps
<1>2. CASE VoiceCallOpened \/ QcfgListeningStarts \/ NoQcfgRead \/ CallAwaited
  <2>1. Elsewhere
    BY <1>2 DEF VoiceCallOpened, Opens, QcfgListeningStarts, NoQcfgRead, CallAwaited, ReadsAgain, device
  <2>. QED BY <1>1, <2>1
<1>3. CASE QueryExecuted
  BY <1>3, SilentExecuteKeeps DEF QueryExecuted
<1>4. CASE QcfgRead
  <2>1. /\ UNCHANGED <<wire, modem>> /\ step' = "config" /\ op' = Idle
        /\ usb_cfg' = FlagOn(Tail(msg'.body[1])) /\ UrcReceived(msg') /\ usb_cfg' # <<>>
    BY <1>4 DEF QcfgRead, ReadEnds, device
  <2>4. Tail(msg'.body[1]) \in Seq(Char)
    BY <2>1, FirstLineHasATail
  <2>5. Names(usb_cfg', "1")
    BY <2>1, <2>4, FlagIsOn
  <2>. QED BY <1>0, <2>1, <2>5, ConfigStep DEF Idle
<1>5. CASE ConfigExecuted
  <2>1. CASE ExecuteWrites("config", make_at_qcfg_write(usb_cfg))
    <3>. DEFINE w == ToString(make_at_qcfg_write(usb_cfg))
    <3>1. /\ step = "config" /\ step' = "config" /\ modem' = modem /\ usb_cfg' = usb_cfg
          /\ wire' = Append(wire, w)
      BY <1>5, <2>1 DEF ConfigExecuted, ExecuteWrites, Write
    <3>2. Told \/ Names(usb_cfg, "1")
      BY <3>1 DEF ConfigInv
    <3>3. ~TurnsOn(w)
      BY <1>0, SilentTokens
    <3>4. Names(usb_cfg, "1") => IsConfig(w)
      BY <1>0, ConfigCommand
    <3>. HIDE DEF w
    <3>6. Len(wire') # 0 /\ wire'[Len(wire')] = w
      BY <3>1, WireEnd
    <3>7. Announced(Len(wire))'
      BY <1>0, <3>1, <3>2, <3>4, <3>6 DEF Announced
    <3>. QED BY <1>0, <3>1, <3>2, <3>3, <3>7, ConfigStep
  <2>2. CASE ExecuteReturns("config", "audio on")
    <3>1. /\ step = "config" /\ op.st = "matched" /\ step' = "audio on" /\ UNCHANGED <<wire, modem>>
      BY <2>2 DEF ExecuteReturns, device
    <3>2. Announced(Len(wire))
      BY <3>1 DEF ConfigInv
    <3>3. Announced(Len(wire))'
      BY <1>0, <3>1, <3>2 DEF Announced
    <3>. QED BY <1>0, <3>1, <3>3, ConfigStep
  <2>. QED BY <1>5, <2>1, <2>2 DEF ConfigExecuted
<1>6. CASE AudioOnExecuted
  <2>1. CASE ExecuteWrites("audio on", make_at_qpcmv_write(<<"1,2">>))
    <3>1. /\ step = "audio on" /\ step' = "audio on" /\ op = Idle /\ modem' = modem /\ SearchOn(Fresh)
          /\ wire' = Append(wire, ToString(make_at_qpcmv_write(<<"1,2">>)))
      BY <2>1 DEF ExecuteWrites, Write
    <3>2. Announced(Len(wire))
      BY <3>1 DEF ConfigInv, Idle
    <3>3. op'.st # "idle"
      BY <3>1, SearchIsBusy
    <3>. QED BY <1>0, <3>1, <3>2, <3>3, ConfigStep
  <2>2. CASE ExecuteReturns("audio on", "cscs")
    <3>1. Elsewhere
      BY <2>2 DEF ExecuteReturns, device
    <3>. QED BY <1>1, <3>1
  <2>. QED BY <1>6, <2>1, <2>2 DEF AudioOnExecuted
<1>7. CASE VoiceCallCscsExecuted
  <2>1. (IF subcommand = "rcv-call" THEN "wait" ELSE "dial") \notin {"config", "audio on"}
    OBVIOUS
  <2>. QED BY <1>7, <2>1, SilentExecuteKeeps DEF VoiceCallCscsExecuted
<1>8. CASE DialExecuted
  BY <1>8, SilentExecuteKeeps DEF DialExecuted
<1>9. CASE HangUpExecuted
  BY <1>9, SilentExecuteKeeps DEF HangUpExecuted
<1>10. CASE AudioOffExecuted
  <2>1. CASE ExecuteWrites("audio off", make_at_qpcmv_write(<<"0">>))
    BY <2>1, SilentWriteKeeps, OffIsSilent DEF ExecuteWrites
  <2>2. CASE ExecuteEnds("audio off")
    <3>1. Elsewhere
      BY <2>2 DEF ExecuteEnds, Exit, device
    <3>. QED BY <1>1, <3>1
  <2>. QED BY <1>10, <2>1, <2>2 DEF AudioOffExecuted
<1>. QED BY <1>2, <1>3, <1>4, <1>5, <1>6, <1>7, <1>8, <1>9, <1>10 DEF VoiceCallActs

\* The modem takes a piece: what comes behind it is as well announced as before.
LEMMA ModemKeepsAnnounced ==
  ASSUME Inv, ConfigInv, ModemAccepts, ~Told', faults' = faults
  PROVE  /\ \A n \in 1 .. Len(wire) : Announced(n) => Announced(n - 1)'
         /\ modem'.pcm => modem.pcm
<1>. DEFINE N == Len(wire)
            w == Head(wire)
            S == Seq(Written)
<1>1. wire # <<>> /\ wire' = Tail(wire) /\ modem' = Taken(w) /\ modem \in ModemType /\ wire \in Seq(S)
  BY DEF ModemAccepts, Inv, SessionInv, SessionType
<1>2. modem.text => modem'.text = ~Names(w, SUB) /\ modem'.flag = modem.flag /\ modem'.refused = modem.refused
                    /\ modem'.pcm = modem.pcm
  BY <1>1 DEF Taken, ModemType
<1>3. ~modem.text => /\ modem'.refused = modem.refused
                     /\ modem'.flag = (modem.flag \/ (Names(w, "QCFG") /\ Names(w, "1")))
                     /\ modem'.pcm = IF Names(w, "QPCMV") THEN Names(w, "1,2") ELSE modem.pcm
  BY <1>1 DEF Taken, ModemType
<1>. HIDE DEF S
<1>4. /\ N \in Nat \ {0} /\ w = wire[1] /\ wire' \in Seq(S) /\ Len(wire') = N - 1
      /\ \A i \in 1 .. N - 1 : wire'[i] = wire[i + 1]
      /\ 1 \in DOMAIN wire
  BY <1>1, EmptySeq, LenProperties, HeadTailProperties
<1>. HIDE DEF N
<1>5. ~Told
  <2>1. modem.flag => modem'.flag
    BY <1>2, <1>3
  <2>2. modem.refused => modem'.refused
    BY <1>2, <1>3
  <2>. QED BY <2>1, <2>2 DEF Told
<1>6. ASSUME NEW n \in 1 .. N, Announced(n) PROVE Announced(n - 1)'
  <2>1. IsConfig(wire[n])
    BY <1>4, <1>5, <1>6 DEF Announced
  <2>2. CASE n = 1
    <3>1. IsConfig(w)
      BY <1>4, <2>1, <2>2
    <3>2. modem.text
      BY <1>3, <3>1 DEF IsConfig, Told
    <3>3. modem'.text
      BY <1>2, <3>1, <3>2 DEF IsConfig
    <3>. QED BY <2>2, <3>3 DEF Announced
  <2>3. CASE n # 1
    <3>1. n - 1 \in 1 .. N - 1 /\ n - 1 + 1 = n
      BY <1>4, <2>3
    <3>2. wire'[n - 1] = wire[n - 1 + 1] /\ n - 1 # 0
      BY <1>4, <3>1
    <3>. QED BY <2>1, <3>1, <3>2 DEF Announced
  <2>. QED BY <2>2, <2>3
<1>7. modem'.pcm => modem.pcm
  <2>1. CASE modem.text
    BY <1>2, <2>1
  <2>2. CASE ~modem.text
    <3>1. ~Announced(1 - 1)
      BY <1>5, <2>2 DEF Announced
    <3>2. ~TurnsOn(w)
      BY <1>4, <3>1 DEF ConfigInv
    <3>. QED BY <1>3, <2>2, <3>2 DEF TurnsOn
  <2>. QED BY <2>1, <2>2
<1>. QED BY <1>6, <1>7 DEF N

\* The modem answers, refuses or speaks.
LEMMA ModemKeepsConfig ==
  ASSUME Inv, ConfigInv, ModemActs, UNCHANGED <<faults, usb_cfg>>
  PROVE  ConfigInv'
<1>0. faults' \in Nat /\ UNCHANGED <<step, op>>
  BY DEF ConfigInv, ModemActs, program
<1>1. CASE ModemAccepts
  <2>1. CASE Told'
    BY <1>0, <2>1, ToldIsEnough
  <2>2. CASE ~Told'
    <3>. DEFINE N == Len(wire)
                S == Seq(Written)
    <3>1. wire # <<>> /\ wire' = Tail(wire) /\ wire \in Seq(S)
      BY <1>1 DEF ModemAccepts, Inv, SessionInv, SessionType
    <3>2. /\ \A n \in 1 .. N : Announced(n) => Announced(n - 1)'
          /\ modem'.pcm => modem.pcm
      BY <1>1, <2>2, ModemKeepsAnnounced
    <3>3. ~Told
      BY <1>1, <2>2 DEF ModemAccepts, Taken, Told, Inv, SessionInv, SessionType, ModemType
    <3>. HIDE DEF S
    <3>4. /\ N \in Nat \ {0} /\ wire' \in Seq(S) /\ Len(wire') = N - 1
          /\ \A i \in 1 .. N - 1 : wire'[i] = wire[i + 1]
          /\ DOMAIN wire' = 1 .. N - 1 /\ DOMAIN wire = 1 .. N
      BY <3>1, EmptySeq, LenProperties, HeadTailProperties
    <3>. HIDE DEF N
    <3>5. ASSUME NEW i \in 1 .. N - 1, TurnsOn(wire'[i]) PROVE Announced(i - 1)'
      <4>1. PICK j \in DOMAIN wire : i \in 1 .. N /\ j - 1 = i /\ wire'[i] = wire[j]
        BY <3>4
      <4>2. Announced(j - 1)
        BY <3>5, <4>1 DEF ConfigInv
      <4>. QED BY <3>2, <4>1, <4>2
    <3>6. Announced(N) => Announced(Len(wire))'
      <4>1. PICK n \in 1 .. N : n = N /\ n - 1 = Len(wire')
        BY <3>4
      <4>2. Announced(n) => Announced(n - 1)'
        BY <3>2
      <4>. QED BY <4>1, <4>2 DEF Announced
    <3>7. step' = "config" => Told' \/ Names(usb_cfg', "1")
      BY <1>0, <3>3 DEF ConfigInv
    <3>8. (step' = "config" /\ op'.st # "idle") \/ (step' = "audio on" /\ op'.st = "idle") => Announced(Len(wire))'
      BY <1>0, <3>6 DEF ConfigInv, N
    <3>9. modem'.pcm => Told'
      BY <3>2, <3>3 DEF ConfigInv
    <3>. QED BY <1>0, <3>4, <3>5, <3>7, <3>8, <3>9 DEF ConfigInv
  <2>. QED BY <2>1, <2>2
<1>2. CASE ModemRefuses
  <2>1. Told'
    BY <1>2 DEF ModemRefuses, Told, Inv, SessionInv, SessionType, ModemType
  <2>. QED BY <1>0, <2>1, ToldIsEnough
<1>3. CASE ModemNotifies
  <2>1. UNCHANGED <<wire, modem>>
    BY <1>3 DEF ModemNotifies
  <2>. QED BY <1>0, <2>1 DEF ConfigInv, Announced, Told
<1>. QED BY <1>1, <1>2, <1>3 DEF ModemActs

-----------------------------------------------------------------------------
\* No call has the audio on when the modem is switched on.
LEMMA InitConfig == Init => ConfigInv
BY EmptySeq DEF Init, Started, ConfigInv, PowerUp

\* The configuration a call takes has a value (ConfigHasAValue, at this step).
HasAValue == step = "listen" /\ step' = "config" /\ op.st = "matched" => usb_cfg' # <<>>

\* One step of the program, of the device or of the modem.
LEMMA NextConfig == Inv /\ Inv' /\ ConfigInv /\ [Next]_vars /\ [HasAValue]_vars => ConfigInv'
<1>. SUFFICES ASSUME Inv, Inv', ConfigInv, [Next]_vars, [HasAValue]_vars PROVE ConfigInv'
  OBVIOUS
<1>1. CASE UNCHANGED vars
  BY <1>1 DEF vars, device, program, calls, ConfigInv, Announced, Told
<1>2. CASE Runs
  <2>1. faults' = faults
    BY <1>2 DEF Runs
  <2>2. CASE VoiceCallActs
    <3>1. HasAValue \/ ConfigInv'
      BY <1>1
    <3>. QED BY <2>1, <2>2, <3>1, VoiceCallKeepsConfig DEF HasAValue
  <2>. QED BY <1>2, <2>1, <2>2, OthersKeepConfig DEF Runs
<1>3. CASE Fails
  <2>1. faults \in Nat /\ faults' = faults + 1
    BY <1>3 DEF Fails, ConfigInv
  <2>2. faults' \in Nat /\ faults' > 0
    BY <2>1
  <2>3. Told' /\ faults' \in Nat
    BY <2>2 DEF Told
  <2>. QED BY <2>3, ToldIsEnough
<1>4. CASE Receives
  <2>1. UNCHANGED <<wire, modem, step, usb_cfg, faults>>
    BY <1>4 DEF Receives, Arrive, calls
  <2>2. op.st = "waiting" /\ op'.st # "idle"
    <3>1. \E b : SearchOn(b)
      BY <1>4 DEF Receives, Arrive
    <3>. QED BY <1>4, <3>1, SearchIsBusy DEF Receives, Arrive
  <2>. QED BY <2>1, <2>2 DEF ConfigInv, Announced, Told
<1>5. CASE ModemAnswers \/ ModemSpeaksUp
  BY <1>5, ModemKeepsConfig DEF ModemAnswers, ModemSpeaksUp, calls
<1>6. CASE SmsArrives
  <2>1. /\ UNCHANGED <<wire, step, op, usb_cfg, faults>>
        /\ modem'.text = modem.text /\ modem'.pcm = modem.pcm
        /\ modem'.flag = modem.flag /\ modem'.refused = modem.refused
    BY <1>6 DEF SmsArrives, SmsAnnounced, program, calls, Inv, SessionInv, SessionType, ModemType
  <2>. QED BY <2>1 DEF ConfigInv, Announced, Told
<1>7. CASE StartsAgain
  <2>1. UNCHANGED <<wire, modem, faults>> /\ step' = "open"
    BY <1>7 DEF StartsAgain, StartsOver, device
  <2>. QED BY <2>1 DEF ConfigInv, Announced, Told
<1>. QED BY <1>1, <1>2, <1>3, <1>4, <1>5, <1>6, <1>7 DEF Next

\* The modem only has the audio on if it was told to allow it, or has refused a
\* command, or a read failed (do_make_vcall.cpp, do_receive_vcall.cpp), whatever
\* programs were killed or run before, as long as the line that a call takes for
\* its configuration has a value.
THEOREM AudioIsConfigured == Spec /\ ConfigHasAValue => []ConfiguredFirst
<1>1. ConfigInv => ConfiguredFirst
  BY DEF ConfigInv, ConfiguredFirst, Told
<1>2. ConfigHasAValue <=> [][HasAValue]_vars
  BY DEF ConfigHasAValue, HasAValue
<1>. QED BY <1>1, <1>2, InitConfig, NextConfig, PromptsAreKept, PTL DEF Spec

-----------------------------------------------------------------------------
(***************************************************************************)
(* One command at a time.  What the modem answers is either read as a      *)
(* whole, however its bytes trickle in, or, when it tells its              *)
(* configuration, as a whole in two reads.                                 *)
(***************************************************************************)
OneRead(t)  == \A k \in 0 .. Len(t) : Matched(SubSeq(t, 1, k)) => k = Len(t)
TwoReads(t) == \A k \in 0 .. Len(t) : Matched(SubSeq(t, 1, k)) => OneRead(SubSeq(t, k + 1, Len(t)))

\* A response ends with a line terminator, or is a prompt.
LEMMA MatchHasAnEnd ==
  ASSUME NEW S, NEW s \in Seq(S), Matched(s)
  PROVE  EolAt(s, 1) /\ (At(s, 3, {PROMPT}) \/ \E j \in 4 .. Len(s) - 1 : EolAt(s, j))
<1>1. EolAt(s, 1)
  BY MatchedStartsWithEol
<1>2. CASE FinalAt(s, 1)
  <2>1. CodeEnd(s, 1) \in 1 + 3 .. Len(s) - 1 /\ EolAt(s, CodeEnd(s, 1))
    BY <1>2, FinalProperties DEF FinalAt
  <2>. QED BY <1>1, <2>1
<1>3. CASE HasLines(s)
  <2>1. 3 \in 1 .. Len(s) + 1 /\ LineAt(s, 3)
    BY <1>3, HasLinesProperties DEF HasLines
  <2>2. TextEnd(s, 3) \in 3 + 1 .. Len(s) - 1 /\ EolAt(s, TextEnd(s, 3))
    BY <2>1, LineProperties
  <2>. QED BY <1>1, <2>2
<1>4. CASE HasPrompt(s)
  BY <1>1, <1>4 DEF HasPrompt
<1>. QED BY <1>2, <1>3, <1>4 DEF Matched

\* The same for the beginning of what the modem says.
LEMMA PrefixHasAnEnd ==
  ASSUME NEW S, NEW t \in Seq(S), NEW k \in 0 .. Len(t), Matched(SubSeq(t, 1, k))
  PROVE  /\ EolAt(t, 1) /\ k >= 3
         /\ At(t, 3, {PROMPT}) \/ \E j \in 4 .. k - 1 : EolAt(t, j)
<1>. DEFINE s == SubSeq(t, 1, k)
<1>1. s \in Seq(S) /\ Len(s) = k /\ (\A i \in 1 .. k : s[i] = t[i]) /\ Len(t) \in Nat /\ k \in Nat
  BY PrefixProperties
<1>2. Matched(s)
  OBVIOUS
<1>. HIDE DEF s
<1>3. DOMAIN s = 1 .. k /\ DOMAIN t = 1 .. Len(t)
  BY <1>1, LenProperties
<1>4. \A i, C : At(s, i, C) => At(t, i, C) /\ i \in 1 .. k
  BY <1>1, <1>3 DEF At
<1>5. \A i : EolAt(s, i) => EolAt(t, i)
  BY <1>4 DEF EolAt
<1>6. k >= 3
  BY <1>1, <1>2, MatchLenProperties
<1>. QED BY <1>1, <1>2, <1>4, <1>5, <1>6, MatchHasAnEnd

\* What has no line terminator but at its ends is read as a whole, if at all.
LEMMA IsOneRead ==
  ASSUME NEW S, NEW t \in Seq(S),
         EolAt(t, 1) => /\ At(t, 3, {PROMPT}) => Len(t) = 3
                        /\ \A j \in 4 .. Len(t) - 2 : ~EolAt(t, j)
  PROVE  OneRead(t)
<1>. SUFFICES ASSUME NEW k \in 0 .. Len(t), Matched(SubSeq(t, 1, k)) PROVE k = Len(t)
  BY DEF OneRead
<1>. DEFINE L == Len(t)
<1>1. L \in Nat /\ k \in 0 .. L
  BY LenProperties
<1>2. EolAt(t, 1) /\ k >= 3 /\ (At(t, 3, {PROMPT}) \/ \E j \in 4 .. k - 1 : EolAt(t, j))
  BY PrefixHasAnEnd
<1>3. (At(t, 3, {PROMPT}) => L = 3) /\ \A j \in 4 .. L - 2 : ~EolAt(t, j)
  BY <1>2
<1>. HIDE DEF L
<1>4. ASSUME NEW j \in 4 .. k - 1, EolAt(t, j) PROVE k = L
  <2>1. j \notin 4 .. L - 2
    BY <1>3, <1>4
  <2>. QED BY <1>1, <2>1
<1>5. At(t, 3, {PROMPT}) => k = L
  BY <1>1, <1>2, <1>3
<1>. QED BY <1>2, <1>4, <1>5 DEF L

\* What follows the first k bytes.
LEMMA SuffixLooksTheSame ==
  ASSUME NEW S, NEW t \in Seq(S), NEW k \in 0 .. Len(t)
  PROVE  LET u == SubSeq(t, k + 1, Len(t)) IN
         /\ u \in Seq(S) /\ Len(u) = Len(t) - k
         /\ \A C : \A i \in Nat \ {0} : At(u, i, C) => At(t, k + i, C)
         /\ \A i \in Nat \ {0} : EolAt(u, i) => EolAt(t, k + i)
<1>. DEFINE u == SubSeq(t, k + 1, Len(t))
<1>1. u \in Seq(S) /\ Len(u) = Len(t) - k /\ (\A i \in 1 .. Len(t) - k : u[i] = t[k + i]) /\ Len(t) \in Nat
  BY Cut
<1>. HIDE DEF u
<1>2. DOMAIN u = 1 .. Len(t) - k /\ DOMAIN t = 1 .. Len(t)
  BY <1>1, LenProperties
<1>3. ASSUME NEW i \in Nat \ {0}, NEW C, At(u, i, C) PROVE At(t, k + i, C)
  <2>1. i \in 1 .. Len(t) - k /\ u[i] \in C
    BY <1>2, <1>3 DEF At
  <2>2. k + i \in 1 .. Len(t) /\ t[k + i] \in C
    BY <1>1, <2>1
  <2>. QED BY <1>2, <2>2 DEF At
<1>4. ASSUME NEW i \in Nat \ {0}, EolAt(u, i) PROVE EolAt(t, k + i)
  <2>1. At(u, i, {CR}) /\ At(u, i + 1, {LF}) /\ i + 1 \in Nat \ {0}
    BY <1>4 DEF EolAt
  <2>2. At(t, k + i, {CR}) /\ At(t, k + (i + 1), {LF}) /\ k + (i + 1) = k + i + 1
    BY <1>3, <2>1
  <2>. QED BY <2>2 DEF EolAt
<1>. QED BY <1>1, <1>3, <1>4 DEF u

\* Two messages that are read as a whole are read in two, if the first is not
\* empty and ends with a line terminator.
LEMMA IsTwoReads ==
  ASSUME NEW S, NEW t \in Seq(S), NEW m \in 4 .. Len(t) - 3,
         EolAt(t, 1), EolAt(t, m), EolAt(t, m + 2), ~At(t, 3, {PROMPT}), ~At(t, m + 4, {PROMPT}),
         \A j \in 4 .. Len(t) - 2 : EolAt(t, j) => j \in {m, m + 2}
  PROVE  TwoReads(t)
<1>. SUFFICES ASSUME NEW k \in 0 .. Len(t), Matched(SubSeq(t, 1, k)) PROVE OneRead(SubSeq(t, k + 1, Len(t)))
  BY DEF TwoReads
<1>. DEFINE u == SubSeq(t, k + 1, Len(t))
<1>1. /\ u \in Seq(S) /\ Len(u) = Len(t) - k /\ Len(t) \in Nat
      /\ \A C : \A i \in Nat \ {0} : At(u, i, C) => At(t, k + i, C)
      /\ \A i \in Nat \ {0} : EolAt(u, i) => EolAt(t, k + i)
  BY SuffixLooksTheSame
<1>. HIDE DEF u
<1>2. k >= m + 1
  <2>1. PICK j \in 4 .. k - 1 : EolAt(t, j)
    BY PrefixHasAnEnd
  <2>2. j >= m
    <3>1. CASE j <= Len(t) - 2
      BY <1>1, <2>1, <3>1
    <3>2. CASE ~(j <= Len(t) - 2)
      BY <1>1, <3>2
    <3>. QED BY <3>1, <3>2
  <2>. QED BY <2>1, <2>2
<1>3. CASE ~EolAt(u, 1)
  BY <1>1, <1>3, IsOneRead DEF u
<1>4. CASE EolAt(u, 1)
  <2>1. EolAt(t, k + 1)
    BY <1>1, <1>4
  <2>2. k = m + 1 \/ k >= Len(t) - 2
    <3>1. CASE k + 1 <= Len(t) - 2
      <4>1. k + 1 \in {m, m + 2}
        BY <1>1, <1>2, <2>1, <3>1
      <4>. QED BY <1>2, <4>1
    <3>2. CASE ~(k + 1 <= Len(t) - 2)
      BY <1>1, <3>2
    <3>. QED BY <3>1, <3>2
  <2>3. ~At(u, 3, {PROMPT})
    <3>1. CASE k = m + 1
      <4>1. k + 3 = m + 4
        BY <3>1
      <4>. QED BY <1>1, <4>1
    <3>2. CASE k >= Len(t) - 2
      <4>1. DOMAIN u = 1 .. Len(u) /\ ~(3 <= Len(u))
        BY <1>1, <3>2, LenProperties
      <4>. QED BY <4>1 DEF At
    <3>. QED BY <2>2, <3>1, <3>2
  <2>4. ASSUME NEW j \in 4 .. Len(u) - 2, EolAt(u, j) PROVE FALSE
    <3>1. EolAt(t, k + j) /\ k + j \in 4 .. Len(t) - 2
      BY <1>1, <2>4
    <3>2. k + j \in {m, m + 2}
      BY <3>1
    <3>. QED BY <1>2, <3>2
  <2>. QED BY <1>1, <2>3, <2>4, IsOneRead DEF u
<1>. QED BY <1>3, <1>4

\* A text between line terminators.
LEMMA LineTokens ==
  ASSUME NEW S, CR \in S, LF \in S, NEW x \in Seq(S)
  PROVE  /\ Line(x) \in Seq(S) /\ Len(x) \in Nat /\ Len(Line(x)) = Len(x) + 4
         /\ Line(x)[1] = CR /\ Line(x)[2] = LF
         /\ Line(x)[Len(x) + 3] = CR /\ Line(x)[Len(x) + 4] = LF
         /\ \A i \in 1 .. Len(x) : Line(x)[i + 2] = x[i]
<1>. DEFINE L == Len(x)
            e == CRLF
            u == e \o x
            t == Line(x)
<1>1. e \in Seq(S) /\ Len(e) = 2 /\ e[1] = CR /\ e[2] = LF
  BY DEF CRLF
<1>2. L \in Nat /\ t = u \o e
  BY LenProperties DEF Line
<1>. HIDE DEF e
<1>3. u \in Seq(S) /\ Len(u) = 2 + L /\ \A i \in 1 .. 2 + L : u[i] = IF i <= 2 THEN e[i] ELSE x[i - 2]
  <2>1. u \in Seq(S) /\ Len(u) = Len(e) + L /\ \A i \in 1 .. Len(e) + L : u[i] = IF i <= Len(e) THEN e[i] ELSE x[i - Len(e)]
    BY <1>1, ConcatProperties
  <2>. QED BY <1>1, <2>1
<1>. HIDE DEF u, L, t
<1>5. /\ t \in Seq(S) /\ Len(t) = 2 + L + 2
      /\ \A i \in 1 .. 2 + L + 2 : t[i] = IF i <= 2 + L THEN u[i] ELSE e[i - (2 + L)]
  <2>1. /\ t \in Seq(S) /\ Len(t) = Len(u) + Len(e)
        /\ \A i \in 1 .. Len(u) + Len(e) : t[i] = IF i <= Len(u) THEN u[i] ELSE e[i - Len(u)]
    BY <1>1, <1>2, <1>3, ConcatProperties
  <2>. QED BY <1>1, <1>3, <2>1
<1>6. t[1] = CR /\ t[2] = LF
  BY <1>1, <1>2, <1>3, <1>5
<1>7. t[L + 3] = CR /\ t[L + 4] = LF
  <2>1. L + 3 - (2 + L) = 1 /\ L + 4 - (2 + L) = 2 /\ L + 3 \in 1 .. 2 + L + 2 /\ L + 4 \in 1 .. 2 + L + 2
    BY <1>2
  <2>2. ~(L + 3 <= 2 + L) /\ ~(L + 4 <= 2 + L)
    BY <1>2
  <2>3. ASSUME NEW i \in 1 .. 2 + L + 2, ~(i <= 2 + L) PROVE t[i] = e[i - (2 + L)]
    BY <1>5, <2>3
  <2>4. t[L + 3] = e[1] /\ t[L + 4] = e[2]
    <3>. DEFINE i == L + 3
                j == L + 4
    <3>1. t[i] = e[i - (2 + L)] /\ t[j] = e[j - (2 + L)]
      BY <2>1, <2>2, <2>3
    <3>2. i - (2 + L) = 1 /\ j - (2 + L) = 2
      BY <1>2
    <3>. HIDE DEF i, j
    <3>3. t[i] = e[1] /\ t[j] = e[2]
      BY <3>1, <3>2
    <3>. QED BY <3>3 DEF i, j
  <2>. QED BY <1>1, <2>4
<1>8. ASSUME NEW i \in 1 .. L PROVE t[i + 2] = x[i]
  <2>1. i + 2 \in 1 .. 2 + L /\ i + 2 \in 1 .. 2 + L + 2 /\ i + 2 - 2 = i /\ ~(i + 2 <= 2)
    BY <1>2
  <2>. QED BY <1>3, <1>5, <2>1
<1>. QED BY <1>2, <1>5, <1>6, <1>7, <1>8 DEF L, t

\* The same for a text of a known length.
LEMMA ShortLine ==
  ASSUME NEW S, CR \in S, LF \in S, NEW n \in 0 .. 3, NEW x \in Seq(S), Len(x) = n
  PROVE  /\ Line(x) \in Seq(S) /\ Len(Line(x)) = n + 4
         /\ Line(x)[1] = CR /\ Line(x)[2] = LF /\ Line(x)[n + 3] = CR /\ Line(x)[n + 4] = LF
         /\ n >= 1 => Line(x)[3] = x[1]
         /\ n >= 2 => Line(x)[4] = x[2]
         /\ n >= 3 => Line(x)[5] = x[3]
<1>. DEFINE t == Line(x)
<1>1. /\ t \in Seq(S) /\ Len(t) = n + 4 /\ t[1] = CR /\ t[2] = LF
      /\ t[n + 3] = CR /\ t[n + 4] = LF /\ \A i \in 1 .. n : t[i + 2] = x[i]
  BY LineTokens
<1>. HIDE DEF t
<1>2. /\ n >= 1 => t[3] = x[1]
      /\ n >= 2 => t[4] = x[2]
      /\ n >= 3 => t[5] = x[3]
  <2>1. /\ n >= 1 => 1 \in 1 .. n
        /\ n >= 2 => 2 \in 1 .. n
        /\ n >= 3 => 3 \in 1 .. n
    OBVIOUS
  <2>2. 1 + 2 = 3 /\ 2 + 2 = 4 /\ 3 + 2 = 5
    OBVIOUS
  <2>. QED BY <1>1, <2>1, <2>2
<1>. QED BY <1>1, <1>2 DEF t

\* The two ways to tell the configuration, token by token.
LEMMA ConfigurationTokens ==
  LET S == {CR, LF, "+QCFG:", "usb", "0", "OK"}
      r == Line(Configuration) \o Said("OK")
      u == Said("OK") \o Line(Configuration)
  IN  /\ r \in Seq(S) /\ Len(r) = 12 /\ DOMAIN r = 1 .. 12
      /\ r[1] = CR /\ r[2] = LF /\ r[3] = "+QCFG:" /\ r[4] = "usb" /\ r[5] = "0" /\ r[6] = CR
      /\ r[7] = LF /\ r[8] = CR /\ r[9] = LF /\ r[10] = "OK" /\ r[11] = CR /\ r[12] = LF
      /\ u \in Seq(S) /\ Len(u) = 12 /\ DOMAIN u = 1 .. 12
      /\ u[1] = CR /\ u[2] = LF /\ u[3] = "OK" /\ u[4] = CR /\ u[5] = LF /\ u[6] = CR
      /\ u[7] = LF /\ u[8] = "+QCFG:" /\ u[9] = "usb" /\ u[10] = "0" /\ u[11] = CR /\ u[12] = LF
<1>. DEFINE S == {CR, LF, "+QCFG:", "usb", "0", "OK"}
            x == Configuration
            y == <<"OK">>
<1>0. CR \in S /\ LF \in S
  OBVIOUS
<1>4. x \in Seq(S) /\ Len(x) = 3 /\ x[1] = "+QCFG:" /\ x[2] = "usb" /\ x[3] = "0" /\ y \in Seq(S) /\ Len(y) = 1 /\ y[1] = "OK"
  BY DEF Configuration
<1>5. Said("OK") = Line(y)
  BY DEF Said, Line
<1>. HIDE DEF S, x, y
<1>. DEFINE a == Line(x)
            b == Line(y)
<1>6. /\ a \in Seq(S) /\ Len(a) = 7 /\ a[1] = CR /\ a[2] = LF
      /\ a[6] = CR /\ a[7] = LF /\ a[3] = x[1] /\ a[4] = x[2] /\ a[5] = x[3]
  BY <1>0, <1>4, ShortLine
<1>7. a[3] = "+QCFG:" /\ a[4] = "usb" /\ a[5] = "0"
  BY <1>4, <1>6
<1>8. /\ b \in Seq(S) /\ Len(b) = 5 /\ b[1] = CR /\ b[2] = LF
      /\ b[4] = CR /\ b[5] = LF /\ b[3] = y[1]
  BY <1>0, <1>4, ShortLine
<1>9. b[3] = "OK"
  BY <1>4, <1>8
<1>. HIDE DEF a, b
<1>. DEFINE r == a \o b
            u == b \o a
<1>10. /\ r \in Seq(S) /\ Len(r) = 12
      /\ r[1] = CR /\ r[2] = LF /\ r[3] = "+QCFG:" /\ r[4] = "usb" /\ r[5] = "0" /\ r[6] = CR
      /\ r[7] = LF /\ r[8] = CR /\ r[9] = LF /\ r[10] = "OK" /\ r[11] = CR /\ r[12] = LF
      /\ DOMAIN r = 1 .. 12
  <2>1. /\ r \in Seq(S) /\ Len(r) = 12
        /\ \A i \in 1 .. 12 : r[i] = IF i <= 7 THEN a[i] ELSE b[i - 7]
    <3>1. /\ r \in Seq(S) /\ Len(r) = Len(a) + Len(b)
          /\ \A i \in 1 .. Len(a) + Len(b) : r[i] = IF i <= Len(a) THEN a[i] ELSE b[i - Len(a)]
      BY <1>6, <1>8, ConcatProperties
    <3>. HIDE DEF r
    <3>. QED BY <1>6, <1>8, <3>1
  <2>. HIDE DEF r
  <2>. QED BY <1>6, <1>7, <1>8, <1>9, <2>1, LenProperties
<1>11. /\ u \in Seq(S) /\ Len(u) = 12
      /\ u[1] = CR /\ u[2] = LF /\ u[3] = "OK" /\ u[4] = CR /\ u[5] = LF /\ u[6] = CR
      /\ u[7] = LF /\ u[8] = "+QCFG:" /\ u[9] = "usb" /\ u[10] = "0" /\ u[11] = CR /\ u[12] = LF
      /\ DOMAIN u = 1 .. 12
  <2>1. /\ u \in Seq(S) /\ Len(u) = 12
        /\ \A i \in 1 .. 12 : u[i] = IF i <= 5 THEN b[i] ELSE a[i - 5]
    <3>1. /\ u \in Seq(S) /\ Len(u) = Len(b) + Len(a)
          /\ \A i \in 1 .. Len(b) + Len(a) : u[i] = IF i <= Len(b) THEN b[i] ELSE a[i - Len(b)]
      BY <1>6, <1>8, ConcatProperties
    <3>. HIDE DEF u
    <3>. QED BY <1>6, <1>8, <3>1
  <2>. HIDE DEF u
  <2>. QED BY <1>6, <1>7, <1>8, <1>9, <2>1, LenProperties
<1>. QED BY <1>5, <1>10, <1>11 DEF a, b, x, S

\* What the modem answers to a command, as the program may read it.
LEMMA AnswersAreWhole ==
  /\ OneRead(<<>>)
  /\ \A c \in Codes : OneRead(Said(c))
  /\ OneRead(Prompt)
  /\ TwoReads(Line(Configuration) \o Said("OK"))
  /\ TwoReads(Said("OK") \o Line(Configuration))
<1>. DEFINE S == {CR, LF, "+QCFG:", "usb", "0", "OK"}
<1>1. OneRead(<<>>)
  <2>1. <<>> \in Seq(Char) /\ Len(<<>>) = 0
    BY EmptySeq
  <2>. QED BY <2>1 DEF OneRead
<1>2. ASSUME NEW c \in Codes PROVE OneRead(Said(c))
  <2>. DEFINE t == Said(c)
  <2>1. c # PROMPT /\ c # CR
    BY DEF Codes, PlainCodes, ErrorCodes, PROMPT, CR
  <2>. DEFINE z == <<c>>
              C == {CR, LF, c}
  <2>2. CR \in C /\ LF \in C /\ z \in Seq(C) /\ Len(z) = 1 /\ z[1] = c /\ t = Line(z)
    BY DEF Said, Line
  <2>. HIDE DEF z, C, t
  <2>3. Len(t) = 5 /\ t[3] = c /\ t \in Seq(C)
    BY <2>2, ShortLine
  <2>4. ~At(t, 3, {PROMPT})
    BY <2>1, <2>3 DEF At
  <2>5. \A j \in 4 .. Len(t) - 2 : ~EolAt(t, j)
    BY <2>3
  <2>. QED BY <2>3, <2>4, <2>5, IsOneRead DEF t
<1>3. OneRead(Prompt)
  <2>. DEFINE t == Prompt
  <2>. DEFINE u == CRLF
              v == <<PROMPT>>
  <2>1. u \in Seq(Char) /\ Len(u) = 2 /\ v \in Seq(Char) /\ Len(v) = 1 /\ t = u \o v
    BY DEF CRLF, Char, Prompt
  <2>. HIDE DEF t, u, v
  <2>4. t \in Seq(Char) /\ Len(t) = Len(u) + Len(v)
    BY <2>1, ConcatProperties
  <2>2. Len(t) = 3 /\ t \in Seq(Char)
    BY <2>1, <2>4
  <2>3. 4 .. Len(t) - 2 = {}
    BY <2>2
  <2>. QED BY <2>2, <2>3, IsOneRead DEF t
<1>4. TwoReads(Line(Configuration) \o Said("OK"))
  <2>. DEFINE t == Line(Configuration) \o Said("OK")
  <2>1. t \in Seq(S) /\ Len(t) = 12
    BY ConfigurationTokens
  <2>2. /\ t[1] = CR /\ t[2] = LF /\ t[3] = "+QCFG:" /\ t[4] = "usb" /\ t[5] = "0" /\ t[6] = CR
        /\ t[7] = LF /\ t[8] = CR /\ t[9] = LF /\ t[10] = "OK" /\ t[11] = CR /\ t[12] = LF
        /\ DOMAIN t = 1 .. 12
    BY ConfigurationTokens
  <2>. HIDE DEF t
  <2>3. EolAt(t, 1) /\ EolAt(t, 6) /\ EolAt(t, 8)
    BY <2>2 DEF EolAt, At
  <2>4. ~At(t, 3, {PROMPT}) /\ ~At(t, 10, {PROMPT})
    BY <2>2 DEF At, PROMPT
  <2>5. \A j \in 4 .. 10 : EolAt(t, j) => j \in {6, 8}
    <3>1. \A j \in 4 .. 10 : t[j] = CR => j \in {6, 8}
      BY <2>2 DEF CR, LF
    <3>. QED BY <3>1 DEF EolAt, At
  <2>6. 6 \in 4 .. Len(t) - 3 /\ 6 + 2 = 8 /\ 6 + 4 = 10 /\ Len(t) - 2 = 10
    BY <2>1
  <2>. QED BY <2>1, <2>3, <2>4, <2>5, <2>6, IsTwoReads DEF t
<1>5. TwoReads(Said("OK") \o Line(Configuration))
  <2>. DEFINE t == Said("OK") \o Line(Configuration)
  <2>1. t \in Seq(S) /\ Len(t) = 12
    BY ConfigurationTokens
  <2>2. /\ t[1] = CR /\ t[2] = LF /\ t[3] = "OK" /\ t[4] = CR /\ t[5] = LF /\ t[6] = CR
        /\ t[7] = LF /\ t[8] = "+QCFG:" /\ t[9] = "usb" /\ t[10] = "0" /\ t[11] = CR /\ t[12] = LF
        /\ DOMAIN t = 1 .. 12
    BY ConfigurationTokens
  <2>. HIDE DEF t
  <2>3. EolAt(t, 1) /\ EolAt(t, 4) /\ EolAt(t, 6)
    BY <2>2 DEF EolAt, At
  <2>4. ~At(t, 3, {PROMPT}) /\ ~At(t, 8, {PROMPT})
    BY <2>2 DEF At, PROMPT
  <2>5. \A j \in 4 .. 10 : EolAt(t, j) => j \in {4, 6}
    <3>1. \A j \in 4 .. 10 : t[j] = CR => j \in {4, 6, 11}
      BY <2>2 DEF CR, LF
    <3>. QED BY <3>1 DEF EolAt, At
  <2>6. 4 \in 4 .. Len(t) - 3 /\ 4 + 2 = 6 /\ 4 + 4 = 8 /\ Len(t) - 2 = 10
    BY <2>1
  <2>. QED BY <2>1, <2>3, <2>4, <2>5, <2>6, IsTwoReads DEF t
<1>. QED BY <1>1, <1>2, <1>3, <1>4, <1>5

\* A refusal is read as a whole, which is as good as in two reads.
LEMMA RefusalIsWhole == OneRead(Said("ERROR")) /\ TwoReads(Said("ERROR"))
<1>1. OneRead(Said("ERROR"))
  BY AnswersAreWhole DEF Codes, PlainCodes
<1>. DEFINE t == Said("ERROR")
<1>2. t \in Seq({CR, LF, "ERROR"}) /\ Len(t) = 5
  BY DEF Said, CRLF
<1>. HIDE DEF t
<1>3. SubSeq(t, Len(t) + 1, Len(t)) = <<>>
  BY <1>2, EmptySeq, Cut
<1>. QED BY <1>1, <1>3, AnswersAreWhole DEF OneRead, TwoReads, t
-----------------------------------------------------------------------------
\* What the modem answers to the commands of the subcommands.

\* The tokens of the commands that are answered with a code alone.
Literals == {"AT", "S", "=", "+", "=?", "?", "CR", "LF", "H", "D", "CMGF", "CSCS", "CNMI", "QPCMV",
             "1", "GSM", "1,2,0,0,0", "1,2", "0", "{}"}

\* A command names its name and its arguments, and what it names is in it.
LEMMA WriteNames ==
  ASSUME NEW S, {"AT", "S", "=", "+", "=?", "?", "CR", "LF"} \subseteq S, NEW c \in S, NEW a \in Seq(S)
  PROVE  LET w == ToString(Request("write", <<c>>, a)) IN
         /\ w \in Seq(S) /\ \A x : Names(w, x) => x \in S
         /\ Names(w, c)
         /\ \A x : Names(a, x) => Names(w, x)
<1>. DEFINE r == Request("write", <<c>>, a)
            w == ToString(r)
            n == <<c>>
<1>1. r.command = n /\ r.args = a /\ r.form = "write"
  BY DEF Request
<1>2. /\ <<"AT">> \in Seq(S) /\ <<"+">> \in Seq(S) /\ n \in Seq(S) /\ <<"=">> \in Seq(S)
      /\ <<"CR", "LF">> \in Seq(S)
  OBVIOUS
<1>3. Names(n, c)
  BY DEF Names
<1>4. w = <<"AT">> \o (<<"+">> \o n \o <<"=">> \o a) \o <<"CR", "LF">>
  BY <1>1 DEF ToString
<1>. HIDE DEF n
<1>5. w \in Seq(S)
  BY <1>1, <1>2, RequestTokens
<1>. HIDE DEF w, r
<1>6. \A s, t \in Seq(S) : s \o t \in Seq(S) /\ \A x : Names(s \o t, x) <=> Names(s, x) \/ Names(t, x)
  BY ConcatProperties, NamesConcat
<1>7. \A x : Names(n, x) \/ Names(a, x) => Names(w, x)
  <2>1. LET b == <<"+">> \o n
            d == b \o <<"=">>
            e == d \o a
            f == <<"AT">> \o e
        IN  /\ b \in Seq(S) /\ d \in Seq(S) /\ e \in Seq(S) /\ f \in Seq(S)
            /\ \A x : /\ Names(n, x) => Names(b, x)
                      /\ Names(b, x) => Names(d, x)
                      /\ Names(d, x) \/ Names(a, x) => Names(e, x)
                      /\ Names(e, x) => Names(f, x)
            /\ w = f \o <<"CR", "LF">>
    BY <1>2, <1>4, <1>6
  <2>. QED BY <1>2, <1>6, <2>1
<1>8. \A i \in DOMAIN w : w[i] \in S
  BY <1>5, LenProperties, ElementOfSeq
<1>. QED BY <1>3, <1>5, <1>7, <1>8 DEF Names, w, r

\* The question for the configuration.
LEMMA QueryNames ==
  Names(Query, "QCFG") /\ \A x \in {"1", SUB, "CMGS", "I", "COPS"} : ~Names(Query, x)
<1>. DEFINE S == {"AT", "S", "=", "+", "=?", "?", "CR", "LF", "QCFG", "USBCFG"}
            a == <<"USBCFG">>
<1>1. {"AT", "S", "=", "+", "=?", "?", "CR", "LF"} \subseteq S /\ "QCFG" \in S /\ a \in Seq(S)
  OBVIOUS
<1>2. S \cap {"1", SUB, "CMGS", "I", "COPS"} = {}
  BY DEF SUB
<1>3. Query = ToString(Request("write", <<"QCFG">>, a))
  BY DEF Query, make_at_qcfg_write
<1>. HIDE DEF S, a
<1>4. Names(Query, "QCFG") /\ \A x : Names(Query, x) => x \in S
  BY <1>1, <1>3, WriteNames
<1>. QED BY <1>2, <1>4

\* The commands made of literals.
LEMMA LiteralCommands ==
  /\ ToString(make_ath) \in Seq(Literals) /\ ToString(make_atd(<<"{}">>)) \in Seq(Literals)
  /\ ToString(make_at_cmgf_write(<<"1">>)) \in Seq(Literals)
  /\ ToString(make_at_cscs_write(<<"GSM">>)) \in Seq(Literals)
  /\ ToString(make_at_cnmi_write(<<"1,2,0,0,0">>)) \in Seq(Literals)
  /\ ToString(make_at_qpcmv_write(<<"1,2">>)) \in Seq(Literals)
<1>1. /\ {"AT", "S", "=", "+", "=?", "?", "CR", "LF"} \subseteq Literals
      /\ {"H", "D", "CMGF", "CSCS", "CNMI", "QPCMV", "{}", "1", "GSM", "1,2,0,0,0", "1,2"} \subseteq Literals
  BY DEF Literals
<1>. HIDE DEF Literals
<1>2. ASSUME NEW f, NEW c \in {"H", "D", "CMGF", "CSCS", "CNMI", "QPCMV"},
             NEW a \in {<<>>, <<"{}">>, <<"1">>, <<"GSM">>, <<"1,2,0,0,0">>, <<"1,2">>}
      PROVE  ToString(Request(f, <<c>>, a)) \in Seq(Literals)
  <2>1. <<c>> \in Seq(Literals)
    BY <1>1, Single
  <2>2. a \in Seq(Literals)
    <3>1. CASE a = <<>>
      BY <3>1, EmptySeq
    <3>2. CASE a # <<>>
      <4>1. PICK x \in Literals : a = <<x>>
        BY <1>1, <3>2
      <4>. QED BY <4>1, Single
    <3>. QED BY <3>1, <3>2
  <2>3. Request(f, <<c>>, a).command = <<c>> /\ Request(f, <<c>>, a).args = a
    BY DEF Request
  <2>. QED BY <1>1, <2>1, <2>2, <2>3, RequestTokens
<1>. QED BY <1>2 DEF make_ath, make_atd, make_at_cmgf_write, make_at_cscs_write, make_at_cnmi_write,
                     make_at_qpcmv_write

\* Every answer is read as a whole, that to the question for the configuration
\* as a whole in two reads.
LEMMA AnswersToCommands ==
  ASSUME ~modem.text
  PROVE  /\ \A w \in Seq(Literals) : \A a \in Answers(w) : OneRead(a)
         /\ \A a \in Answers(ToString(make_at_cmgs_write(Da))) : OneRead(a)
         /\ \A cfg \in Seq(Char) : Names(cfg, "1") =>
              \A a \in Answers(ToString(make_at_qcfg_write(cfg))) : OneRead(a)
         /\ \A a \in Answers(Query) : TwoReads(a)
<1>1. ASSUME NEW w, ~Names(w, SUB), ~Names(w, "I"), ~Names(w, "COPS"), w # Query
      PROVE  \A a \in Answers(w) : OneRead(a)
  <2>1. Answers(w) \subseteq {Prompt, Said("OK")}
    BY <1>1 DEF Answers
  <2>2. "OK" \in Codes
    BY DEF Codes, PlainCodes
  <2>. QED BY <2>1, <2>2, AnswersAreWhole
<1>2. ASSUME NEW w \in Seq(Literals) PROVE \A a \in Answers(w) : OneRead(a)
  <2>1. \A i \in DOMAIN w : w[i] \in Literals
    BY LenProperties, ElementOfSeq
  <2>2. \A x \in {SUB, "I", "COPS", "QCFG"} : x \notin Literals
    BY DEF Literals, SUB
  <2>3. \A x \in {SUB, "I", "COPS", "QCFG"} : ~Names(w, x)
    BY <2>1, <2>2 DEF Names
  <2>. QED BY <1>1, <2>3, QueryNames
<1>3. \A a \in Answers(ToString(make_at_cmgs_write(Da))) : OneRead(a)
  <2>. DEFINE w == ToString(make_at_cmgs_write(Da))
  <2>1. w \in Seq(Quiet)
    BY Arguments, QuietCommands
  <2>2. Names(w, "CMGS")
    <3>1. "CMGS" \in Quiet /\ {"AT", "S", "=", "+", "=?", "?", "CR", "LF"} \subseteq Quiet /\ Other \subseteq Quiet
      BY DEF Quiet, Other
    <3>2. Da \in Seq(Quiet)
      BY <3>1, Arguments, SeqMonotonic
    <3>. QED BY <3>1, <3>2, WriteNames DEF make_at_cmgs_write
  <2>. HIDE DEF w
  <2>3. \A i \in DOMAIN w : w[i] \in Quiet
    BY <2>1, LenProperties, ElementOfSeq
  <2>4. ~Names(w, SUB)
    BY <2>3, Tokens DEF Names
  <2>5. Answers(w) = {Prompt}
    BY <2>2, <2>4 DEF Answers
  <2>. QED BY <2>5, AnswersAreWhole DEF w
<1>4. ASSUME NEW cfg \in Seq(Char), Names(cfg, "1")
      PROVE  \A a \in Answers(ToString(make_at_qcfg_write(cfg))) : OneRead(a)
  <2>. DEFINE S == Char \cup {"AT", "S", "=", "+", "=?", "?", "CR", "LF", "QCFG"}
              w == ToString(make_at_qcfg_write(cfg))
  <2>1. {"AT", "S", "=", "+", "=?", "?", "CR", "LF"} \subseteq S /\ "QCFG" \in S /\ Char \subseteq S
    OBVIOUS
  <2>2. \A x \in {SUB, "I", "COPS"} : x \notin S
    BY ModemAssumption DEF Char, CR, LF, NUL, PROMPT, Codes, PlainCodes, ErrorCodes, SUB
  <2>. HIDE DEF S
  <2>3. cfg \in Seq(S)
    BY <2>1, SeqMonotonic
  <2>4. (\A x : Names(w, x) => x \in S) /\ Names(w, "1")
    BY <1>4, <2>1, <2>3, WriteNames DEF make_at_qcfg_write
  <2>. HIDE DEF w
  <2>5. ~Names(w, SUB) /\ ~Names(w, "I") /\ ~Names(w, "COPS") /\ w # Query
    BY <2>2, <2>4, QueryNames
  <2>. QED BY <1>1, <2>5 DEF w
<1>5. \A a \in Answers(Query) : TwoReads(a)
  <2>1. Answers(Query) \subseteq {Line(Configuration) \o Said("OK"), Said("OK") \o Line(Configuration)}
    BY QueryNames DEF Answers
  <2>. QED BY <2>1, AnswersAreWhole
<1>. QED BY <1>2, <1>3, <1>4, <1>5
-----------------------------------------------------------------------------
\* What was read and what is on its way.

\* The two parts of a concatenation.
LEMMA ConcatParts ==
  ASSUME NEW S, NEW s \in Seq(S), NEW u \in Seq(S)
  PROVE  LET t == s \o u IN
         /\ t \in Seq(S) /\ Len(s) \in 0 .. Len(t)
         /\ SubSeq(t, 1, Len(s)) = s /\ SubSeq(t, Len(s) + 1, Len(t)) = u
         /\ Len(s) = Len(t) => u = <<>>
<1>. DEFINE t == s \o u
            k == Len(s)
            m == Len(u)
            p == SubSeq(t, 1, k)
            q == SubSeq(t, k + 1, Len(t))
<1>1. k \in Nat /\ m \in Nat
  BY LenProperties
<1>2. t \in Seq(S) /\ Len(t) = k + m /\ \A i \in 1 .. k + m : t[i] = IF i <= k THEN s[i] ELSE u[i - k]
  BY ConcatProperties
<1>. HIDE DEF t
<1>3. k \in 0 .. Len(t)
  BY <1>1, <1>2
<1>4. /\ p \in Seq(S) /\ Len(p) = k /\ \A i \in 1 .. k : p[i] = t[i]
      /\ q \in Seq(S) /\ Len(q) = Len(t) - k /\ \A i \in 1 .. Len(t) - k : q[i] = t[k + i]
  BY <1>2, <1>3, Cut
<1>. HIDE DEF p, q, k, m
<1>5. p = s
  <2>1. \A i \in 1 .. k : p[i] = s[i]
    BY <1>1, <1>2, <1>4
  <2>. QED BY <1>4, <2>1, SeqEqual DEF k
<1>6. q = u
  <2>1. Len(q) = m
    BY <1>1, <1>2, <1>4
  <2>2. ASSUME NEW i \in 1 .. m PROVE q[i] = u[i]
    <3>1. k + i \in 1 .. k + m /\ ~(k + i <= k) /\ k + i - k = i
      BY <1>1
    <3>2. i \in 1 .. Len(t) - k
      BY <1>1, <1>2
    <3>. QED BY <1>2, <1>4, <3>1, <3>2
  <2>. QED BY <1>4, <2>1, <2>2, SeqEqual DEF m
<1>7. k = Len(t) => u = <<>>
  <2>1. k = Len(t) => m = 0
    BY <1>1, <1>2
  <2>. QED BY <2>1, EmptySeq DEF m
<1>. QED BY <1>2, <1>3, <1>5, <1>6, <1>7 DEF t, k, p, q

\* Cutting a sequence and putting it together.
LEMMA CutAndJoined ==
  ASSUME NEW S, NEW s \in Seq(S), NEW u \in Seq(S), NEW n \in 0 .. Len(u)
  PROVE  (s \o SubSeq(u, 1, n)) \o SubSeq(u, n + 1, Len(u)) = s \o u
<1>. DEFINE L == Len(u)
            p == SubSeq(u, 1, n)
            q == SubSeq(u, n + 1, L)
<1>1. L \in Nat /\ p \in Seq(S) /\ q \in Seq(S)
  BY Cut, LenProperties
<1>2. p \o q = u
  <2>1. 1 \in 1 .. L + 1 /\ n \in 1 - 1 .. L /\ L \in n .. L
    BY <1>1
  <2>2. p \o q = SubSeq(u, 1, L)
    BY <2>1, ConcatAdjacentSubSeq
  <2>. QED BY <2>2, SubSeqFull
<1>. HIDE DEF p, q
<1>3. (s \o p) \o q = s \o (p \o q)
  BY <1>1, ConcatAssociative
<1>. QED BY <1>2, <1>3 DEF p, q

\* The steps whose answer nothing is read behind.
Last == {"at_ok", "ati", "at+cops", "audio off"}

\* t can be read as a whole at the step at, or in two reads at the question.
Proper(at, t) == IF at = "query" THEN TwoReads(t) ELSE at \in Last \/ OneRead(t)

\* So can the answers to a command.
Answered(at, w) == \A a \in Answers(w) : Proper(at, a)

\* The read that waits fills the buffer where its data end, the one that is over
\* has found a response.
Waits == op.st = "waiting" => op.at = sb.p /\ op.n <= Room(sb)
Heard == op.st = "matched" => Matched(Data(sb))

\* The dialogue: between two commands nothing is on its way, but what the modem
\* still tells of its configuration; then the command, and then its answer, of
\* which the buffer has the beginning.
Asking ==
  /\ op.st = "idle" => wire = <<>> /\ (IF step = "listen" THEN OneRead(line) ELSE line = <<>>)
  /\ op.st # "idle" =>
       \/ step = "listen" /\ wire = <<>> /\ line = <<>>
       \/ /\ Waits /\ Heard
          /\ IF wire = <<>> THEN Proper(step, Data(sb) \o line)
             ELSE line = <<>> /\ Data(sb) = <<>> /\ Answered(step, wire[1])
  /\ step \in {"cmgs", "text", "wait"} => op.st = "idle"

\* The types the dialogue is about.
LEMMA AskingTypes ==
  ASSUME Inv
  PROVE  /\ line \in Seq(Char) /\ sb \in Buffers(Char) /\ Data(sb) \in Seq(Char)
         /\ op \in OpType /\ wire \in Seq(Seq(Written)) /\ Zero \in Char
BY DataProperties, Tokens DEF Inv, SessionInv, SessionType

\* A search leaves the buffer as its read needs it.
LEMMA SearchFinds ==
  ASSUME NEW b \in Buffers(Char), SearchOn(b)
  PROVE  /\ op'.st # "idle" /\ Waits' /\ Heard' /\ Data(sb') = Data(b)
         /\ ~Matched(Data(b)) => op'.st = "waiting"
<1>. DEFINE f == Search(b, Data(b))
<1>1. sb' = f.sb /\ op' = f.op
  BY DEF SearchOn
<1>2. /\ f.sb \in Buffers(Char) /\ Data(f.sb) = Data(b) /\ f.op \in OpType
      /\ f.op.st = (IF Matched(Data(b)) THEN "matched" ELSE "waiting")
      /\ f.op.st = "waiting" => f.op.at = f.sb.p /\ f.op.n \in Window .. Room(f.sb)
  BY Tokens, SearchProperties
<1>. HIDE DEF f
<1>3. f.op.st = "waiting" => f.op.n <= Room(f.sb)
  <2>. DEFINE R == Room(f.sb)
  <2>1. R \in Int /\ Window \in Nat
    BY <1>2, WindowAssumption, LenProperties DEF Buffers, Room
  <2>2. f.op.st = "waiting" => f.op.n \in Window .. R
    BY <1>2
  <2>. HIDE DEF R
  <2>3. f.op.st = "waiting" => f.op.n <= R
    BY <2>1, <2>2
  <2>. QED BY <2>3 DEF R
<1>. QED BY <1>1, <1>2, <1>3 DEF Waits, Heard

\* A program whose read is over has left nothing to be read, but where a second
\* read follows, or none.
LEMMA AnswerIsRead ==
  ASSUME Inv, Asking, op.st = "matched"
  PROVE  /\ wire = <<>>
         /\ IF step = "query" THEN OneRead(line) ELSE step \in Last \/ line = <<>>
<1>. DEFINE s == Data(sb)
            t == s \o line
            k == Len(s)
<1>1. line \in Seq(Char) /\ s \in Seq(Char)
  BY AskingTypes
<1>2. CASE step = "listen" /\ wire = <<>> /\ line = <<>>
  BY <1>2
<1>3. CASE ~(step = "listen" /\ wire = <<>> /\ line = <<>>)
  <2>1. Matched(s) /\ wire = <<>> /\ Proper(step, t)
    BY <1>3, NothingIsNoMatch DEF Asking, Heard
  <2>. HIDE DEF s
  <2>2. t \in Seq(Char) /\ k \in 0 .. Len(t) /\ SubSeq(t, 1, k) = s /\ SubSeq(t, k + 1, Len(t)) = line
        /\ (k = Len(t) => line = <<>>)
    BY <1>1, ConcatParts
  <2>. HIDE DEF t, k
  <2>3. TwoReads(t) => OneRead(line)
    BY <2>1, <2>2 DEF TwoReads
  <2>4. OneRead(t) => line = <<>>
    BY <2>1, <2>2 DEF OneRead
  <2>. QED BY <2>1, <2>3, <2>4 DEF Proper
<1>. QED BY <1>2, <1>3

\* Bytes pass from the line to the buffer of the read that waits.
LEMMA BytesArrive ==
  ASSUME Inv, Waits, NEW n \in 1 .. Len(line), Arrive(n)
  PROVE  op'.st # "idle" /\ Waits' /\ Heard' /\ Data(sb') \o line' = Data(sb) \o line
<1>. DEFINE cs == SubSeq(line, 1, n)
            b  == Commit(Fill(sb, op.at, cs), n)
            s  == Data(sb)
            N  == Len(line)
            R  == Room(sb)
<1>1. line \in Seq(Char) /\ sb \in Buffers(Char) /\ s \in Seq(Char) /\ op \in OpType
  BY AskingTypes
<1>2. N \in Nat /\ n \in 0 .. N
  BY <1>1, LenProperties
<1>3. /\ op.st = "waiting" /\ n \in 1 .. Least(op.n, N) /\ SearchOn(b)
      /\ line' = SubSeq(line, n + 1, N)
  BY DEF Arrive
<1>5. op.at = sb.p /\ op.n <= R
  BY <1>3 DEF Waits
<1>6. cs \in Seq(Char) /\ Len(cs) = n
  BY <1>1, <1>2, Cut
<1>7. n <= R
  <2>1. R \in Int
    BY <1>1, LenProperties DEF Buffers, Room
  <2>. HIDE DEF R, N
  <2>2. op.n \in Nat
    BY <1>1 DEF OpType
  <2>. QED BY <1>2, <1>3, <1>5, <2>1, <2>2 DEF Least
<1>8. b \in Buffers(Char) /\ Data(b) = s \o cs
  <2>1. b = Commit(Fill(sb, sb.p, cs), Len(cs))
    BY <1>5, <1>6
  <2>. HIDE DEF cs, b
  <2>. QED BY <1>1, <1>6, <1>7, <2>1, FillCommitProperties
<1>9. (s \o cs) \o line' = s \o line
  BY <1>1, <1>2, <1>3, CutAndJoined
<1>. HIDE DEF b, cs, s, N
<1>10. op'.st # "idle" /\ Waits' /\ Heard' /\ Data(sb') = s \o cs
  BY <1>3, <1>8, SearchFinds
<1>. QED BY <1>9, <1>10 DEF s

\* Bytes of the answer arrive.
LEMMA ArriveAsks ==
  ASSUME Inv, Asking, NEW n \in 1 .. Len(line), Arrive(n)
  PROVE  Asking'
<1>1. op.st = "waiting" /\ UNCHANGED <<wire, modem, step>>
  BY DEF Arrive
<1>2. line # <<>>
  BY AskingTypes, EmptySeq
<1>3. Waits /\ wire = <<>> /\ Proper(step, Data(sb) \o line) /\ step \notin {"cmgs", "text", "wait"}
  BY <1>1, <1>2 DEF Asking
<1>4. op'.st # "idle" /\ Waits' /\ Heard' /\ Data(sb') \o line' = Data(sb) \o line
  BY <1>3, BytesArrive
<1>. QED BY <1>1, <1>3, <1>4 DEF Asking

\* A modem that takes the only piece leaves none.
LEMMA WireIsTaken ==
  ASSUME Inv, wire # <<>>, wire' = Tail(wire), Len(wire) <= 1
  PROVE  wire' = <<>> /\ Len(wire') <= 1 /\ Head(wire) = wire[1]
<1>. DEFINE S == Seq(Written)
            N == Len(wire)
<1>1. wire \in Seq(S)
  BY AskingTypes
<1>. HIDE DEF S
<1>2. N \in Nat \ {0} /\ wire' \in Seq(S) /\ Len(wire') = N - 1 /\ Head(wire) = wire[1]
  BY <1>1, EmptySeq, HeadTailProperties
<1>. HIDE DEF N
<1>3. N <= 1
  BY DEF N
<1>4. Len(wire') = 0
  BY <1>2, <1>3
<1>. QED BY <1>2, <1>4, EmptySeq

\* The answer is all that is on its way then.
LEMMA AnswerComes ==
  ASSUME Inv, line = <<>>, Data(sb) = <<>>, Head(wire) = wire[1], ModemAccepts \/ ModemRefuses, sb' = sb
  PROVE  /\ Data(sb') = <<>> /\ Data(sb') \o line' = line'
         /\ line' \in Answers(wire[1]) \/ line' = Said("ERROR")
<1>1. CASE ModemAccepts
  <2>1. PICK a \in Answers(wire[1]) : line' = line \o a
    BY <1>1 DEF ModemAccepts
  <2>2. a \in Seq(Char)
    <3>1. <<>> \in Seq(Char) /\ Prompt \in Seq(Char)
      BY EmptySeq DEF Prompt, CRLF, Char
    <3>2. Seq(Spoken) \subseteq Seq(Char)
      BY SeqMonotonic DEF Spoken
    <3>3. a \in Seq(Spoken) \cup {<<>>, Prompt}
      BY AnswersProperties
    <3>. QED BY <3>1, <3>2, <3>3
  <2>. QED BY <2>1, <2>2, ConcatEmptySeq
<1>2. CASE ModemRefuses
  <2>1. line' = line \o Said("ERROR")
    BY <1>2 DEF ModemRefuses
  <2>2. "ERROR" \in Char /\ CR \in Char /\ LF \in Char
    BY Tokens DEF Codes, PlainCodes, Char
  <2>3. Said("ERROR") \in Seq(Char)
    <3>. DEFINE x == <<"ERROR">>
    <3>1. x \in Seq(Char) /\ Said("ERROR") = Line(x)
      BY <2>2 DEF Said, Line
    <3>. HIDE DEF x
    <3>. QED BY <2>2, <3>1, LineTokens
  <2>. QED BY <2>1, <2>3, ConcatEmptySeq
<1>. QED BY <1>1, <1>2

\* The modem takes the command and answers it, or refuses it.
LEMMA ModemAsks ==
  ASSUME Inv, Asking, Len(wire) <= 1, ModemAccepts \/ ModemRefuses, UNCHANGED program
  PROVE  Asking'
<1>1. wire # <<>> /\ wire' = Tail(wire) /\ UNCHANGED <<step, sb, op>>
  BY DEF ModemAccepts, ModemRefuses, program
<1>2. wire' = <<>> /\ Head(wire) = wire[1]
  BY <1>1, WireIsTaken
<1>3. /\ op.st # "idle" /\ Waits /\ Heard /\ line = <<>> /\ Data(sb) = <<>>
      /\ Answered(step, wire[1]) /\ step \notin {"cmgs", "text", "wait"}
  BY <1>1 DEF Asking
<1>4. /\ Data(sb') \o line' = line'
      /\ line' \in Answers(wire[1]) \/ line' = Said("ERROR")
  BY <1>1, <1>2, <1>3, AnswerComes
<1>5. Proper(step, line')
  BY <1>3, <1>4, RefusalIsWhole DEF Answered, Proper
<1>6. Waits' /\ Heard'
  BY <1>1, <1>3 DEF Waits, Heard
<1>. QED BY <1>1, <1>2, <1>3, <1>4, <1>5, <1>6 DEF Asking

\* The program has written a command and waits for the answer.
LEMMA CommandAsks ==
  ASSUME Inv, Asking, op.st = "idle", step # "listen", step' \notin {"cmgs", "text", "wait"},
         NEW w, Write(w), SearchOn(Fresh), Answered(step', w)
  PROVE  Len(wire') <= 1 /\ Asking'
<1>1. wire = <<>> /\ line = <<>>
  BY DEF Asking
<1>2. wire' = Append(wire, w) /\ UNCHANGED <<line, modem>>
  BY DEF Write
<1>3. Len(wire') = 1 /\ wire' # <<>> /\ wire'[1] = w
  <2>1. Len(wire) = 0
    BY <1>1
  <2>. QED BY <1>2, <2>1, WireAppend
<1>4. op'.st # "idle" /\ Waits' /\ Heard' /\ Data(sb') = <<>>
  BY FreshProperties, SearchFinds
<1>5. Answered(step, w)'
  BY <1>2 DEF Answered, Answers
<1>. QED BY <1>1, <1>2, <1>3, <1>4, <1>5 DEF Asking

\* The program has read an answer and goes on.
LEMMA ReadingAsks ==
  ASSUME Inv, Asking, op.st = "matched", UNCHANGED <<line, wire>>, op' = Idle,
         IF step = "query" THEN step' = "listen" ELSE step \notin Last
  PROVE  Len(wire') <= 1 /\ Asking'
<1>1. wire' = <<>> /\ (IF step = "query" THEN OneRead(line) ELSE line = <<>>)
  BY AnswerIsRead
<1>2. OneRead(<<>>) /\ Len(<<>>) = 0
  BY AnswersAreWhole
<1>. QED BY <1>1, <1>2 DEF Asking, Idle

\* An execute that is not the last step.
LEMMA ExecuteAsks ==
  ASSUME Inv, Asking, NEW at, at \notin Last, at \notin {"listen", "cmgs", "text", "wait"},
         NEW r, Answered(at, ToString(r)),
         NEW next, at = "query" => next = "listen",
         ExecuteWrites(at, r) \/ ExecuteReturns(at, next)
  PROVE  Len(wire') <= 1 /\ Asking'
<1>1. CASE ExecuteWrites(at, r)
  BY <1>1, CommandAsks DEF ExecuteWrites, Idle
<1>2. CASE ExecuteReturns(at, next)
  BY <1>2, ReadingAsks DEF ExecuteReturns, device
<1>. QED BY <1>1, <1>2

\* One that is.
LEMMA LastExecuteAsks ==
  ASSUME Inv, Asking, Len(wire) <= 1, NEW at \in Last, NEW r, ExecuteWrites(at, r) \/ ExecuteEnds(at)
  PROVE  Len(wire') <= 1 /\ (step' # "exit" => Asking')
<1>1. CASE ExecuteWrites(at, r)
  <2>1. Answered(at, ToString(r)) /\ at \notin {"listen", "cmgs", "text", "wait"}
    BY DEF Answered, Proper, Last
  <2>. QED BY <1>1, <2>1, CommandAsks DEF ExecuteWrites, Idle
<1>2. CASE ExecuteEnds(at)
  BY <1>2 DEF ExecuteEnds, Exit, device
<1>. QED BY <1>1, <1>2

\* The program begins to read what it has not asked for.
LEMMA ListeningAsks ==
  ASSUME Inv, Asking, op = Idle, step = "listen", SearchOn(Fresh), UNCHANGED <<device, step>>
  PROVE  Len(wire') <= 1 /\ Asking'
<1>1. wire = <<>> /\ OneRead(line)
  BY DEF Asking, Idle
<1>2. UNCHANGED <<wire, line>>
  BY DEF device
<1>3. op'.st # "idle" /\ Waits' /\ Heard' /\ Data(sb') = <<>>
  BY FreshProperties, SearchFinds
<1>4. <<>> \o line = line
  BY AskingTypes, ConcatEmptySeq
<1>5. Proper("listen", line)
  BY <1>1 DEF Proper
<1>. QED BY <1>1, <1>2, <1>3, <1>4, <1>5 DEF Asking

\* A handler reads on, though nothing else is on its way.
LEMMA ReadingOnAsks ==
  ASSUME Inv, Asking, ReadsAgain("listen"), UNCHANGED <<device, step>>
  PROVE  Len(wire') <= 1 /\ Asking'
<1>1. step = "listen" /\ op.st = "matched" /\ UNCHANGED <<wire, line, step>>
  BY DEF ReadsAgain, device
<1>2. wire' = <<>> /\ line' = <<>>
  BY <1>1, AnswerIsRead DEF Last
<1>3. op'.st # "idle"
  BY DEF ReadsAgain, Search
<1>. QED BY <1>1, <1>2, <1>3 DEF Asking
-----------------------------------------------------------------------------
\* What the subcommands do once the device is open.

\* No text is asked for while a command is written.
LEMMA CommandsAreAnswered ==
  ASSUME FreshInv, fresh, step \notin {"prompt", "text", "exit"}
  PROVE  /\ Answered("cmgf", ToString(make_at_cmgf_write(<<"1">>)))
         /\ Answered("cscs", ToString(make_at_cscs_write(<<"GSM">>)))
         /\ Answered("cnmi", ToString(make_at_cnmi_write(<<"1,2,0,0,0">>)))
         /\ Answered("prompt", ToString(make_at_cmgs_write(Da)))
         /\ Answered("audio on", ToString(make_at_qpcmv_write(<<"1,2">>)))
         /\ Answered("dial", ToString(make_atd(<<"{}">>)))
         /\ Answered("hang up", ToString(make_ath))
         /\ Answered("query", Query)
         /\ \A cfg \in Seq(Char) : Names(cfg, "1") => Answered("config", ToString(make_at_qcfg_write(cfg)))
<1>1. ~modem.text
  BY DEF FreshInv
<1>2. /\ \A w \in Seq(Literals) : \A a \in Answers(w) : OneRead(a)
      /\ \A a \in Answers(ToString(make_at_cmgs_write(Da))) : OneRead(a)
      /\ \A cfg \in Seq(Char) : Names(cfg, "1") =>
           \A a \in Answers(ToString(make_at_qcfg_write(cfg))) : OneRead(a)
      /\ \A a \in Answers(Query) : TwoReads(a)
  BY <1>1, AnswersToCommands
<1>. QED BY <1>2, LiteralCommands DEF Answered, Proper

\* Opening a device with nothing on it.
LEMMA OpeningAsks ==
  ASSUME op.st = "idle", wire = <<>>, NEW next, Opens(next), line' = <<>>
  PROVE  Len(wire') <= 1 /\ Asking'
<1>1. OneRead(<<>>) /\ Len(<<>>) = 0
  BY AnswersAreWhole
<1>. QED BY <1>1 DEF Opens, Asking

\* Sending an SMS.
LEMMA SendSmsAsks ==
  ASSUME Inv, FreshInv, fresh, step \notin {"open", "exit"}, Asking, Len(wire) <= 1, SendSmsActs
  PROVE  Len(wire') <= 1 /\ (step' # "exit" => Asking')
<1>1. CASE SendSmsCmgfExecuted
  <2>1. step = "cmgf"
    BY <1>1 DEF SendSmsCmgfExecuted, ExecuteWrites, ExecuteReturns
  <2>. QED BY <1>1, <2>1, CommandsAreAnswered, ExecuteAsks DEF SendSmsCmgfExecuted, Last
<1>2. CASE SendSmsCscsExecuted
  <2>1. step = "cscs"
    BY <1>2 DEF SendSmsCscsExecuted, ExecuteWrites, ExecuteReturns
  <2>. QED BY <1>2, <2>1, CommandsAreAnswered, ExecuteAsks DEF SendSmsCscsExecuted, Last
<1>3. CASE CmgsWritten
  <2>1. step = "cmgs" /\ step' = "prompt" /\ op.st = "idle"
    BY <1>3 DEF CmgsWritten, Asking
  <2>. QED BY <1>3, <2>1, CommandsAreAnswered, CommandAsks DEF CmgsWritten
<1>4. CASE PromptRead
  <2>1. CASE step' = "exit"
    BY <1>4, <2>1 DEF PromptRead, device
  <2>2. CASE step' # "exit"
    BY <1>4, <2>2, ReadingAsks DEF PromptRead, ReadEnds, Exit, device, Last
  <2>. QED BY <2>1, <2>2
<1>5. CASE TextWritten
  <2>1. step = "text" /\ step' = "exit" /\ wire' = Append(wire, TextToString(SmsText)) /\ wire = <<>>
    BY <1>5 DEF TextWritten, Write, Exit, Asking
  <2>2. Len(wire) = 0
    BY <2>1
  <2>. QED BY <2>1, <2>2, WireAppend
<1>6. ~SendSmsOpened
  BY DEF SendSmsOpened, Opens
<1>. QED BY <1>1, <1>2, <1>3, <1>4, <1>5, <1>6 DEF SendSmsActs

\* Waiting for one.
LEMMA ReceiveSmsAsks ==
  ASSUME Inv, FreshInv, fresh, step \notin {"open", "exit"}, Asking, Len(wire) <= 1, ReceiveSmsActs
  PROVE  Len(wire') <= 1 /\ (step' # "exit" => Asking')
<1>1. CASE ReceiveSmsCmgfExecuted
  <2>1. step = "cmgf"
    BY <1>1 DEF ReceiveSmsCmgfExecuted, ExecuteWrites, ExecuteReturns
  <2>. QED BY <1>1, <2>1, CommandsAreAnswered, ExecuteAsks DEF ReceiveSmsCmgfExecuted, Last
<1>2. CASE ReceiveSmsCscsExecuted
  <2>1. step = "cscs"
    BY <1>2 DEF ReceiveSmsCscsExecuted, ExecuteWrites, ExecuteReturns
  <2>. QED BY <1>2, <2>1, CommandsAreAnswered, ExecuteAsks DEF ReceiveSmsCscsExecuted, Last
<1>3. CASE CnmiExecuted
  <2>1. step = "cnmi"
    BY <1>3 DEF CnmiExecuted, ExecuteWrites, ExecuteReturns
  <2>. QED BY <1>3, <2>1, CommandsAreAnswered, ExecuteAsks DEF CnmiExecuted, Last
<1>4. CASE SmsListeningStarts
  BY <1>4, ListeningAsks DEF SmsListeningStarts
<1>5. CASE NoSmsRead
  BY <1>5, ReadingOnAsks DEF NoSmsRead
<1>6. CASE SmsRead
  BY <1>6 DEF SmsRead, Exit, device
<1>7. ~ReceiveSmsOpened
  BY DEF ReceiveSmsOpened, Opens
<1>. QED BY <1>1, <1>2, <1>3, <1>4, <1>5, <1>6, <1>7 DEF ReceiveSmsActs

\* Asking one question.
LEMMA QueryAsks ==
  ASSUME Inv, step # "open", Asking, Len(wire) <= 1, QueryActs
  PROVE  Len(wire') <= 1 /\ (step' # "exit" => Asking')
<1>1. CASE AtOk
  BY <1>1, LastExecuteAsks DEF AtOk, Last
<1>2. CASE Ati
  BY <1>2, LastExecuteAsks DEF Ati, Last
<1>3. CASE CopsWritten
  <2>1. \A w : Answered("at+cops", w)
    BY DEF Answered, Proper, Last
  <2>. QED BY <1>3, <2>1, CommandAsks DEF CopsWritten, Idle
<1>4. CASE CopsRead
  BY <1>4 DEF CopsRead, Exit, device
<1>5. ~QueryOpened
  BY DEF QueryOpened, Opens
<1>. QED BY <1>1, <1>2, <1>3, <1>4, <1>5 DEF QueryActs

\* Making or receiving a call, which has a configuration to write.
LEMMA VoiceCallAsks ==
  ASSUME Inv, FreshInv, fresh, step \notin {"open", "exit"}, Asking, Len(wire) <= 1, VoiceCallActs,
         step = "config" => Names(usb_cfg, "1")
  PROVE  Len(wire') <= 1 /\ (step' # "exit" => Asking')
<1>1. CASE QueryExecuted
  <2>1. step = "query"
    BY <1>1 DEF QueryExecuted, ExecuteWrites, ExecuteReturns
  <2>. QED BY <1>1, <2>1, CommandsAreAnswered, ExecuteAsks DEF QueryExecuted, Query, Last
<1>2. CASE QcfgListeningStarts
  BY <1>2, ListeningAsks DEF QcfgListeningStarts
<1>3. CASE NoQcfgRead
  BY <1>3, ReadingOnAsks DEF NoQcfgRead
<1>4. CASE QcfgRead
  BY <1>4, ReadingAsks DEF QcfgRead, ReadEnds, device, Last
<1>5. CASE ConfigExecuted
  <2>1. step = "config"
    BY <1>5 DEF ConfigExecuted, ExecuteWrites, ExecuteReturns
  <2>2. usb_cfg \in Seq(Char)
    BY DEF Inv
  <2>. QED BY <1>5, <2>1, <2>2, CommandsAreAnswered, ExecuteAsks DEF ConfigExecuted, Last
<1>6. CASE AudioOnExecuted
  <2>1. step = "audio on"
    BY <1>6 DEF AudioOnExecuted, ExecuteWrites, ExecuteReturns
  <2>. QED BY <1>6, <2>1, CommandsAreAnswered, ExecuteAsks DEF AudioOnExecuted, Last
<1>7. CASE VoiceCallCscsExecuted
  <2>1. step = "cscs"
    BY <1>7 DEF VoiceCallCscsExecuted, ExecuteWrites, ExecuteReturns
  <2>. QED BY <1>7, <2>1, CommandsAreAnswered, ExecuteAsks DEF VoiceCallCscsExecuted, Last
<1>8. CASE DialExecuted
  <2>1. step = "dial"
    BY <1>8 DEF DialExecuted, ExecuteWrites, ExecuteReturns
  <2>. QED BY <1>8, <2>1, CommandsAreAnswered, ExecuteAsks DEF DialExecuted, Last
<1>9. CASE HangUpExecuted
  <2>1. step = "hang up"
    BY <1>9 DEF HangUpExecuted, ExecuteWrites, ExecuteReturns
  <2>. QED BY <1>9, <2>1, CommandsAreAnswered, ExecuteAsks DEF HangUpExecuted, Last
<1>10. CASE CallAwaited
  <2>1. step = "wait" /\ step' = "audio off" /\ UNCHANGED <<wire, op>>
    BY <1>10 DEF CallAwaited
  <2>2. op.st = "idle" /\ wire = <<>> /\ line = <<>>
    BY <2>1 DEF Asking
  <2>3. line' = <<>>
    <3>1. PICK n \in 0 .. Len(line) : line' = SubSeq(line, n + 1, Len(line))
      BY <1>10, CallAwaitedTakes DEF Inv
    <3>2. Len(line) = 0 /\ n = 0
      BY <2>2, <3>1
    <3>. QED BY <3>1, <3>2, SubSeqEmpty
  <2>. QED BY <2>1, <2>2, <2>3 DEF Asking
<1>11. CASE AudioOffExecuted
  BY <1>11, LastExecuteAsks DEF AudioOffExecuted, Last
<1>12. ~VoiceCallOpened
  BY DEF VoiceCallOpened, Opens
<1>. QED BY <1>1, <1>2, <1>3, <1>4, <1>5, <1>6, <1>7, <1>8, <1>9, <1>10, <1>11, <1>12 DEF VoiceCallActs
-----------------------------------------------------------------------------
\* The program as a whole.

\* What a call knows: only when it has stopped listening, it may have a
\* configuration, and only then it goes on to write it.
CallInv ==
  /\ urcs \in Nat
  /\ step = "open" => ~fresh /\ op.st = "idle"
  /\ stopped => subcommand \in {"make-call", "rcv-call"} /\ step \notin {"open", "query", "listen"}
  /\ step = "config" => stopped
  /\ usb_cfg # <<>> => stopped /\ Names(usb_cfg, "1")

\* Then there is a dialogue, until the program ends.
AskInv == Undisturbed => Len(wire) <= 1 /\ (step # "exit" => Asking)

\* A step of the program that has nothing to do with the configuration.
LEMMA ElsewhereKeepsCall ==
  ASSUME CallInv, urcs' \in Nat, UNCHANGED <<calls, subcommand>>, step' \notin {"open", "config"},
         subcommand \notin {"make-call", "rcv-call"} \/ step' \notin {"query", "listen"} \/ ~stopped
  PROVE  CallInv'
BY DEF CallInv, calls

\* What calls do.
LEMMA VoiceCallKeepsCall ==
  ASSUME Inv', CallInv, subcommand \in {"make-call", "rcv-call"}, UNCHANGED subcommand,
         VoiceCallActs \/ VoiceCallFails
  PROVE  CallInv'
<1>1. CASE \/ VoiceCallOpened \/ AudioOnExecuted \/ VoiceCallCscsExecuted
           \/ DialExecuted \/ HangUpExecuted \/ CallAwaited \/ AudioOffExecuted
  <2>1. UNCHANGED <<calls, urcs>> /\ step' \notin {"open", "config"} /\ (step' \in {"query", "listen"} => step = "open")
    BY <1>1 DEF VoiceCallOpened, AudioOnExecuted, VoiceCallCscsExecuted, DialExecuted, HangUpExecuted,
                CallAwaited, AudioOffExecuted, Opens, ExecuteWrites, ExecuteReturns, ExecuteEnds, Exit,
                Write, device, calls
  <2>. QED BY <2>1, ElsewhereKeepsCall DEF CallInv
<1>2. CASE QueryExecuted \/ QcfgListeningStarts \/ NoQcfgRead
  <2>1. UNCHANGED <<calls, urcs>> /\ step' \notin {"open", "config"} /\ step \in {"query", "listen"}
    BY <1>2 DEF QueryExecuted, QcfgListeningStarts, NoQcfgRead, ReadsAgain, ExecuteWrites, ExecuteReturns,
                Write, device, calls
  <2>. QED BY <2>1, ElsewhereKeepsCall DEF CallInv
<1>3. CASE QcfgRead
  <2>1. /\ step' = "config" /\ stopped' = TRUE /\ urcs' = urcs
        /\ usb_cfg' = FlagOn(Tail(msg'.body[1])) /\ UrcReceived(msg')
    BY <1>3 DEF QcfgRead, device
  <2>2. Tail(msg'.body[1]) \in Seq(Char)
    BY <2>1, FirstLineHasATail
  <2>3. usb_cfg' # <<>> => Names(usb_cfg', "1")
    BY <2>1, <2>2, FlagIsOn
  <2>. QED BY <2>1, <2>3 DEF CallInv
<1>4. CASE QcfgListeningFails
  <2>1. step' = "config" /\ stopped' = TRUE /\ urcs' = urcs /\ usb_cfg' = usb_cfg
    BY <1>4 DEF QcfgListeningFails, device
  <2>. QED BY <2>1 DEF CallInv
<1>5. CASE ConfigExecuted
  <2>1. UNCHANGED <<calls, urcs>> /\ step = "config" /\ step' \in {"config", "audio on"}
    BY <1>5 DEF ConfigExecuted, ExecuteWrites, ExecuteReturns, Write, device, calls
  <2>. QED BY <2>1 DEF CallInv, calls
<1>6. CASE (OpenFails \/ \E at \in Commands : ExecuteFails(at)) /\ UNCHANGED <<usb_cfg, stopped>>
  <2>1. UNCHANGED <<calls, urcs>> /\ step' = "exit"
    BY <1>6 DEF OpenFails, ExecuteFails, Exit, device, calls
  <2>. QED BY <2>1, ElsewhereKeepsCall DEF CallInv
<1>. QED BY <1>1, <1>2, <1>3, <1>4, <1>5, <1>6 DEF VoiceCallActs, VoiceCallFails

\* One step of the program, of the device or of the modem.
LEMMA NextCall == Inv /\ Inv' /\ CallInv /\ [Next]_vars => CallInv'
<1>. SUFFICES ASSUME Inv, Inv', CallInv, [Next]_vars PROVE CallInv'
  OBVIOUS
<1>1. CASE Runs \/ Fails
  <2>1. UNCHANGED <<subcommand, faults>> \/ UNCHANGED <<subcommand, fresh>>
    BY <1>1 DEF Runs, Fails, life
  <2>2. CASE subcommand \in {"make-call", "rcv-call"}
    BY <1>1, <2>1, <2>2, VoiceCallKeepsCall DEF Runs, Fails
  <2>3. CASE subcommand = "send-sms"
    <3>1. UNCHANGED <<calls, urcs>> /\ step' \notin {"open", "config"}
      BY <1>1, <2>3 DEF Runs, Fails, SendSmsActs, SendSmsFails, SendSmsOpened, SendSmsCmgfExecuted, SendSmsCscsExecuted,
                        CmgsWritten, PromptRead, TextWritten, ChainFails, OpenFails, ExecuteFails, Opens,
                        ExecuteWrites, ExecuteReturns, Exit, Write, device
    <3>. QED BY <2>1, <2>3, <3>1, ElsewhereKeepsCall DEF CallInv
  <2>4. CASE subcommand = "rcv-sms"
    <3>1. UNCHANGED <<calls, urcs>> /\ step' \notin {"open", "config"}
      BY <1>1, <2>4 DEF Runs, Fails, ReceiveSmsActs, ReceiveSmsFails, ReceiveSmsOpened, ReceiveSmsCmgfExecuted,
                        ReceiveSmsCscsExecuted, CnmiExecuted, SmsListeningStarts, NoSmsRead, SmsRead,
                        SmsListeningFails, OpenFails, ExecuteFails, Opens, ReadsAgain,
                        ExecuteWrites, ExecuteReturns, Exit, Write, device
    <3>. QED BY <2>1, <2>4, <3>1, ElsewhereKeepsCall DEF CallInv
  <2>5. CASE subcommand \in {"at_ok", "ati", "at+cops"}
    <3>1. UNCHANGED <<calls, urcs>> /\ step' \notin {"open", "config"}
      BY <1>1, <2>5 DEF Runs, Fails, QueryActs, QueryFails, QueryOpened, AtOk, Ati, CopsWritten, CopsRead,
                        CopsFails, OpenFails, ExecuteFails, Opens, ExecuteWrites, ExecuteEnds, Exit, Write, device
    <3>. QED BY <2>1, <2>5, <3>1, ElsewhereKeepsCall DEF CallInv
  <2>. QED BY <1>1, <2>2, <2>3, <2>4, <2>5 DEF Runs, Fails
<1>2. CASE Receives
  <2>1. UNCHANGED <<step, calls, urcs, fresh, subcommand>> /\ op.st = "waiting"
    BY <1>2 DEF Receives, Arrive, life
  <2>. QED BY <2>1 DEF CallInv, calls
<1>3. CASE ModemAnswers \/ ModemSpeaksUp \/ SmsArrives
  <2>1. UNCHANGED <<step, op, calls, fresh, subcommand>>
    BY <1>3 DEF ModemAnswers, ModemSpeaksUp, SmsArrives, SmsAnnounced, ModemActs, program, life
  <2>2. urcs' = urcs \/ urcs' = urcs + 1
    BY <1>3 DEF ModemAnswers, ModemSpeaksUp, SmsArrives, SmsAnnounced, ModemActs, ModemAccepts, ModemRefuses, ModemNotifies
  <2>. QED BY <2>1, <2>2 DEF CallInv, calls
<1>4. CASE StartsAgain
  <2>1. urcs' = urcs /\ usb_cfg' = <<>> /\ stopped' = FALSE /\ fresh' = FALSE /\ step' = "open" /\ op' = Idle
    BY <1>4 DEF StartsAgain, StartsOver, device
  <2>. QED BY <2>1 DEF CallInv, Idle
<1>5. CASE UNCHANGED vars
  BY <1>5 DEF vars, device, program, calls, life, CallInv
<1>. QED BY <1>1, <1>2, <1>3, <1>4, <1>5 DEF Next

\* The device is opened before anything else is done with it.
LEMMA FirstItOpens ==
  ASSUME Runs, step = "open"
  PROVE  \E next : Opens(next)
<1>1. CASE SendSmsActs
  BY <1>1 DEF SendSmsActs, SendSmsOpened, SendSmsCmgfExecuted, SendSmsCscsExecuted, CmgsWritten,
              PromptRead, TextWritten, ReadEnds, ExecuteWrites, ExecuteReturns
<1>2. CASE ReceiveSmsActs
  BY <1>2 DEF ReceiveSmsActs, ReceiveSmsOpened, ReceiveSmsCmgfExecuted, ReceiveSmsCscsExecuted, CnmiExecuted,
              SmsListeningStarts, NoSmsRead, SmsRead, ReadEnds, ReadsAgain, ExecuteWrites, ExecuteReturns
<1>3. CASE VoiceCallActs
  BY <1>3 DEF VoiceCallActs, VoiceCallOpened, QueryExecuted, QcfgListeningStarts, NoQcfgRead, QcfgRead,
              ConfigExecuted, AudioOnExecuted, VoiceCallCscsExecuted, DialExecuted, HangUpExecuted,
              CallAwaited, AudioOffExecuted, ReadEnds, ReadsAgain, ExecuteWrites, ExecuteReturns, ExecuteEnds
<1>4. CASE QueryActs
  BY <1>4 DEF QueryActs, QueryOpened, AtOk, Ati, CopsWritten, CopsRead, ExecuteWrites, ExecuteEnds
<1>. QED BY <1>1, <1>2, <1>3, <1>4 DEF Runs

\* What the modem does of its own accord or when it answers, as far as it
\* disturbs.
LEMMA ModemDisturbs ==
  ASSUME Inv, CallInv, ModemAnswers \/ ModemSpeaksUp, Undisturbed'
  PROVE  /\ ModemAccepts \/ ModemRefuses
         /\ UNCHANGED <<program, calls, fresh, urcs>>
         /\ modem'.sms = modem.sms /\ wire # <<>> /\ wire' = Tail(wire)
<1>1. ModemActs /\ UNCHANGED <<program, calls, fresh>>
  BY DEF ModemAnswers, ModemSpeaksUp, ModemActs
<1>2. ~ModemNotifies
  <2>1. ASSUME ModemNotifies PROVE FALSE
    <3>1. urcs' = urcs + 1 /\ urcs \in Nat /\ urcs' = 0
      BY <2>1 DEF ModemNotifies, CallInv, Undisturbed
    <3>. QED BY <3>1
  <2>. QED BY <2>1
<1>3. ModemAccepts \/ ModemRefuses
  BY <1>1, <1>2 DEF ModemActs
<1>4. modem \in ModemType
  BY DEF Inv, SessionInv, SessionType
<1>5. urcs' = urcs /\ modem'.sms = modem.sms /\ wire # <<>> /\ wire' = Tail(wire)
  <2>1. CASE ModemAccepts
    BY <1>4, <2>1 DEF ModemAccepts, Taken, ModemType
  <2>2. CASE ModemRefuses
    BY <1>4, <2>2 DEF ModemRefuses, ModemType
  <2>. QED BY <1>3, <2>1, <2>2
<1>. QED BY <1>1, <1>3, <1>5

\* A step that fails ends the program, or the listening of a call.
LEMMA FailsDisturbs ==
  ASSUME CallInv, Fails, Undisturbed'
  PROVE  step' = "exit" /\ UNCHANGED <<wire, modem, urcs, calls, fresh>>
<1>1. \/ step' = "exit" /\ UNCHANGED <<wire, modem, urcs, calls>>
      \/ QcfgListeningFails
  BY DEF Fails, SendSmsFails, ReceiveSmsFails, VoiceCallFails, QueryFails, OpenFails,
         ExecuteFails, ChainFails, SmsListeningFails, CopsFails, Exit, device, calls
<1>2. ~QcfgListeningFails
  BY DEF QcfgListeningFails, CallInv, Undisturbed
<1>. QED BY <1>1, <1>2 DEF Fails

\* A dialogue that is undisturbed now has been so since the device was opened.
LEMMA WasUndisturbed ==
  ASSUME Inv, CallInv, Next, Undisturbed', step # "open"
  PROVE  Undisturbed
<1>1. CASE Runs
  <2>0. modem' = modem
    BY <1>1, ProgramWrites
  <2>1. fresh /\ urcs' = 0 /\ ~modem.sms /\ (stopped' => usb_cfg' # <<>>)
    BY <1>1, <2>0 DEF Runs, Undisturbed
  <2>2. urcs' = urcs /\ (UNCHANGED calls \/ (VoiceCallActs /\ step = "listen"))
    <3>1. CASE UNCHANGED calls /\ (SendSmsActs \/ ReceiveSmsActs \/ QueryActs)
      BY <3>1 DEF SendSmsActs, SendSmsOpened, SendSmsCmgfExecuted, SendSmsCscsExecuted, CmgsWritten,
                  PromptRead, TextWritten, ReceiveSmsActs, ReceiveSmsOpened, ReceiveSmsCmgfExecuted,
                  ReceiveSmsCscsExecuted, CnmiExecuted, SmsListeningStarts, NoSmsRead, SmsRead,
                  QueryActs, QueryOpened, AtOk, Ati, CopsWritten, CopsRead,
                  Opens, ExecuteWrites, ExecuteReturns, ExecuteEnds, Write, device
    <3>2. CASE VoiceCallActs
      BY <3>2 DEF VoiceCallActs, VoiceCallOpened, QueryExecuted, QcfgListeningStarts, NoQcfgRead, QcfgRead,
                  ConfigExecuted, AudioOnExecuted, VoiceCallCscsExecuted, DialExecuted, HangUpExecuted,
                  CallAwaited, AudioOffExecuted, ReadEnds, Opens, ExecuteWrites, ExecuteReturns, ExecuteEnds,
                  Write, device, calls
    <3>. QED BY <1>1, <3>1, <3>2 DEF Runs
  <2>3. CASE UNCHANGED calls
    BY <2>1, <2>2, <2>3 DEF Undisturbed, calls
  <2>4. CASE step = "listen"
    BY <2>1, <2>2, <2>4 DEF Undisturbed, CallInv
  <2>. QED BY <2>2, <2>3, <2>4
<1>2. CASE Fails
  <2>1. UNCHANGED <<wire, modem, urcs, calls, fresh>>
    BY <1>2, FailsDisturbs
  <2>. QED BY <2>1 DEF Undisturbed, calls
<1>3. CASE Receives
  BY <1>3 DEF Receives, Arrive, Undisturbed, calls
<1>4. CASE ModemAnswers \/ ModemSpeaksUp
  <2>1. UNCHANGED <<calls, fresh, urcs>> /\ modem'.sms = modem.sms
    BY <1>4, ModemDisturbs
  <2>. QED BY <2>1 DEF Undisturbed, calls
<1>5. ~SmsArrives
  BY DEF SmsArrives, SmsAnnounced, Inv, SessionInv, SessionType, ModemType, Undisturbed
<1>6. ~StartsAgain
  BY DEF StartsAgain, Undisturbed
<1>. QED BY <1>1, <1>2, <1>3, <1>4, <1>5, <1>6 DEF Next

\* What the program does in an undisturbed dialogue, or to begin one.
LEMMA RunsAsks ==
  ASSUME Inv, FreshInv, CallInv, AskInv, Runs, Undisturbed'
  PROVE  Len(wire') <= 1 /\ (step' # "exit" => Asking')
<1>0. step # "exit" /\ modem' = modem
  BY ProgramWrites
<1>1. CASE step = "open"
  <2>1. line' = <<>> /\ wire = <<>> /\ op.st = "idle"
    BY <1>1 DEF Runs, Undisturbed, CallInv
  <2>. QED BY <1>1, <2>1, FirstItOpens, OpeningAsks
<1>2. CASE step # "open"
  <2>1. Undisturbed /\ fresh
    BY <1>2, WasUndisturbed DEF Next, Undisturbed
  <2>2. Asking /\ Len(wire) <= 1
    BY <1>0, <2>1 DEF AskInv
  <2>3. step = "config" => Names(usb_cfg, "1")
    BY <2>1 DEF CallInv, Undisturbed
  <2>. QED BY <1>0, <1>2, <2>1, <2>2, <2>3, SendSmsAsks, ReceiveSmsAsks, QueryAsks, VoiceCallAsks DEF Runs
<1>. QED BY <1>1, <1>2

\* One step of the program, of the device or of the modem.
LEMMA NextAsk == Inv /\ Inv' /\ FreshInv /\ CallInv /\ AskInv /\ [Next]_vars => AskInv'
<1>. SUFFICES ASSUME Inv, Inv', FreshInv, CallInv, AskInv, [Next]_vars, Undisturbed'
              PROVE  Len(wire') <= 1 /\ (step' # "exit" => Asking')
  BY DEF AskInv
<1>1. CASE Runs
  BY <1>1, RunsAsks
<1>2. CASE Fails
  <2>1. step' = "exit" /\ UNCHANGED <<wire, modem, urcs, calls, fresh>>
    BY <1>2, FailsDisturbs
  <2>2. Undisturbed
    BY <2>1 DEF Undisturbed, calls
  <2>. QED BY <2>1, <2>2 DEF AskInv
<1>3. CASE Receives
  <2>1. /\ \E n \in 1 .. Len(line) : Arrive(n)
        /\ step # "exit" /\ UNCHANGED <<wire, modem, urcs, calls, fresh>>
    BY <1>3 DEF Receives, Arrive
  <2>2. Undisturbed
    BY <2>1 DEF Undisturbed, calls
  <2>. QED BY <2>1, <2>2, ArriveAsks DEF AskInv
<1>4. CASE ModemAnswers \/ ModemSpeaksUp
  <2>1. /\ ModemAccepts \/ ModemRefuses
        /\ UNCHANGED <<program, calls, fresh, urcs>>
        /\ modem'.sms = modem.sms /\ wire # <<>> /\ wire' = Tail(wire)
    BY <1>4, ModemDisturbs
  <2>2. Undisturbed
    BY <2>1 DEF Undisturbed, calls
  <2>3. step' = step
    BY <2>1 DEF program
  <2>4. Len(wire') <= 1
    BY <2>1, <2>2, WireIsTaken DEF AskInv
  <2>5. step # "exit" => Asking'
    BY <2>1, <2>2, ModemAsks DEF AskInv
  <2>. QED BY <2>3, <2>4, <2>5
<1>5. CASE SmsArrives
  <2>1. modem'.sms = TRUE
    BY <1>5 DEF SmsArrives, SmsAnnounced, Inv, SessionInv, SessionType, ModemType
  <2>. QED BY <2>1 DEF Undisturbed
<1>6. CASE StartsAgain
  BY <1>6 DEF StartsAgain, Undisturbed
<1>7. CASE UNCHANGED vars
  BY <1>7 DEF vars, device, program, calls, AskInv, Undisturbed, Asking, Waits, Heard, Answered, Answers
<1>. QED BY <1>1, <1>2, <1>3, <1>4, <1>5, <1>6, <1>7 DEF Next

\* As long as the modem says nothing unasked, a command is only written when the
\* one before was answered and the answer was read (execute, and the handlers
\* behind it), whatever was refused or failed and however the bytes of the
\* answers trickled in, if no earlier use left a trace and the call has heard its
\* configuration.
THEOREM OneCommandAtATime == Spec => []OneAtATime
<1>1. Init => CallInv /\ AskInv
  BY DEF Init, Started, Idle, CallInv, AskInv, Undisturbed
<1>2. AskInv => OneAtATime
  BY DEF AskInv, OneAtATime, Undisturbed
<1>. QED BY <1>1, <1>2, NextCall, NextAsk, FreshIsKept, PromptsAreKept, PTL DEF Spec

-----------------------------------------------------------------------------
\* The dialogue as an exchange.

\* Where it is undisturbed, the wire and the read tell whose turn it is.
TurnKnown == Undisturbed /\ step \notin {"open", "exit"} =>
  \/ onTheLine = "asked" /\ wire # <<>> /\ op.st = "waiting"
  \/ onTheLine = "answered" /\ wire = <<>> /\ op.st # "idle"
  \/ onTheLine = "free" /\ wire = <<>> /\ op.st = "idle"

LEMMA TurnIsKnown == Inv /\ AskInv => TurnKnown
<1>. SUFFICES ASSUME Inv, AskInv, Undisturbed, step \notin {"open", "exit"}
              PROVE  \/ onTheLine = "asked" /\ wire # <<>> /\ op.st = "waiting"
                     \/ onTheLine = "answered" /\ wire = <<>> /\ op.st # "idle"
                     \/ onTheLine = "free" /\ wire = <<>> /\ op.st = "idle"
  BY DEF TurnKnown
<1>1. Asking /\ Len(wire) <= 1
  BY DEF AskInv
<1>2. CASE wire # <<>>
  <2>1. op.st # "idle" /\ line = <<>> /\ Data(sb) = <<>> /\ Heard
    BY <1>1, <1>2 DEF Asking
  <2>2. op.st = "waiting"
    <3>1. op.st \in {"idle", "waiting", "matched"}
      BY AskingTypes DEF OpType
    <3>. QED BY <2>1, <3>1, NothingIsNoMatch DEF Heard
  <2>3. Len(wire) = 1
    <3>. DEFINE S == Seq(Written)
    <3>1. wire \in Seq(S)
      BY AskingTypes
    <3>. HIDE DEF S
    <3>2. Len(wire) \in Nat /\ Len(wire) # 0
      BY <1>2, <3>1, EmptySeq, LenProperties
    <3>. QED BY <1>1, <3>2
  <2>. QED BY <1>2, <2>1, <2>2, <2>3 DEF onTheLine
<1>3. CASE wire = <<>>
  <2>1. Len(wire) # 1
    BY <1>3
  <2>2. op.st = "idle" => line = <<>> \/ step = "listen"
    BY <1>1 DEF Asking
  <2>. QED BY <1>3, <2>1, <2>2 DEF onTheLine
<1>. QED BY <1>2, <1>3

\* Only the modem takes from the wire, and then the program does nothing.
LEMMA OnlyTheModemTakes ==
  ASSUME Inv, Next, wire # <<>>, wire' = <<>>
  PROVE  UNCHANGED program
<1>1. ~(Runs \/ Fails \/ Receives)
  <2>1. SUFFICES ASSUME Runs \/ Fails \/ Receives PROVE FALSE
    OBVIOUS
  <2>2. PICK w : wire' = Append(wire, w)
    BY <2>1, ProgramWrites DEF CmgsWritten, TextWritten, Write
  <2>. QED BY <2>2, WireEnd
<1>2. ~SmsArrives /\ ~StartsAgain
  BY DEF SmsArrives, SmsAnnounced, StartsAgain, StartsOver, device
<1>. QED BY <1>1, <1>2 DEF Next, ModemAnswers, ModemSpeaksUp, ModemActs

\* Only a program that reads nothing writes.
LEMMA OnlyTheIdleWrite ==
  ASSUME Next, wire = <<>>, wire' # <<>>
  PROVE  op.st = "idle" \/ step \in {"cmgs", "text"}
<1>1. SUFFICES ASSUME step \notin {"cmgs", "text"} PROVE op = Idle
  BY DEF Idle
<1>2. CASE Runs
  <2>1. CASE SendSmsActs
    BY <1>1, <2>1 DEF SendSmsActs, SendSmsOpened, SendSmsCmgfExecuted, SendSmsCscsExecuted, CmgsWritten,
                PromptRead, TextWritten, Opens, ExecuteWrites, ExecuteReturns, device
  <2>2. CASE ReceiveSmsActs
    BY <2>2 DEF ReceiveSmsActs, ReceiveSmsOpened, ReceiveSmsCmgfExecuted, ReceiveSmsCscsExecuted, CnmiExecuted,
                SmsListeningStarts, NoSmsRead, SmsRead, Opens, ExecuteWrites, ExecuteReturns, device
  <2>3. CASE VoiceCallActs
    BY <2>3 DEF VoiceCallActs, VoiceCallOpened, QueryExecuted, QcfgListeningStarts, NoQcfgRead, QcfgRead,
                ConfigExecuted, AudioOnExecuted, VoiceCallCscsExecuted, DialExecuted, HangUpExecuted,
                CallAwaited, AudioOffExecuted, Opens, ExecuteWrites, ExecuteReturns, ExecuteEnds, device
  <2>4. CASE QueryActs
    BY <2>4 DEF QueryActs, QueryOpened, AtOk, Ati, CopsWritten, CopsRead, Opens, ExecuteWrites, ExecuteEnds, device
  <2>. QED BY <1>2, <2>1, <2>2, <2>3, <2>4 DEF Runs
<1>3. ~Fails
  BY DEF Fails, SendSmsFails, ReceiveSmsFails, VoiceCallFails, QueryFails, OpenFails, ExecuteFails,
         ChainFails, SmsListeningFails, QcfgListeningFails, CopsFails, device
<1>4. ~Receives
  BY DEF Receives, Arrive
<1>5. ~(ModemAnswers \/ ModemSpeaksUp)
  BY DEF ModemAnswers, ModemSpeaksUp, ModemActs, ModemAccepts, ModemRefuses, ModemNotifies
<1>6. ~SmsArrives /\ ~StartsAgain
  BY DEF SmsArrives, SmsAnnounced, StartsAgain, StartsOver, device
<1>. QED BY <1>2, <1>3, <1>4, <1>5, <1>6 DEF Next

\* A dialogue begins with nothing asked and nothing left to be read.
LEMMA BeginsFree ==
  ASSUME Inv, CallInv, Next, Undisturbed', step' \notin {"open", "exit"},
         ~Undisturbed \/ step \in {"open", "exit"}
  PROVE  onTheLine' = "free"
<1>1. step # "exit"
  <2>1. SUFFICES ASSUME step = "exit" PROVE FALSE
    OBVIOUS
  <2>2. ~(Runs \/ Fails \/ Receives)
    BY <2>1, ProgramWrites
  <2>3. ~StartsAgain
    BY DEF StartsAgain, Undisturbed
  <2>4. step' = step
    BY <2>2, <2>3 DEF Next, ModemAnswers, ModemSpeaksUp, ModemActs, SmsArrives, SmsAnnounced, program
  <2>. QED BY <2>1, <2>4
<1>2. step = "open"
  BY <1>1, WasUndisturbed
<1>3. Runs
  <2>1. ~Fails
    BY FailsDisturbs
  <2>2. ~Receives /\ ~ModemAnswers /\ ~ModemSpeaksUp /\ ~SmsArrives /\ ~StartsAgain
    BY <1>2 DEF Receives, Arrive, ModemAnswers, ModemSpeaksUp, ModemActs, SmsArrives, SmsAnnounced, StartsAgain,
                StartsOver, program
  <2>. QED BY <2>1, <2>2 DEF Next
<1>4. line' = <<>> /\ wire = <<>> /\ op.st = "idle"
  BY <1>2, <1>3 DEF Runs, Undisturbed, CallInv
<1>5. wire' = wire /\ op' = op
  BY <1>2, <1>3, FirstItOpens DEF Opens
<1>6. Len(wire') # 1
  BY <1>4, <1>5
<1>. QED BY <1>4, <1>5, <1>6 DEF onTheLine

\* One step of the program, of the device or of the modem is one of the exchange.
LEMMA NextExchange ==
  ASSUME Inv, CallInv, AskInv, TurnKnown, TurnKnown', [Next]_vars
  PROVE  [Dialogue!Next]_onTheLine
<1>. DEFINE Off == ~Undisturbed \/ step \in {"open", "exit"}
<1>1. (Off => onTheLine = "none") /\ (Off' => onTheLine' = "none")
  BY DEF onTheLine
<1>2. ~Off => \/ onTheLine = "asked" /\ wire # <<>> /\ op.st = "waiting"
              \/ onTheLine = "answered" /\ wire = <<>> /\ op.st # "idle"
              \/ onTheLine = "free" /\ wire = <<>> /\ op.st = "idle"
  BY DEF TurnKnown
<1>3. ~Off' => \/ onTheLine' = "asked" /\ wire' # <<>> /\ op'.st = "waiting"
               \/ onTheLine' = "answered" /\ wire' = <<>> /\ op'.st # "idle"
               \/ onTheLine' = "free" /\ wire' = <<>> /\ op'.st = "idle"
  BY DEF TurnKnown
<1>4. CASE UNCHANGED vars
  BY <1>4 DEF vars, device, program, calls, onTheLine, Undisturbed
<1>5. CASE Next /\ Off'
  BY <1>1, <1>2, <1>5 DEF Dialogue!Next, Dialogue!Ends
<1>6. CASE Next /\ Off /\ ~Off'
  BY <1>1, <1>6, BeginsFree DEF Dialogue!Next, Dialogue!Begins
<1>7. CASE Next /\ ~Off /\ ~Off'
  <2>1. CASE onTheLine = "free"
    BY <1>3, <1>7, <2>1 DEF Dialogue!Next, Dialogue!Asks, Dialogue!Listens
  <2>2. CASE onTheLine = "asked"
    <3>1. wire' = <<>> => op' = op
      BY <1>2, <1>7, <2>2, OnlyTheModemTakes DEF program
    <3>. QED BY <1>2, <1>3, <1>7, <2>2, <3>1 DEF Dialogue!Next, Dialogue!Answers
  <2>3. CASE onTheLine = "answered"
    <3>1. Asking
      BY <1>7 DEF AskInv
    <3>2. wire' = <<>>
      BY <1>2, <1>7, <2>3, <3>1, OnlyTheIdleWrite DEF Asking
    <3>. QED BY <1>3, <1>7, <2>3, <3>2 DEF Dialogue!Next, Dialogue!GoesOn
  <2>. QED BY <1>2, <1>7, <2>1, <2>2, <2>3
<1>. QED BY <1>4, <1>5, <1>6, <1>7

\* Undisturbed, the program implements the abstract exchange: a command is only
\* written when nothing of an earlier answer is left, and the program goes on
\* when the answer has come and was read (execute.hpp, and the handlers), in
\* whatever pieces.
THEOREM ImplementsExchange == Spec => ExchangeSpec
<1>1. Init => CallInv /\ AskInv
  BY DEF Init, Started, Idle, CallInv, AskInv, Undisturbed
<1>2. Init => Dialogue!Init
  BY DEF Init, Started, Dialogue!Init, onTheLine
<1>3. Inv /\ CallInv /\ AskInv /\ TurnKnown /\ TurnKnown' /\ [Next]_vars => [Dialogue!Next]_onTheLine
  BY NextExchange
<1>. QED BY <1>1, <1>2, <1>3, TurnIsKnown, NextCall, NextAsk, FreshIsKept, PromptsAreKept, PTL DEF Spec, ExchangeSpec, Dialogue!Spec

-----------------------------------------------------------------------------
\* What the parser makes of the configuration.

\* A commit of bytes nobody read leaves what was there, with something behind.
LEMMA CommitAppends ==
  ASSUME NEW S, NEW b \in Buffers(S), NEW n \in Nat
  PROVE  \E u \in Seq(S) : Data(Commit(b, n)) = Data(b) \o u
<1>. DEFINE c == Commit(b, n)
            u == SubSeq(c.mem, b.p + 1, c.p)
<1>1. c \in Buffers(S) /\ c.mem = b.mem /\ c.g = b.g
  BY CommitProperties
<1>2. /\ b.mem \in Seq(S) /\ Len(b.mem) \in Nat
      /\ b.g \in Nat /\ b.p \in Nat /\ b.g <= b.p /\ b.p <= Len(b.mem)
  BY LenProperties DEF Buffers
<1>3. c.p \in Nat /\ b.p <= c.p /\ c.p <= Len(b.mem)
  <2>. DEFINE k == Least(n, Room(b))
  <2>1. k \in Nat /\ b.p + k <= Len(b.mem)
    BY <1>2 DEF Room, Least
  <2>2. c.p = b.p + k
    BY <1>2 DEF Commit, Buffers
  <2>. HIDE DEF k, c
  <2>. QED BY <1>2, <2>1, <2>2
<1>. HIDE DEF c
<1>4. u \in Seq(S)
  <2>1. \A i \in b.p + 1 .. c.p : c.mem[i] \in S
    BY <1>1, <1>2, <1>3, ElementOfSeq
  <2>2. b.p + 1 \in Int /\ c.p \in Int
    BY <1>2, <1>3
  <2>. QED BY <2>1, <2>2, SubSeqProperties
<1>5. SubSeq(b.mem, b.g + 1, b.p) \o SubSeq(b.mem, b.p + 1, c.p) = SubSeq(b.mem, b.g + 1, c.p)
  <2>. DEFINE mem == b.mem
              g == b.g + 1
              q == b.p
              r == c.p
  <2>1. mem \in Seq(S) /\ g \in 1 .. Len(mem) + 1 /\ q \in g - 1 .. Len(mem) /\ r \in q .. Len(mem)
    BY <1>2, <1>3
  <2>. HIDE DEF mem, g, q, r
  <2>2. SubSeq(mem, g, q) \o SubSeq(mem, q + 1, r) = SubSeq(mem, g, r)
    BY <2>1, ConcatAdjacentSubSeq
  <2>. QED BY <2>2 DEF mem, g, q, r
<1>. QED BY <1>1, <1>4, <1>5 DEF Data, c

\* A response whose first line is the configuration is parsed to it, whatever
\* was committed behind.
LEMMA ConfigIsRead ==
  ASSUME NEW s \in Seq(Char), NEW u \in Seq(Char), Matched(s), Run(s, 3) = Configuration
  PROVE  ParsedBody(s \o u) # <<>> /\ ParsedBody(s \o u)[1] = Configuration
<1>. DEFINE e == TextEnd(s, 3)
<1>1. EolAt(s, 1) /\ 3 \in 1 .. Len(s) + 1 /\ Len(s) \in Nat
  BY MatchedStartsWithEol, MatchLenProperties, LenProperties
<1>2. s[3] = "+QCFG:"
  <2>. DEFINE r == SubSeq(s, 3, e - 1)
  <2>1. e \in 3 .. Len(s) + 1 /\ e - 1 \in Int
    BY <1>1, TextEndProperties
  <2>2. r = <<"+QCFG:", "usb", "0">>
    BY DEF Run, Configuration
  <2>. HIDE DEF e
  <2>3. /\ \A i \in 3 .. e - 1 : s[i] \in Char
        /\ 3 \in Int
    BY <1>1, <2>1, ElementOfSeq
  <2>4. /\ Len(r) = (IF 3 <= e - 1 THEN e - 1 - 3 + 1 ELSE 0)
        /\ \A i \in 1 .. e - 1 - 3 + 1 : r[i] = s[3 + i - 1]
    BY <2>1, <2>3, SubSeqProperties
  <2>. HIDE DEF r
  <2>5. Len(r) = 3 /\ r[1] = "+QCFG:"
    BY <2>2
  <2>6. 1 \in 1 .. e - 1 - 3 + 1 /\ 3 + 1 - 1 = 3
    <3>1. e \in Int
      BY <1>1, <2>1
    <3>2. CASE 3 <= e - 1
      BY <3>1, <3>2
    <3>3. CASE ~(3 <= e - 1)
      <4>1. Len(r) = 0
        BY <2>4, <3>3
      <4>. QED BY <2>5, <4>1
    <3>. QED BY <3>2, <3>3
  <2>. QED BY <2>4, <2>5, <2>6
<1>3. "+QCFG:" \notin Codes \cup {PROMPT}
  BY ModemAssumption, TextAssumption
<1>4. HasLines(s) /\ ~FinalAt(s, 1)
  BY <1>2, <1>3 DEF Matched, FinalAt, CodeTried, HasPrompt, At
<1>5. HasLines(s \o u) /\ ~FinalAt(s \o u, 1)
  BY <1>4, FirstLineDecides
<1>6. Run(s \o u, 3) = Run(s, 3)
  BY <1>1, <1>4, ClosedRunIsTheSame DEF HasLines, LineAt
<1>. QED BY <1>5, <1>6, ConcatProperties, FirstLine DEF HasLines, LineAt

\* A final code has no lines, whatever was committed behind.
LEMMA CodeHasNoLines ==
  ASSUME NEW s \in Seq(Char), NEW u \in Seq(Char), FinalAt(s, 1)
  PROVE  ParsedBody(s \o u) = <<>>
BY FinalIsStable, FinalHasNoBody

\* What is found in a message that starts with the configuration as a line is
\* the configuration.
LEMMA LineTells ==
  ASSUME NEW S, NEW t \in Seq(S), EolAt(t, 1), Len(t) >= 7,
         t[3] = "+QCFG:", t[4] = "usb", t[5] = "0", t[6] = CR,
         NEW k \in 0 .. Len(t), Matched(SubSeq(t, 1, k))
  PROVE  Run(SubSeq(t, 1, k), 3) = Configuration
<1>. DEFINE p == SubSeq(t, 1, k)
<1>1. /\ p \in Seq(S) /\ Len(p) = k /\ (\A i \in 1 .. k : p[i] = t[i])
      /\ Len(t) \in Nat /\ DOMAIN t = 1 .. Len(t)
  BY PrefixProperties, LenProperties
<1>. HIDE DEF p
<1>2. "+QCFG:" # CR /\ "usb" # CR /\ "0" # CR /\ "+QCFG:" # PROMPT
  BY DEF CR, PROMPT
<1>3. k >= 7
  <2>1. At(t, 3, {PROMPT}) \/ \E j \in 4 .. k - 1 : EolAt(t, j)
    BY PrefixHasAnEnd
  <2>2. PICK j \in 4 .. k - 1 : t[j] = CR
    BY <1>2, <2>1 DEF At, EolAt
  <2>3. j # 4 /\ j # 5
    BY <1>2, <2>2
  <2>. QED BY <2>3
<1>4. p[3] = "+QCFG:" /\ p[4] = "usb" /\ p[5] = "0" /\ p[6] = CR
  BY <1>1, <1>3
<1>5. TextEnd(p, 3) = 6
  <2>1. 3 \in 1 .. Len(p) + 1 /\ 6 \in 3 .. Len(p) + 1
    BY <1>1, <1>3
  <2>2. \A i \in 3 .. 6 - 1 : p[i] # CR
    BY <1>2, <1>4
  <2>. QED BY <1>1, <1>4, <2>1, <2>2, TextEndIs
<1>6. SubSeq(p, 3, 5) = Configuration
  <2>. DEFINE r == SubSeq(p, 3, 5)
  <2>1. \A i \in 3 .. 5 : p[i] \in S
    BY <1>1, <1>3, ElementOfSeq
  <2>2. r \in Seq(S) /\ Len(r) = 3 /\ \A i \in 1 .. 3 : r[i] = p[3 + i - 1]
    <3>1. /\ r \in Seq(S)
          /\ Len(r) = (IF 3 <= 5 THEN 5 - 3 + 1 ELSE 0)
          /\ \A i \in 1 .. 5 - 3 + 1 : r[i] = p[3 + i - 1]
      BY <2>1, SubSeqProperties
    <3>. HIDE DEF r
    <3>. QED BY <3>1
  <2>. HIDE DEF r
  <2>3. r[1] = "+QCFG:" /\ r[2] = "usb" /\ r[3] = "0"
    BY <1>4, <2>2
  <2>. DEFINE c == <<r[1], r[2], r[3]>>
  <2>4. r = c
    BY <2>2
  <2>. QED BY <2>3, <2>4 DEF r, Configuration
<1>7. 6 - 1 = 5
  OBVIOUS
<1>. QED BY <1>5, <1>6, <1>7 DEF Run, p

\* What is found in a message that starts with a bare code ends with it.
LEMMA CodeComesFirst ==
  ASSUME NEW S, NEW t \in Seq(S), EolAt(t, 1), t[3] \in PlainCodes, EolAt(t, 4),
         NEW k \in 0 .. Len(t), Matched(SubSeq(t, 1, k))
  PROVE  FinalAt(SubSeq(t, 1, k), 1) /\ k >= 5
<1>. DEFINE p == SubSeq(t, 1, k)
<1>1. /\ p \in Seq(S) /\ Len(p) = k /\ (\A i \in 1 .. k : p[i] = t[i]) /\ DOMAIN p = 1 .. k
      /\ Len(t) \in Nat /\ DOMAIN t = 1 .. Len(t)
  BY PrefixProperties, LenProperties
<1>. HIDE DEF p
<1>2. t[3] \notin {PROMPT} /\ t[3] \notin ErrorCodes /\ t[3] \in Codes
  BY DEF PlainCodes, ErrorCodes, Codes, PROMPT
<1>3. k >= 5
  <2>1. At(t, 3, {PROMPT}) \/ \E j \in 4 .. k - 1 : EolAt(t, j)
    BY PrefixHasAnEnd
  <2>. QED BY <1>2, <2>1 DEF At
<1>4. EolAt(p, 1) /\ At(p, 3, Codes) /\ EolAt(p, 4) /\ p[3] = t[3]
  BY <1>1, <1>2, <1>3 DEF EolAt, At
<1>5. CodeTried(p, 1) /\ ~TextTried(p, 1) /\ p[1 + 2] \notin ErrorCodes
  BY <1>2, <1>4 DEF CodeTried, TextTried
<1>. QED BY <1>3, <1>4, <1>5 DEF FinalAt, CodeEnd, p
-----------------------------------------------------------------------------
(***************************************************************************)
(* What a call hears.  The answer to its question tells the configuration: *)
(* either what the first read finds starts with it, or that is the code    *)
(* and what the second read finds starts with it.                          *)
(***************************************************************************)
Tells(t) == Matched(t) => Run(t, 3) = Configuration

TellsSoon(t) ==
  \A k \in 0 .. Len(t) : Matched(SubSeq(t, 1, k)) =>
    \/ Run(SubSeq(t, 1, k), 3) = Configuration
    \/ FinalAt(SubSeq(t, 1, k), 1) /\ Tells(SubSeq(t, k + 1, Len(t)))

\* A refusal tells nothing, and there is nothing behind it.
LEMMA RefusalTells == TellsSoon(Said("ERROR"))
<1>. DEFINE t == Said("ERROR")
            S == {CR, LF, "ERROR"}
<1>1. t \in Seq(S) /\ Len(t) = 5 /\ DOMAIN t = 1 .. 5
      /\ t[1] = CR /\ t[2] = LF /\ t[3] = "ERROR" /\ t[4] = CR /\ t[5] = LF
  BY DEF Said, CRLF
<1>. HIDE DEF t, S
<1>2. EolAt(t, 1) /\ EolAt(t, 4)
  BY <1>1 DEF EolAt, At
<1>3. "ERROR" \in PlainCodes
  BY DEF PlainCodes
<1>. SUFFICES ASSUME NEW k \in 0 .. Len(t), Matched(SubSeq(t, 1, k))
              PROVE  FinalAt(SubSeq(t, 1, k), 1) /\ Tells(SubSeq(t, k + 1, Len(t)))
  BY DEF TellsSoon, t
<1>4. FinalAt(SubSeq(t, 1, k), 1) /\ k >= 5
  BY <1>1, <1>2, <1>3, CodeComesFirst
<1>5. k = 5
  BY <1>1, <1>4
<1>6. SubSeq(t, k + 1, Len(t)) = <<>>
  <2>1. 5 \in 0 .. Len(t) /\ Len(t) - 5 = 0 /\ 5 + 1 = 6
    BY <1>1
  <2>2. SubSeq(t, 5 + 1, Len(t)) \in Seq(S) /\ Len(SubSeq(t, 5 + 1, Len(t))) = Len(t) - 5
    BY <1>1, <2>1, Cut
  <2>. QED BY <1>5, <2>1, <2>2, EmptySeq
<1>. QED BY <1>4, <1>6, NothingIsNoMatch DEF Tells

\* The configuration in front of the code.
LEMMA ResponseTells == TellsSoon(Line(Configuration) \o Said("OK"))
<1>. DEFINE t == Line(Configuration) \o Said("OK")
            S == {CR, LF, "+QCFG:", "usb", "0", "OK"}
<1>1. /\ t \in Seq(S) /\ Len(t) = 12 /\ DOMAIN t = 1 .. 12
      /\ t[1] = CR /\ t[2] = LF /\ t[3] = "+QCFG:" /\ t[4] = "usb" /\ t[5] = "0" /\ t[6] = CR
  BY ConfigurationTokens
<1>. HIDE DEF t, S
<1>2. EolAt(t, 1)
  BY <1>1 DEF EolAt, At
<1>. SUFFICES ASSUME NEW k \in 0 .. Len(t), Matched(SubSeq(t, 1, k))
              PROVE  Run(SubSeq(t, 1, k), 3) = Configuration
  BY DEF TellsSoon, t
<1>3. Len(t) >= 7
  BY <1>1
<1>. QED BY <1>1, <1>2, <1>3, LineTells

\* The configuration behind it.
LEMMA UrcTells == TellsSoon(Said("OK") \o Line(Configuration))
<1>. DEFINE t == Said("OK") \o Line(Configuration)
            S == {CR, LF, "+QCFG:", "usb", "0", "OK"}
<1>1. /\ t \in Seq(S) /\ Len(t) = 12 /\ DOMAIN t = 1 .. 12
      /\ t[1] = CR /\ t[2] = LF /\ t[3] = "OK" /\ t[4] = CR /\ t[5] = LF /\ t[6] = CR
      /\ t[7] = LF /\ t[8] = "+QCFG:" /\ t[9] = "usb" /\ t[10] = "0" /\ t[11] = CR /\ t[12] = LF
  BY ConfigurationTokens
<1>. HIDE DEF t, S
<1>2. EolAt(t, 1) /\ EolAt(t, 4)
  BY <1>1 DEF EolAt, At
<1>3. "OK" \in PlainCodes
  BY DEF PlainCodes
<1>. SUFFICES ASSUME NEW k \in 0 .. Len(t), Matched(SubSeq(t, 1, k))
              PROVE  FinalAt(SubSeq(t, 1, k), 1) /\ Tells(SubSeq(t, k + 1, Len(t)))
  BY DEF TellsSoon, t
<1>4. FinalAt(SubSeq(t, 1, k), 1) /\ k >= 5
  BY <1>1, <1>2, <1>3, CodeComesFirst
<1>. DEFINE u == SubSeq(t, k + 1, Len(t))
<1>5. ASSUME Matched(u) PROVE Run(u, 3) = Configuration
  <2>1. /\ u \in Seq(S) /\ Len(u) = Len(t) - k /\ \A i \in 1 .. Len(t) - k : u[i] = t[k + i]
        /\ \A i \in Nat \ {0} : EolAt(u, i) => EolAt(t, k + i)
    BY <1>1, SuffixLooksTheSame, Cut
  <2>. HIDE DEF u
  <2>2. EolAt(u, 1) /\ Len(u) >= 3
    BY <1>5, <2>1, MatchedStartsWithEol, MatchLenProperties
  <2>3. t[k + 1] = CR /\ k + 1 \in 6 .. 10
    <3>1. EolAt(t, k + 1)
      BY <1>1, <2>1, <2>2
    <3>. QED BY <1>1, <1>4, <2>1, <2>2, <3>1 DEF EolAt, At
  <2>4. k = 5
    BY <1>1, <2>3 DEF CR, LF
  <2>5. /\ Len(u) = 7 /\ u[3] = t[8] /\ u[4] = t[9] /\ u[5] = t[10] /\ u[6] = t[11]
    BY <1>1, <2>1, <2>4
  <2>6. u[3] = "+QCFG:" /\ u[4] = "usb" /\ u[5] = "0" /\ u[6] = CR
    BY <1>1, <2>5
  <2>7. SubSeq(u, 1, 7) = u
    BY <2>1, <2>5, SubSeqFull
  <2>8. Len(u) >= 7 /\ 7 \in 0 .. Len(u)
    BY <2>5
  <2>9. Run(SubSeq(u, 1, 7), 3) = Configuration
    BY <1>5, <2>1, <2>2, <2>6, <2>7, <2>8, LineTells
  <2>. QED BY <2>7, <2>9
<1>. QED BY <1>4, <1>5 DEF Tells

\* All that may come back when a call has asked its question.
LEMMA AnswersTell ==
  ASSUME ~modem.text, NEW a, a \in Answers(Query) \/ a = Said("ERROR")
  PROVE  TellsSoon(a)
<1>1. Answers(Query) \subseteq {Line(Configuration) \o Said("OK"), Said("OK") \o Line(Configuration)}
  BY QueryNames DEF Answers
<1>. QED BY <1>1, RefusalTells, ResponseTells, UrcTells
\* Nothing unasked was said and nothing of an earlier use is left.
Alone == urcs = 0 /\ ~modem.sms /\ fresh

\* A call that has stopped listening has the configuration, or its read failed.
HasConfig == usb_cfg = <<"usb", "1">> \/ (usb_cfg = <<>> /\ faults > 0)

\* Where a call is with its configuration: it asks for it with an empty response
\* object, and either has heard it or will hear it in what is left to be read.
Telling ==
  /\ step = "query" =>
       /\ msg.body = <<>>
       /\ op.st # "idle" => IF wire = <<>> THEN TellsSoon(Data(sb) \o line) ELSE wire[1] = Query
  /\ step = "listen" =>
       /\ wire = <<>>
       /\ IF msg.body # <<>> THEN msg.body[1] = Configuration
          ELSE IF op.st = "idle" THEN Tells(line)
          ELSE Waits /\ Heard /\ Tells(Data(sb) \o line)
  /\ stopped => HasConfig

TellInv ==
  /\ faults \in Nat
  /\ subcommand \in {"make-call", "rcv-call"} =>
       /\ step = "open" => msg.body = <<>>
       /\ Alone => Telling

\* What a response object holds after a read.
LEMMA ShowsBody ==
  ASSUME Inv, Shows
  PROVE  \E u \in Seq(Char) :
           /\ msg'.body = msg.body \o ParsedBody(Data(sb) \o u)
           /\ ParsedBody(Data(sb) \o u) \in Seq(Seq(Char))
<1>. DEFINE d == Data(Commit(sb, op.rb))
<1>1. sb \in Buffers(Char) /\ op.rb \in Nat
  BY DEF Inv, SessionInv, SessionType, OpType
<1>2. PICK u \in Seq(Char) : d = Data(sb) \o u
  BY <1>1, CommitAppends
<1>3. d \in Seq(Char)
  BY <1>1, CommitProperties, DataProperties
<1>4. msg' = Populate(msg, d)
  BY DEF Shows
<1>. HIDE DEF d
<1>5. msg'.body = msg.body \o ParsedBody(d)
  BY <1>4 DEF Populate, Parse
<1>. QED BY <1>2, <1>3, <1>5, ParsedBodyType

\* The answer to the question is read: the configuration is in it, or is what
\* the next read finds.
LEMMA QueryTells ==
  ASSUME Inv, Asking, FreshInv, Telling, fresh, ~stopped, step = "query", QueryExecuted
  PROVE  Telling'
<1>1. stopped' = FALSE /\ ~modem.text
  BY DEF QueryExecuted, FreshInv
<1>2. CASE ExecuteWrites("query", make_at_qcfg_write(<<"USBCFG">>))
  <2>1. wire = <<>> /\ wire' = Append(wire, Query) /\ UNCHANGED <<step, msg>>
    BY <1>2 DEF ExecuteWrites, Write, Asking, Idle, Query
  <2>2. wire' # <<>> /\ wire'[1] = Query
    <3>1. Len(wire) = 0
      BY <2>1
    <3>. QED BY <2>1, <3>1, WireAppend
  <2>. QED BY <1>1, <2>1, <2>2 DEF Telling
<1>3. CASE ExecuteReturns("query", "listen")
  <2>1. op.st = "matched" /\ Shows /\ step' = "listen" /\ op'.st = "idle" /\ line' = line /\ wire' = wire
    BY <1>3 DEF ExecuteReturns, device, Idle
  <2>2. wire = <<>> /\ Heard /\ msg.body = <<>> /\ TellsSoon(Data(sb) \o line)
    BY <2>1, AnswerIsRead DEF Asking, Telling
  <2>. DEFINE s == Data(sb)
              t == s \o line
              k == Len(s)
  <2>3. line \in Seq(Char) /\ s \in Seq(Char) /\ Matched(s)
    BY <2>1, <2>2, AskingTypes DEF Heard
  <2>4. PICK u \in Seq(Char) : msg'.body = ParsedBody(s \o u)
    <3>1. PICK u \in Seq(Char) : /\ msg'.body = msg.body \o ParsedBody(s \o u)
                                 /\ ParsedBody(s \o u) \in Seq(Seq(Char))
      BY <2>1, ShowsBody
    <3>. QED BY <2>2, <3>1, ConcatEmptySeq
  <2>5. TellsSoon(t)
    BY <2>2
  <2>. HIDE DEF s
  <2>6. k \in 0 .. Len(t) /\ SubSeq(t, 1, k) = s /\ SubSeq(t, k + 1, Len(t)) = line
    BY <2>3, ConcatParts
  <2>. HIDE DEF t, k
  <2>7. Run(s, 3) = Configuration \/ (FinalAt(s, 1) /\ Tells(line))
    BY <2>3, <2>5, <2>6 DEF TellsSoon
  <2>8. IF msg'.body # <<>> THEN msg'.body[1] = Configuration ELSE Tells(line)
    BY <2>3, <2>4, <2>7, ConfigIsRead, CodeHasNoLines
  <2>. QED BY <1>1, <2>1, <2>2, <2>8 DEF Telling
<1>. QED BY <1>2, <1>3 DEF QueryExecuted

\* What a call that listens reads is the configuration.
LEMMA ListeningHears ==
  ASSUME Inv, Asking, Telling, step = "listen", op.st = "matched", Shows
  PROVE  msg'.body # <<>> /\ msg'.body[1] = Configuration
<1>. DEFINE s == Data(sb)
            B == Seq(Char)
            m == msg.body
<1>1. PICK u \in Seq(Char) : msg'.body = m \o ParsedBody(s \o u) /\ ParsedBody(s \o u) \in Seq(B)
  BY ShowsBody
<1>. DEFINE r == ParsedBody(s \o u)
<1>2. m \in Seq(B) /\ s \in Seq(Char)
  BY AskingTypes DEF Inv, SessionInv, SessionType, Response
<1>3. CASE m = <<>>
  <2>1. Heard /\ Tells(s \o line) /\ line = <<>>
    BY <1>3, AnswerIsRead DEF Telling, Last
  <2>2. Matched(s) /\ s \o <<>> = s
    BY <1>2, <2>1, ConcatEmptySeq DEF Heard
  <2>3. Run(s, 3) = Configuration
    BY <2>1, <2>2 DEF Tells
  <2>. HIDE DEF s, m, B
  <2>4. r # <<>> /\ r[1] = Configuration
    BY <1>2, <2>2, <2>3, ConfigIsRead
  <2>. HIDE DEF r
  <2>5. m \o r = r
    BY <1>1, <1>3, ConcatEmptySeq DEF r
  <2>. QED BY <1>1, <2>4, <2>5 DEF r
<1>4. CASE m # <<>>
  <2>1. m[1] = Configuration
    BY <1>4 DEF Telling
  <2>. HIDE DEF s, m, B, r
  <2>2. 1 \in 1 .. Len(m) /\ Len(m) \in Nat
    BY <1>2, <1>4, EmptySeq, LenProperties
  <2>3. /\ Len(m \o r) = Len(m) + Len(r) /\ Len(r) \in Nat
        /\ \A i \in 1 .. Len(m) + Len(r) : (m \o r)[i] = IF i <= Len(m) THEN m[i] ELSE r[i - Len(m)]
    BY <1>1, <1>2, ConcatProperties, LenProperties DEF r
  <2>4. (m \o r)[1] = m[1] /\ Len(m \o r) # 0
    BY <2>2, <2>3
  <2>5. m \o r # <<>>
    BY <2>4, EmptySeq
  <2>. QED BY <1>1, <2>1, <2>4, <2>5 DEF r
<1>. QED BY <1>3, <1>4

\* The configuration with its flag on.
LEMMA ConfigurationHasAValue ==
  ASSUME NEW m, m.body # <<>>, m.body[1] = Configuration
  PROVE  UrcReceived(m) /\ FlagOn(Tail(m.body[1])) = <<"usb", "1">>
<1>1. Tail(Configuration) = <<"usb", "0">> /\ Len(Configuration) = 3 /\ Configuration # <<>>
  BY DEF Configuration
<1>2. Configuration[1] = "+QCFG:" /\ Configuration[2] = "usb" /\ Configuration[3] = "0"
  BY DEF Configuration
<1>3. \A i \in 2 .. 3 : Configuration[i] # "+QCFG:"
  BY <1>2
<1>4. FlagOn(<<"usb", "0">>) = <<"usb", "1">>
  BY DEF FlagOn
<1>. QED BY <1>1, <1>2, <1>3, <1>4 DEF UrcReceived, FrontIs

\* A call listens.
LEMMA ListenTells ==
  ASSUME Inv, Asking, Telling, ~stopped, step = "listen", QcfgListeningStarts \/ NoQcfgRead \/ QcfgRead
  PROVE  Telling'
<1>1. CASE QcfgListeningStarts
  <2>1. op.st = "idle" /\ SearchOn(Fresh) /\ UNCHANGED <<line, wire, step, msg, stopped>>
    BY <1>1 DEF QcfgListeningStarts, device, Idle
  <2>2. op'.st # "idle" /\ Waits' /\ Heard' /\ Data(sb') = <<>>
    BY <2>1, FreshProperties, SearchFinds
  <2>3. <<>> \o line = line
    BY AskingTypes, ConcatEmptySeq
  <2>. QED BY <2>1, <2>2, <2>3 DEF Telling
<1>2. CASE NoQcfgRead \/ QcfgRead
  <2>1. op.st = "matched" /\ Shows
    BY <1>2 DEF NoQcfgRead, QcfgRead, ReadsAgain, ReadEnds
  <2>2. UrcReceived(msg') /\ FlagOn(Tail(msg'.body[1])) = <<"usb", "1">>
    BY <2>1, ListeningHears, ConfigurationHasAValue
  <2>3. QcfgRead
    BY <1>2, <2>2 DEF NoQcfgRead
  <2>4. step' = "config" /\ usb_cfg' = <<"usb", "1">>
    BY <2>2, <2>3 DEF QcfgRead
  <2>. QED BY <2>4 DEF Telling, HasConfig
<1>. QED BY <1>1, <1>2

\* Bytes of the answer arrive.
LEMMA ArriveTells ==
  ASSUME Inv, Asking, Telling, NEW n \in 1 .. Len(line), Arrive(n), UNCHANGED <<calls, faults>>
  PROVE  Telling'
<1>1. op.st = "waiting" /\ UNCHANGED <<wire, modem, step, msg, usb_cfg, stopped>>
  BY DEF Arrive, calls
<1>2. line # <<>>
  BY AskingTypes, EmptySeq
<1>3. CASE Waits
  <2>1. op'.st # "idle" /\ Waits' /\ Heard' /\ Data(sb') \o line' = Data(sb) \o line
    BY <1>3, BytesArrive
  <2>. QED BY <1>1, <2>1 DEF Telling, HasConfig
<1>4. CASE ~Waits
  <2>1. step # "query" /\ (step = "listen" => msg.body # <<>>)
    BY <1>1, <1>2, <1>4 DEF Asking, Telling
  <2>. QED BY <1>1, <2>1 DEF Telling, HasConfig
<1>. QED BY <1>3, <1>4

\* The modem answers.
LEMMA ModemTells ==
  ASSUME Inv, Asking, FreshInv, fresh, Telling, Len(wire) <= 1, ModemAccepts \/ ModemRefuses,
         UNCHANGED <<program, calls, faults>>
  PROVE  Telling'
<1>1. wire # <<>> /\ wire' = Tail(wire) /\ UNCHANGED <<step, sb, op, msg, usb_cfg, stopped>>
  BY DEF ModemAccepts, ModemRefuses, program, calls
<1>2. step # "listen"
  BY <1>1 DEF Telling
<1>3. CASE step = "query"
  <2>1. wire' = <<>> /\ Head(wire) = wire[1]
    BY <1>1, WireIsTaken
  <2>2. op.st # "idle" /\ line = <<>> /\ Data(sb) = <<>> /\ wire[1] = Query
    BY <1>1, <1>3 DEF Asking, Telling
  <2>3. /\ Data(sb') \o line' = line'
        /\ line' \in Answers(Query) \/ line' = Said("ERROR")
    BY <1>1, <2>1, <2>2, AnswerComes
  <2>4. ~modem.text
    BY <1>3 DEF FreshInv
  <2>5. TellsSoon(line')
    BY <2>3, <2>4, AnswersTell
  <2>. QED BY <1>1, <1>3, <2>1, <2>3, <2>5 DEF Telling, HasConfig
<1>4. CASE step # "query"
  BY <1>1, <1>2, <1>4 DEF Telling, HasConfig
<1>. QED BY <1>3, <1>4
\* What a call does.
LEMMA VoiceCallTells ==
  ASSUME Inv, FreshInv, CallInv, TellInv, subcommand \in {"make-call", "rcv-call"},
         VoiceCallActs, UNCHANGED <<urcs, modem, faults>>,
         step # "open" => Alone /\ UNCHANGED fresh /\ (~stopped => Asking)
  PROVE  Telling'
<1>1. CASE VoiceCallOpened
  <2>1. step = "open" /\ step' = "query" /\ UNCHANGED <<op, msg, stopped>>
    BY <1>1 DEF VoiceCallOpened, Opens
  <2>2. ~stopped /\ op.st = "idle" /\ msg.body = <<>>
    BY <2>1 DEF CallInv, TellInv
  <2>. QED BY <2>1, <2>2 DEF Telling
<1>2. CASE QueryExecuted
  <2>1. step = "query"
    BY <1>2 DEF QueryExecuted, ExecuteWrites, ExecuteReturns
  <2>2. ~stopped
    BY <2>1 DEF CallInv
  <2>. QED BY <1>2, <2>1, <2>2, QueryTells DEF Alone, TellInv
<1>3. CASE QcfgListeningStarts \/ NoQcfgRead \/ QcfgRead
  <2>1. step = "listen"
    BY <1>3 DEF QcfgListeningStarts, NoQcfgRead, QcfgRead, ReadsAgain, ReadEnds
  <2>2. ~stopped
    BY <2>1 DEF CallInv
  <2>. QED BY <1>3, <2>1, <2>2, ListenTells DEF TellInv
<1>4. CASE \/ ConfigExecuted \/ AudioOnExecuted \/ VoiceCallCscsExecuted
           \/ DialExecuted \/ HangUpExecuted \/ CallAwaited \/ AudioOffExecuted
  <2>1. UNCHANGED <<usb_cfg, stopped>> /\ step # "open" /\ step' \notin {"query", "listen"}
    BY <1>4 DEF ConfigExecuted, AudioOnExecuted, VoiceCallCscsExecuted, DialExecuted, HangUpExecuted,
                CallAwaited, AudioOffExecuted, ExecuteWrites, ExecuteReturns, ExecuteEnds, Exit
  <2>2. Telling
    BY <2>1 DEF TellInv
  <2>. QED BY <2>1, <2>2 DEF Telling, HasConfig
<1>. QED BY <1>1, <1>2, <1>3, <1>4 DEF VoiceCallActs

\* One step of the program, of the device or of the modem.
LEMMA NextTell == Inv /\ FreshInv /\ CallInv /\ AskInv /\ TellInv /\ [Next]_vars => TellInv'
<1>. SUFFICES ASSUME Inv, FreshInv, CallInv, AskInv, TellInv, [Next]_vars PROVE TellInv'
  OBVIOUS
<1>1. faults' \in Nat
  <2>1. faults \in Nat /\ (faults' = faults \/ faults' = faults + 1)
    BY DEF TellInv, Next, Runs, Fails, Receives, ModemAnswers, ModemSpeaksUp, SmsArrives, StartsAgain, vars
  <2>. QED BY <2>1
<1>2. CASE StartsAgain
  <2>1. msg'.body = <<>> /\ fresh' = FALSE
    BY <1>2 DEF StartsAgain, StartsOver, NoMessage
  <2>. QED BY <1>1, <2>1 DEF TellInv, Alone
<1>. SUFFICES ASSUME ~StartsAgain, subcommand' \in {"make-call", "rcv-call"}
              PROVE  (step' = "open" => msg'.body = <<>>) /\ (Alone' => Telling')
  BY <1>1, <1>2 DEF TellInv
<1>3. subcommand' = subcommand
  BY DEF Next, Runs, Fails, Receives, ModemAnswers, ModemSpeaksUp, SmsArrives, vars, life
<1>4. (step = "open" => msg.body = <<>>) /\ (Alone => Telling)
  BY <1>3 DEF TellInv
<1>5. Alone /\ ~stopped => Undisturbed
  BY DEF Alone, Undisturbed
<1>6. CASE Runs
  <2>1. VoiceCallActs /\ UNCHANGED faults /\ modem' = modem /\ (step # "open" => fresh' = fresh) /\ step # "exit"
    BY <1>3, <1>6, ProgramWrites DEF Runs
  <2>2. urcs' = urcs /\ step' # "open"
    BY <2>1 DEF VoiceCallActs, VoiceCallOpened, QueryExecuted, QcfgListeningStarts, NoQcfgRead, QcfgRead,
                ConfigExecuted, AudioOnExecuted, VoiceCallCscsExecuted, DialExecuted, HangUpExecuted,
                CallAwaited, AudioOffExecuted, ReadEnds, ReadsAgain, Opens, ExecuteWrites, ExecuteReturns, ExecuteEnds,
                Exit, Write, device
  <2>3. ASSUME Alone' PROVE Telling'
    <3>1. step # "open" => Alone /\ UNCHANGED fresh
      BY <2>1, <2>2, <2>3 DEF Alone
    <3>2. step # "open" /\ ~stopped => Asking
      BY <1>5, <2>1, <3>1 DEF AskInv
    <3>. QED BY <1>3, <2>1, <2>2, <3>1, <3>2, VoiceCallTells
  <2>. QED BY <2>2, <2>3
<1>7. CASE Fails
  <2>1. VoiceCallFails /\ faults' = faults + 1 /\ fresh' = fresh
    BY <1>3, <1>7 DEF Fails
  <2>2. faults' > 0
    BY <2>1 DEF TellInv
  <2>3. CASE QcfgListeningFails
    <3>1. step' = "config" /\ usb_cfg' = <<>>
      BY <2>3 DEF QcfgListeningFails, CallInv
    <3>. QED BY <2>2, <3>1 DEF Telling, HasConfig
  <2>4. CASE ~QcfgListeningFails
    <3>1. step' = "exit" /\ UNCHANGED <<urcs, modem, usb_cfg, stopped>>
      BY <2>1, <2>4 DEF VoiceCallFails, OpenFails, ExecuteFails, Exit, device
    <3>2. Alone' => Telling
      BY <1>4, <2>1, <3>1 DEF Alone
    <3>. QED BY <2>2, <3>1, <3>2 DEF Telling, HasConfig
  <2>. QED BY <2>3, <2>4
<1>8. CASE Receives
  <2>1. PICK n \in 1 .. Len(line) : Arrive(n)
    BY <1>8 DEF Receives
  <2>2. UNCHANGED <<urcs, modem, step, msg, calls, faults, fresh>> /\ step # "exit"
    BY <1>8, <2>1 DEF Receives, Arrive
  <2>3. Alone' => Alone
    BY <2>2 DEF Alone
  <2>4. ASSUME Alone PROVE Telling'
    <3>1. CASE stopped
      <4>1. step \notin {"query", "listen"}
        BY <3>1 DEF CallInv
      <4>. QED BY <1>4, <2>2, <2>4, <4>1 DEF Telling, HasConfig, calls
    <3>2. CASE ~stopped
      <4>1. Asking
        BY <1>5, <2>2, <2>4, <3>2 DEF AskInv
      <4>. QED BY <1>4, <2>1, <2>2, <2>4, <4>1, ArriveTells
    <3>. QED BY <3>1, <3>2
  <2>. QED BY <1>4, <2>2, <2>3, <2>4
<1>9. CASE ModemAnswers \/ ModemSpeaksUp
  <2>1. ModemActs /\ UNCHANGED <<program, calls, faults, fresh>>
    BY <1>9 DEF ModemAnswers, ModemSpeaksUp, ModemActs
  <2>2. UNCHANGED <<step, msg, stopped, usb_cfg>>
    BY <2>1 DEF program, calls
  <2>3. ASSUME Alone' PROVE Telling'
    <3>1. ~ModemNotifies
      <4>1. ASSUME ModemNotifies PROVE FALSE
        <5>1. urcs' = urcs + 1 /\ urcs \in Nat /\ urcs' = 0
          BY <2>3, <4>1 DEF ModemNotifies, CallInv, Alone
        <5>. QED BY <5>1
      <4>. QED BY <4>1
    <3>2. ModemAccepts \/ ModemRefuses
      BY <2>1, <3>1 DEF ModemActs
    <3>3. modem \in ModemType
      BY DEF Inv, SessionInv, SessionType
    <3>4. urcs' = urcs /\ modem'.sms = modem.sms
      <4>1. CASE ModemAccepts
        BY <3>3, <4>1 DEF ModemAccepts, Taken, ModemType
      <4>2. CASE ModemRefuses
        BY <3>3, <4>2 DEF ModemRefuses, ModemType
      <4>. QED BY <3>2, <4>1, <4>2
    <3>5. Alone /\ Telling
      BY <1>4, <2>1, <2>3, <3>4 DEF Alone
    <3>6. CASE stopped \/ step = "exit"
      <4>1. step \notin {"query", "listen"}
        BY <3>6 DEF CallInv
      <4>. QED BY <2>1, <2>2, <3>5, <4>1 DEF Telling, HasConfig
    <3>7. CASE ~stopped /\ step # "exit"
      <4>1. Asking /\ Len(wire) <= 1
        BY <1>5, <3>5, <3>7 DEF AskInv
      <4>. QED BY <2>1, <3>2, <3>5, <4>1, ModemTells DEF Alone
    <3>. QED BY <3>6, <3>7
  <2>. QED BY <1>4, <2>2, <2>3
<1>10. CASE SmsArrives
  <2>1. modem'.sms = TRUE /\ UNCHANGED <<step, msg>>
    BY <1>10 DEF SmsArrives, SmsAnnounced, program, Inv, SessionInv, SessionType, ModemType
  <2>. QED BY <1>4, <2>1 DEF Alone
<1>11. CASE UNCHANGED vars
  BY <1>4, <1>11 DEF vars, device, program, calls, Alone, Telling, HasConfig, Waits, Heard
<1>. QED BY <1>6, <1>7, <1>8, <1>9, <1>10, <1>11 DEF Next

\* It holds of every behaviour.
LEMMA CallsTell == Spec => [](CallInv /\ AskInv /\ TellInv)
<1>1. Init => CallInv /\ AskInv /\ TellInv
  BY DEF Init, Started, Idle, CallInv, AskInv, Undisturbed, TellInv, Alone, NoMessage
<1>. QED BY <1>1, NextCall, NextAsk, NextTell, FreshIsKept, PromptsAreKept, PTL DEF Spec

\* A call that stops listening has heard the configuration, unless its read
\* failed: it neither misses the answer to its question, in one message or two
\* and in whatever pieces it comes, nor takes another line for it
\* (do_make_vcall.cpp:99), as long as the modem says nothing unasked and no
\* earlier use left a trace.
THEOREM ConfigurationIsHeard == Spec => []ConfigIsHeard
<1>1. CallInv /\ TellInv => ConfigIsHeard
  BY DEF CallInv, TellInv, Alone, Telling, HasConfig, ConfigIsHeard
<1>. QED BY <1>1, CallsTell, PTL

-----------------------------------------------------------------------------
(***************************************************************************)
(* Calls that nobody disturbs: for them ConfigHasAValue is no hypothesis.  *)
(***************************************************************************)

\* A call that listens takes a line with a value for its configuration.
LEMMA QuietCallHasAValue ==
  Inv /\ CallInv /\ AskInv /\ TellInv /\ [Next]_vars => [Alone => HasAValue]_vars
<1>. SUFFICES ASSUME Inv, CallInv, AskInv, TellInv, Next, Alone,
                     step = "listen", step' = "config", op.st = "matched"
              PROVE  usb_cfg' # <<>>
  BY DEF HasAValue
<1>1. CASE Runs
  <2>1. subcommand \in {"make-call", "rcv-call"} /\ VoiceCallActs
    BY <1>1 DEF Runs, SendSmsActs, SendSmsOpened, SendSmsCmgfExecuted, SendSmsCscsExecuted, CmgsWritten, PromptRead,
                TextWritten, ReceiveSmsActs, ReceiveSmsOpened, ReceiveSmsCmgfExecuted, ReceiveSmsCscsExecuted,
                CnmiExecuted, SmsListeningStarts, NoSmsRead, SmsRead, QueryActs, QueryOpened, AtOk, Ati,
                CopsWritten, CopsRead, Opens, ExecuteWrites, ExecuteReturns, ExecuteEnds, ReadsAgain, ReadEnds, Exit
  <2>2. QcfgRead
    BY <2>1 DEF VoiceCallActs, VoiceCallOpened, QueryExecuted, QcfgListeningStarts, NoQcfgRead, QcfgRead,
                ConfigExecuted, AudioOnExecuted, VoiceCallCscsExecuted, DialExecuted, HangUpExecuted,
                CallAwaited, AudioOffExecuted, ReadsAgain, Opens, ExecuteWrites, ExecuteReturns, ExecuteEnds, Exit
  <2>3. ~stopped
    BY DEF CallInv
  <2>4. Telling /\ Asking
    BY <2>1, <2>3 DEF TellInv, AskInv, Alone, Undisturbed
  <2>5. Shows
    BY <2>2 DEF QcfgRead, ReadEnds
  <2>6. usb_cfg' = <<"usb", "1">>
    BY <2>2, <2>4, <2>5, ListeningHears, ConfigurationHasAValue DEF QcfgRead
  <2>. QED BY <2>6
<1>2. CASE Fails
  BY <1>2 DEF Fails, SendSmsFails, ReceiveSmsFails, VoiceCallFails, QueryFails, OpenFails, ExecuteFails, ChainFails,
              SmsListeningFails, QcfgListeningFails, CopsFails, Exit
<1>3. CASE ~Runs /\ ~Fails
  BY <1>3 DEF Next, Receives, ModemAnswers, ModemSpeaksUp, ModemActs, SmsArrives, SmsAnnounced, StartsAgain,
              StartsOver, Arrive, program
<1>. QED BY <1>1, <1>2, <1>3

\* The first program, as long as the modem says nothing unasked.
First == restarts = 0 /\ urcs = 0 /\ ~modem.sms

\* What it finds when it opens the device was never used, and what was once
\* disturbed stays so.
Unused ==
  /\ step = "open" => line = <<>> /\ wire = <<>> /\ ~modem.text
  /\ step \notin {"open", "exit"} => fresh

FirstInv == restarts \in Nat /\ (First => Unused)

\* One step of the program, of the device or of the modem.
LEMMA NextFirst == Inv /\ CallInv /\ FirstInv /\ [Next]_vars => (First' => First) /\ FirstInv'
<1>. SUFFICES ASSUME Inv, CallInv, FirstInv, [Next]_vars PROVE (First' => First) /\ FirstInv'
  OBVIOUS
<1>1. modem \in ModemType /\ wire \in Seq(Seq(Written))
  BY DEF Inv, SessionInv, SessionType
<1>2. CASE Runs
  <2>1. modem' = modem /\ step # "exit" /\ restarts' = restarts
    BY <1>2, ProgramWrites DEF Runs, life
  <2>2. urcs' = urcs /\ step' # "open" /\ (step = "open" => line' \in {line, <<>>} /\ wire' = wire)
    BY <1>2 DEF Runs, SendSmsActs, SendSmsOpened, SendSmsCmgfExecuted, SendSmsCscsExecuted, CmgsWritten, PromptRead,
                TextWritten, ReceiveSmsActs, ReceiveSmsOpened, ReceiveSmsCmgfExecuted, ReceiveSmsCscsExecuted,
                CnmiExecuted, SmsListeningStarts, NoSmsRead, SmsRead, QueryActs, QueryOpened, AtOk, Ati,
                CopsWritten, CopsRead, VoiceCallActs, VoiceCallOpened, QueryExecuted, QcfgListeningStarts, NoQcfgRead,
                QcfgRead, ConfigExecuted, AudioOnExecuted, VoiceCallCscsExecuted, DialExecuted, HangUpExecuted,
                CallAwaited, AudioOffExecuted, Opens, ExecuteWrites, ExecuteReturns, ExecuteEnds, ReadsAgain, ReadEnds,
                Write, device, Exit
  <2>3. First' <=> First
    BY <2>1, <2>2 DEF First
  <2>4. fresh' = IF step = "open" THEN line' = <<>> /\ wire = <<>> /\ ~modem.text ELSE fresh
    BY <1>2 DEF Runs
  <2>. QED BY <2>1, <2>2, <2>3, <2>4 DEF FirstInv, Unused
<1>3. CASE Fails
  <2>1. modem' = modem /\ step # "exit" /\ UNCHANGED <<restarts, fresh>>
    BY <1>3, ProgramWrites DEF Fails, life
  <2>2. urcs' = urcs /\ step' # "open" /\ (step = "open" => step' = "exit")
    BY <1>3 DEF Fails, SendSmsFails, ReceiveSmsFails, VoiceCallFails, QueryFails, OpenFails, ExecuteFails, ChainFails,
                SmsListeningFails, QcfgListeningFails, CopsFails, Exit, device
  <2>3. First' <=> First
    BY <2>1, <2>2 DEF First
  <2>. QED BY <2>1, <2>2, <2>3 DEF FirstInv, Unused
<1>4. CASE Receives
  <2>1. UNCHANGED <<modem, urcs, step, restarts, fresh>> /\ op.st = "waiting"
    BY <1>4 DEF Receives, Arrive, life
  <2>2. step # "open"
    BY <2>1 DEF CallInv
  <2>. QED BY <2>1, <2>2 DEF First, FirstInv, Unused
<1>5. CASE ModemAnswers \/ ModemSpeaksUp
  <2>1. ModemActs /\ UNCHANGED <<step, restarts, fresh>>
    BY <1>5 DEF ModemAnswers, ModemSpeaksUp, ModemActs, program, life
  <2>2. CASE ModemNotifies
    <3>1. urcs' = urcs + 1 /\ urcs \in Nat
      BY <2>2 DEF ModemNotifies, CallInv
    <3>2. ~First'
      BY <3>1 DEF First
    <3>. QED BY <2>1, <3>2 DEF FirstInv
  <2>3. CASE ModemAccepts \/ ModemRefuses
    <3>1. wire # <<>> /\ urcs' = urcs /\ modem'.sms = modem.sms
      BY <1>1, <2>3 DEF ModemAccepts, ModemRefuses, Taken, ModemType
    <3>2. First' <=> First
      BY <2>1, <3>1 DEF First
    <3>. QED BY <2>1, <3>1, <3>2 DEF FirstInv, Unused
  <2>. QED BY <2>1, <2>2, <2>3 DEF ModemActs
<1>6. CASE SmsArrives
  <2>1. modem'.sms = TRUE /\ restarts' = restarts
    BY <1>1, <1>6 DEF SmsArrives, SmsAnnounced, ModemType, life
  <2>. QED BY <2>1 DEF First, FirstInv, Unused
<1>7. CASE StartsAgain
  <2>1. restarts \in Nat /\ restarts' = restarts + 1
    BY <1>7 DEF StartsAgain, FirstInv
  <2>2. restarts' \in Nat /\ ~First'
    BY <2>1 DEF First
  <2>. QED BY <2>2 DEF FirstInv, Unused
<1>8. CASE UNCHANGED vars
  BY <1>8 DEF vars, device, program, life, First, FirstInv, Unused
<1>. QED BY <1>2, <1>3, <1>4, <1>5, <1>6, <1>7, <1>8 DEF Next

\* A call takes a line with a value for its configuration (ConfigHasAValue), so
\* that neither substr nor back is out of its bounds (do_make_vcall.cpp:113), if
\* the modem says nothing unasked and no earlier use left a trace.
THEOREM QuietConfigHasAValue == Spec => [][Alone => HasAValue]_vars
<1>. QED BY CallsTell, QuietCallHasAValue, PromptsAreKept, PTL DEF Spec

\* The configuration a call writes back is the one the modem has told, in
\* whatever pieces it was read, on the same conditions.
THEOREM QuietConfigIsTheModems == Spec => [](Alone => ConfigIsTheModems)
<1>1. CallInv /\ TellInv => (Alone => ConfigIsTheModems)
  BY DEF CallInv, TellInv, Telling, HasConfig, ConfigIsTheModems
<1>. QED BY <1>1, CallsTell, PTL

\* The first program only has the audio on when the modem was told to allow it,
\* has refused a command, or a read failed, as long as the modem says nothing
\* unasked.
THEOREM FirstCallIsConfigured == Spec => [](First => ConfiguredFirst)
<1>1. Init => FirstInv
  BY DEF Init, Started, PowerUp, FirstInv, Unused
<1>2. Spec => []FirstInv
  BY <1>1, NextFirst, CallsTell, PromptsAreKept, PTL DEF Spec
<1>3. Inv /\ Inv' /\ CallInv /\ FirstInv /\ (First => ConfigInv) /\ [Next]_vars /\ [Alone => HasAValue]_vars
      => (First' => ConfigInv')
  <2>. SUFFICES ASSUME Inv, Inv', CallInv, FirstInv, First => ConfigInv, [Next]_vars, [Alone => HasAValue]_vars, First'
                PROVE  ConfigInv'
    OBVIOUS
  <2>1. First /\ ConfigInv
    BY NextFirst
  <2>2. [HasAValue]_vars
    BY <2>1 DEF HasAValue, FirstInv, Unused, First, Alone
  <2>. QED BY <2>1, <2>2, NextConfig
<1>4. ConfigInv => ConfiguredFirst
  BY DEF ConfigInv, ConfiguredFirst, Told
<1>. QED BY <1>2, <1>3, <1>4, InitConfig, CallsTell, QuietConfigHasAValue, PromptsAreKept, PTL DEF Spec
=============================================================================
