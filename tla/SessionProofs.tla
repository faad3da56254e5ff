---------------------------- MODULE SessionProofs ----------------------------
(***************************************************************************)
(* Where the modem's prompt and the text of an SMS can be while programs   *)
(* use the modem: an invariant of every session, and what the actions the  *)
(* subcommands are made of do to it.                                       *)
(***************************************************************************)
EXTENDS Session, ReadOpsProofs

\* All bytes but the prompt.
Plain == Char \ {PROMPT}

\* What commands are made of, all but the one that asks for a text ...
Other ==
  {"AT", "S", "=", "+", "=?", "?", "CR", "LF", "I", "A", "H", "D", "CMGF", "CSCS",
   "CNMI", "CUSD", "QCFG", "QPCMV", "COPS", "1", "GSM", "1,2,0,0,0", "USBCFG", "1,2", "0", "{}"}
    \cup Char

\* ... and all of them: Ctrl-Z is no part of any.
Quiet == Other \cup {"CMGS"}

Written == Quiet \cup {SUB}

ModemType == [text : BOOLEAN, cmt : BOOLEAN, sms : BOOLEAN, flag : BOOLEAN,
              pcm : BOOLEAN, call : BOOLEAN, refused : BOOLEAN]

SessionType ==
  /\ line \in Seq(Char)
  /\ wire \in Seq(Seq(Written))
  /\ modem \in ModemType
  /\ sb \in Buffers(Char)
  /\ op \in OpType
  /\ msg \in Response

\* The program has not read a prompt, or has forgotten it.
Clean == sb \in Buffers(Plain) /\ msg.body \in Seq(Seq(Plain))

\* The program that runs may take the modem to be waiting for a text.
Holds == step # "exit" /\ ~Clean

\* A text is on its way to the modem.
Pending == \E i \in DOMAIN wire : Names(wire[i], SUB)

\* One prompt is on its way or held by the program, and then the modem waits
\* for a text and none is on its way; at most one ever is.
PromptInv ==
  /\ \A i, j \in DOMAIN line : line[i] = PROMPT /\ line[j] = PROMPT => i = j
  /\ Names(line, PROMPT) => modem.text /\ ~Pending /\ ~Holds
  /\ Holds => modem.text /\ ~Pending
  /\ step = "text" => msg.body \notin Seq(Seq(Plain))
  /\ \A i, j \in DOMAIN wire : Names(wire[i], SUB) /\ Names(wire[j], SUB) => i = j
  /\ Pending => modem.text

SessionInv == SessionType /\ PromptInv

-----------------------------------------------------------------------------
\* The tokens of the grammar and of the commands.
LEMMA Tokens ==
  /\ SUB \notin Quiet /\ "CMGS" \notin Other /\ Plain \subseteq Char
  /\ {CR, LF, NUL} \subseteq Plain /\ Codes \subseteq Plain
  /\ Text \subseteq Plain
  /\ Zero \in Plain /\ Zero \in Char
<1>1. {CR, LF, NUL} \subseteq Plain /\ Codes \subseteq Plain
  BY DEF Plain, Char, CR, LF, NUL, PROMPT, Codes, PlainCodes, ErrorCodes
<1>2. Text \subseteq Plain
  BY TextAssumption DEF Plain, Char
<1>3. SUB \notin Quiet /\ "CMGS" \notin Other
  BY ModemAssumption DEF Quiet, Other, Char, CR, LF, NUL, PROMPT, Codes, PlainCodes, ErrorCodes, SUB
<1>6. Zero \in Plain
  BY <1>1, SessionAssumption
<1>. QED BY <1>1, <1>2, <1>3, <1>6 DEF Plain

\* The tokens of a request on the wire.
LEMMA RequestTokens ==
  ASSUME NEW S, {"AT", "S", "=", "+", "=?", "?", "CR", "LF"} \subseteq S,
         NEW r, r.command \in Seq(S), r.args \in Seq(S)
  PROVE  ToString(r) \in Seq(S)
<1>1. /\ {<<"AT">>, <<"S">>, <<"=">>, <<"+">>, <<"=?">>, <<"?">>} \subseteq Seq(S)
      /\ <<"CR", "LF">> \in Seq(S)
  OBVIOUS
<1>. DEFINE c == r.command
            a == r.args
<1>2. c \in Seq(S) /\ a \in Seq(S)
  OBVIOUS
<1>. HIDE DEF c, a
<1>3. \A s, t \in Seq(S) : s \o t \in Seq(S)
  BY ConcatProperties
<1>4. /\ <<"S">> \o c \o <<"=">> \o a \in Seq(S)
      /\ <<"+">> \o c \o <<"=?">> \in Seq(S)
      /\ <<"+">> \o c \o <<"?">> \in Seq(S)
      /\ <<"+">> \o c \o <<"=">> \o a \in Seq(S)
      /\ <<"+">> \o c \in Seq(S)
      /\ c \o a \in Seq(S)
  BY <1>1, <1>2, <1>3
<1>. DEFINE mid == CASE r.form = "set"   -> <<"S">> \o c \o <<"=">> \o a
                     [] r.form = "test"  -> <<"+">> \o c \o <<"=?">>
                     [] r.form = "read"  -> <<"+">> \o c \o <<"?">>
                     [] r.form = "write" -> <<"+">> \o c \o <<"=">> \o a
                     [] r.form = "exec"  -> <<"+">> \o c
                     [] OTHER            -> c \o a
<1>5. mid \in Seq(S)
  BY <1>4
<1>6. ToString(r) = <<"AT">> \o mid \o <<"CR", "LF">>
  BY DEF ToString, c, a
<1>. HIDE DEF mid
<1>. QED BY <1>1, <1>3, <1>5, <1>6

\* The two parts of a sequence that is cut after k elements.
LEMMA Cut ==
  ASSUME NEW S, NEW s \in Seq(S), NEW k \in 0 .. Len(s)
  PROVE  /\ SubSeq(s, 1, k) \in Seq(S) /\ Len(SubSeq(s, 1, k)) = k
         /\ \A i \in 1 .. k : SubSeq(s, 1, k)[i] = s[i]
         /\ SubSeq(s, k + 1, Len(s)) \in Seq(S) /\ Len(SubSeq(s, k + 1, Len(s))) = Len(s) - k
         /\ \A i \in 1 .. Len(s) - k : SubSeq(s, k + 1, Len(s))[i] = s[k + i]
<1>. DEFINE L == Len(s)
<1>1. L \in Nat /\ k \in 0 .. L /\ \A i \in 1 .. L : s[i] \in S
  BY LenProperties, ElementOfSeq
<1>. HIDE DEF L
<1>2. /\ SubSeq(s, 1, k) \in Seq(S)
      /\ Len(SubSeq(s, 1, k)) = IF 1 <= k THEN k - 1 + 1 ELSE 0
      /\ \A i \in 1 .. k - 1 + 1 : SubSeq(s, 1, k)[i] = s[1 + i - 1]
  BY <1>1, SubSeqProperties
<1>3. /\ SubSeq(s, k + 1, L) \in Seq(S)
      /\ Len(SubSeq(s, k + 1, L)) = IF k + 1 <= L THEN L - (k + 1) + 1 ELSE 0
      /\ \A i \in 1 .. L - (k + 1) + 1 : SubSeq(s, k + 1, L)[i] = s[k + 1 + i - 1]
  BY <1>1, SubSeqProperties
<1>4. Len(SubSeq(s, 1, k)) = k /\ Len(SubSeq(s, k + 1, L)) = L - k
  BY <1>1, <1>2, <1>3
<1>5. ASSUME NEW i \in 1 .. k PROVE SubSeq(s, 1, k)[i] = s[i]
  <2>1. i \in 1 .. k - 1 + 1 /\ 1 + i - 1 = i
    BY <1>1
  <2>. QED BY <1>2, <2>1
<1>6. ASSUME NEW i \in 1 .. L - k PROVE SubSeq(s, k + 1, L)[i] = s[k + i]
  <2>1. i \in 1 .. L - (k + 1) + 1 /\ k + 1 + i - 1 = k + i
    BY <1>1
  <2>. QED BY <1>3, <2>1
<1>. QED BY <1>2, <1>3, <1>4, <1>5, <1>6 DEF L

\* What a program and the device do together: it takes bytes from the front of
\* the line, perhaps writes a command, and has a prompt only if it had one or
\* has taken one.
LEMMA StepKeepsPrompt ==
  ASSUME SessionInv, SessionType', step # "exit", modem' = modem,
         NEW k \in 0 .. Len(line), line' = SubSeq(line, k + 1, Len(line)),
         wire' = wire \/ \E w \in Seq(Quiet) : wire' = Append(wire, w),
         Clean /\ step' # "exit" => Clean' \/ Names(SubSeq(line, 1, k), PROMPT),
         step' = "text" => msg'.body \notin Seq(Seq(Plain))
  PROVE  SessionInv'
<1>. USE DEF SessionInv
<1>1. /\ line \in Seq(Char) /\ Len(line) \in Nat /\ DOMAIN line = 1 .. Len(line)
      /\ wire \in Seq(Seq(Written)) /\ Len(wire) \in Nat /\ DOMAIN wire = 1 .. Len(wire)
  BY LenProperties DEF SessionType
<1>2. DOMAIN line' = 1 .. Len(line) - k /\ \A i \in DOMAIN line' : line'[i] = line[k + i] /\ k + i \in DOMAIN line
  <2>1. line' \in Seq(Char) /\ Len(line') = Len(line) - k /\ \A i \in 1 .. Len(line) - k : line'[i] = line[k + i]
    BY <1>1, Cut
  <2>2. DOMAIN line' = 1 .. Len(line) - k
    BY <2>1, LenProperties
  <2>3. \A i \in 1 .. Len(line) - k : k + i \in 1 .. Len(line)
    BY <1>1
  <2>. QED BY <1>1, <2>1, <2>2, <2>3
<1>3. Names(line', PROMPT) => Names(line, PROMPT)
  BY <1>2 DEF Names
<1>4. Names(SubSeq(line, 1, k), PROMPT) => Names(line, PROMPT) /\ ~Names(line', PROMPT)
  <2>. SUFFICES ASSUME Names(SubSeq(line, 1, k), PROMPT)
                PROVE  Names(line, PROMPT) /\ ~Names(line', PROMPT)
    OBVIOUS
  <2>1. DOMAIN SubSeq(line, 1, k) = 1 .. k /\ \A i \in 1 .. k : SubSeq(line, 1, k)[i] = line[i]
    BY <1>1, Cut, LenProperties
  <2>2. PICK i \in 1 .. k : line[i] = PROMPT
    BY <2>1 DEF Names
  <2>3. i \in DOMAIN line
    BY <1>1
  <2>7. ASSUME NEW j \in DOMAIN line', line'[j] = PROMPT PROVE FALSE
    <3>1. line[k + j] = PROMPT /\ k + j \in DOMAIN line /\ j \in 1 .. Len(line) - k
      BY <1>2, <2>7
    <3>2. k + j = i
      BY <2>2, <2>3, <3>1 DEF PromptInv
    <3>. QED BY <1>1, <3>1, <3>2
  <2>. QED BY <2>2, <2>3, <2>7 DEF Names
<1>5. /\ Pending' <=> Pending
      /\ \A i, j \in DOMAIN wire' : Names(wire'[i], SUB) /\ Names(wire'[j], SUB) => i = j
  <2>1. CASE wire' = wire
    BY <2>1 DEF Pending, PromptInv
  <2>2. ASSUME NEW w \in Seq(Quiet), wire' = Append(wire, w)
        PROVE  /\ Pending' <=> Pending
               /\ \A i, j \in DOMAIN wire' : Names(wire'[i], SUB) /\ Names(wire'[j], SUB) => i = j
    <3>1. w \in Seq(Written)
      BY SeqMonotonic DEF Written
    <3>2. /\ Len(wire') = Len(wire) + 1 /\ wire' \in Seq(Seq(Written))
          /\ \A i \in 1 .. Len(wire) : wire'[i] = wire[i]
          /\ wire'[Len(wire) + 1] = w
      <4>. DEFINE S == Seq(Written)
      <4>1. wire \in Seq(S) /\ w \in S
        BY <1>1, <3>1
      <4>. HIDE DEF S
      <4>2. /\ Len(Append(wire, w)) = Len(wire) + 1 /\ Append(wire, w) \in Seq(S)
            /\ \A i \in 1 .. Len(wire) : Append(wire, w)[i] = wire[i]
            /\ Append(wire, w)[Len(wire) + 1] = w
        BY <4>1, AppendProperties
      <4>. QED BY <2>2, <4>2 DEF S
    <3>3. DOMAIN wire' = 1 .. Len(wire) + 1
      BY <3>2, LenProperties
    <3>4. ~Names(w, SUB)
      <4>1. \A i \in DOMAIN w : w[i] \in Quiet
        BY LenProperties, ElementOfSeq
      <4>. QED BY <4>1, Tokens DEF Names
    <3>5. \A i \in DOMAIN wire' : Names(wire'[i], SUB) => i \in DOMAIN wire /\ Names(wire[i], SUB)
      <4>. SUFFICES ASSUME NEW i \in DOMAIN wire', Names(wire'[i], SUB)
                    PROVE  i \in DOMAIN wire /\ Names(wire[i], SUB)
        OBVIOUS
      <4>1. i # Len(wire) + 1
        BY <3>2, <3>4
      <4>2. i \in 1 .. Len(wire)
        BY <1>1, <3>3, <4>1
      <4>. QED BY <1>1, <3>2, <4>2
    <3>6. \A i \in DOMAIN wire : i \in DOMAIN wire' /\ wire'[i] = wire[i]
      BY <1>1, <3>2, <3>3
    <3>. QED BY <3>5, <3>6 DEF Pending, PromptInv
  <2>. QED BY <2>1, <2>2
<1>6. Holds' => Holds \/ Names(SubSeq(line, 1, k), PROMPT)
  BY DEF Holds
<1>8. \A i, j \in DOMAIN line' : line'[i] = PROMPT /\ line'[j] = PROMPT => i = j
  <2>. SUFFICES ASSUME NEW i \in DOMAIN line', NEW j \in DOMAIN line', line'[i] = PROMPT, line'[j] = PROMPT
                PROVE  i = j
    OBVIOUS
  <2>1. k + i = k + j
    BY <1>2 DEF PromptInv
  <2>. QED BY <1>1, <1>2, <2>1
<1>9. PromptInv'
  BY <1>3, <1>4, <1>5, <1>6, <1>8 DEF PromptInv
<1>. QED BY <1>9

-----------------------------------------------------------------------------
\* The modem.

\* All bytes the modem answers or says with but prompts and SMSs.
Spoken == Char \ {PROMPT, "+CMT:"}

\* The modem only prompts when a text is asked of it, and says nothing more
\* until it got one.
LEMMA AnswersProperties ==
  ASSUME NEW w, NEW a \in Answers(w)
  PROVE  IF Names(w, SUB) THEN a \in Seq(Spoken)
         ELSE IF modem.text THEN a = <<>>
         ELSE IF Names(w, "CMGS") THEN a = Prompt ELSE a \in Seq(Spoken)
<1>1. \A s, t \in Seq(Spoken) : s \o t \in Seq(Spoken)
  BY ConcatProperties
<1>2. {CR, LF, "OK", "+CMGS:", "info", "+QCFG:", "usb", "0"} \subseteq Spoken
  <2>1. {CR, LF, "OK", "+CMGS:", "info", "+QCFG:", "usb", "0"} \subseteq Plain
    BY Tokens, ModemAssumption DEF Codes, PlainCodes
  <2>2. \A x \in {CR, LF, "OK", "+CMGS:", "info", "+QCFG:", "usb", "0"} : x # "+CMT:"
    BY DEF CR, LF
  <2>. QED BY <2>1, <2>2 DEF Plain, Spoken
<1>. HIDE DEF Spoken
<1>3. /\ CRLF \in Seq(Spoken) /\ <<>> \in Seq(Spoken)
      /\ <<"OK">> \in Seq(Spoken) /\ <<"+CMGS:">> \in Seq(Spoken) /\ <<"info">> \in Seq(Spoken)
      /\ Configuration \in Seq(Spoken)
  BY <1>2 DEF CRLF, Configuration
<1>4. /\ Said("OK") \in Seq(Spoken) /\ Line(<<"+CMGS:">>) \in Seq(Spoken)
      /\ Line(<<"info">>) \in Seq(Spoken) /\ Line(Configuration) \in Seq(Spoken)
  BY <1>1, <1>3 DEF Said, Line
<1>5. /\ Line(<<"+CMGS:">>) \o Said("OK") \in Seq(Spoken) /\ Line(<<"info">>) \o Said("OK") \in Seq(Spoken)
      /\ Line(Configuration) \o Said("OK") \in Seq(Spoken) /\ Said("OK") \o Line(Configuration) \in Seq(Spoken)
  BY <1>1, <1>4
<1>. QED BY <1>3, <1>4, <1>5 DEF Answers

\* What is spoken is plain.
LEMMA SpokenIsPlain == Seq(Spoken) \subseteq Seq(Plain)
BY SeqMonotonic DEF Spoken, Plain

\* Where the prompt is, when something without a prompt is said after it ...
LEMMA PromptStays ==
  ASSUME NEW s \in Seq(Char), NEW a \in Seq(Plain)
  PROVE  /\ s \o a \in Seq(Char)
         /\ \A i \in DOMAIN (s \o a) : (s \o a)[i] = PROMPT => i \in DOMAIN s /\ s[i] = PROMPT
<1>. DEFINE t == s \o a
<1>1. a \in Seq(Char) /\ (\A i \in 1 .. Len(a) : a[i] # PROMPT) /\ Len(s) \in Nat /\ Len(a) \in Nat
  <2>1. \A i \in 1 .. Len(a) : a[i] \in Plain
    BY ElementOfSeq
  <2>. QED BY <2>1, Tokens, SeqMonotonic, LenProperties DEF Plain
<1>2. /\ t \in Seq(Char) /\ Len(t) = Len(s) + Len(a)
      /\ \A i \in 1 .. Len(s) + Len(a) : t[i] = IF i <= Len(s) THEN s[i] ELSE a[i - Len(s)]
  BY <1>1, ConcatProperties
<1>3. DOMAIN t = 1 .. Len(s) + Len(a) /\ DOMAIN s = 1 .. Len(s)
  BY <1>2, LenProperties
<1>4. ASSUME NEW i \in DOMAIN t, t[i] = PROMPT PROVE i \in DOMAIN s /\ s[i] = PROMPT
  <2>1. i \in 1 .. Len(s) + Len(a)
    BY <1>3
  <2>2. CASE i <= Len(s)
    BY <1>1, <1>2, <1>3, <1>4, <2>1, <2>2
  <2>3. CASE ~(i <= Len(s))
    <3>1. i - Len(s) \in 1 .. Len(a) /\ a[i - Len(s)] = PROMPT
      BY <1>1, <1>2, <1>4, <2>1, <2>3
    <3>. QED BY <1>1, <3>1
  <2>. QED BY <2>2, <2>3
<1>. QED BY <1>2, <1>4

\* ... and when the modem prompts and there was none.
LEMMA PromptOnce ==
  ASSUME NEW s \in Seq(Char), ~Names(s, PROMPT)
  PROVE  /\ s \o Prompt \in Seq(Char)
         /\ \A i, j \in DOMAIN (s \o Prompt) :
              (s \o Prompt)[i] = PROMPT /\ (s \o Prompt)[j] = PROMPT => i = j
<1>. DEFINE t == s \o CRLF
            n == Len(t)
<1>1. CRLF \in Seq(Plain) /\ CRLF \in Seq(Char) /\ PROMPT \in Char /\ <<PROMPT>> \in Seq(Char)
  BY Tokens DEF CRLF, Char
<1>2. t \in Seq(Char) /\ ~Names(t, PROMPT)
  BY <1>1, PromptStays DEF Names
<1>3. s \o Prompt = Append(t, PROMPT)
  <2>1. s \o (CRLF \o <<PROMPT>>) = (s \o CRLF) \o <<PROMPT>>
    BY <1>1, ConcatAssociative
  <2>. HIDE DEF t
  <2>2. Append(t, PROMPT) = t \o <<PROMPT>>
    BY <1>1, <1>2, AppendIsConcat
  <2>. QED BY <2>1, <2>2 DEF Prompt, t
<1>. HIDE DEF t
<1>4. /\ Append(t, PROMPT) \in Seq(Char) /\ Len(Append(t, PROMPT)) = n + 1 /\ n \in Nat
      /\ \A i \in 1 .. n : Append(t, PROMPT)[i] = t[i]
  BY <1>1, <1>2, AppendProperties, LenProperties
<1>5. DOMAIN t = 1 .. n /\ DOMAIN Append(t, PROMPT) = 1 .. n + 1
  BY <1>2, <1>4, LenProperties
<1>6. \A i \in DOMAIN Append(t, PROMPT) : Append(t, PROMPT)[i] = PROMPT => i = n + 1
  BY <1>2, <1>4, <1>5 DEF Names
<1>. QED BY <1>3, <1>4, <1>6

\* What is left on the wire when the modem has taken a piece.
LEMMA WireTail ==
  ASSUME SessionInv, wire # <<>>, wire' = Tail(wire)
  PROVE  /\ wire' \in Seq(Seq(Written))
         /\ \A i, j \in DOMAIN wire' : Names(wire'[i], SUB) /\ Names(wire'[j], SUB) => i = j
         /\ Names(Head(wire), SUB) => Pending /\ ~Pending'
         /\ ~Names(Head(wire), SUB) => (Pending' <=> Pending)
<1>. DEFINE S == Seq(Written)
<1>1. wire \in Seq(S)
  BY DEF SessionInv, SessionType
<1>. HIDE DEF S
<1>2. /\ wire' \in Seq(S) /\ Len(wire') = Len(wire) - 1
      /\ \A i \in 1 .. Len(wire') : wire'[i] = wire[i + 1]
      /\ Head(wire) = wire[1] /\ Len(wire) \in Nat \ {0}
  BY <1>1, HeadTailProperties, EmptySeq
<1>3. /\ DOMAIN wire = 1 .. Len(wire) /\ DOMAIN wire' = 1 .. Len(wire) - 1
      /\ \A i \in DOMAIN wire' : i + 1 \in DOMAIN wire /\ wire'[i] = wire[i + 1] /\ i + 1 # 1
      /\ \A i \in DOMAIN wire : i # 1 => i - 1 \in DOMAIN wire' /\ wire'[i - 1] = wire[i]
  <2>1. DOMAIN wire = 1 .. Len(wire) /\ DOMAIN wire' = 1 .. Len(wire) - 1
    BY <1>1, <1>2, LenProperties
  <2>2. \A i \in 1 .. Len(wire) - 1 : i + 1 \in 1 .. Len(wire) /\ i + 1 # 1
    BY <1>2
  <2>3. \A i \in 1 .. Len(wire) : i # 1 => i - 1 \in 1 .. Len(wire) - 1 /\ (i - 1) + 1 = i
    BY <1>2
  <2>. QED BY <1>2, <2>1, <2>2, <2>3
<1>4. \A i, j \in DOMAIN wire : Names(wire[i], SUB) /\ Names(wire[j], SUB) => i = j
  BY DEF SessionInv, PromptInv
<1>5. 1 \in DOMAIN wire /\ Head(wire) = wire[1]
  BY <1>2, <1>3
<1>6. \A i, j \in DOMAIN wire' : i + 1 = j + 1 => i = j
  BY <1>2, <1>3
<1>7. ASSUME NEW i \in DOMAIN wire', Names(wire'[i], SUB)
      PROVE  i + 1 \in DOMAIN wire /\ Names(wire[i + 1], SUB)
  BY <1>3, <1>7
<1>8. \A i, j \in DOMAIN wire' : Names(wire'[i], SUB) /\ Names(wire'[j], SUB) => i = j
  BY <1>4, <1>6, <1>7
<1>9. Pending' => Pending
  BY <1>7 DEF Pending
<1>10. ASSUME Names(Head(wire), SUB) PROVE Pending /\ ~Pending'
  <2>1. \A i \in DOMAIN wire' : ~Names(wire'[i], SUB)
    BY <1>3, <1>4, <1>5, <1>7, <1>10
  <2>. QED BY <1>5, <1>10, <2>1 DEF Pending
<1>11. ASSUME ~Names(Head(wire), SUB), Pending PROVE Pending'
  <2>1. PICK i \in DOMAIN wire : Names(wire[i], SUB)
    BY <1>11 DEF Pending
  <2>2. i - 1 \in DOMAIN wire' /\ Names(wire'[i - 1], SUB)
    BY <1>3, <1>5, <1>11, <2>1
  <2>. QED BY <2>2 DEF Pending
<1>. QED BY <1>2, <1>8, <1>9, <1>10, <1>11 DEF S

\* The modem says something without a prompt.  It may take a piece that is no
\* text, or the only text there is.
LEMMA SpeechKeepsPrompt ==
  ASSUME SessionInv, UNCHANGED program, modem' \in ModemType,
         NEW a \in Seq(Plain), line' = line \o a,
         UNCHANGED wire \/ (wire # <<>> /\ wire' = Tail(wire)),
         \/ modem'.text = modem.text /\ (Pending' <=> Pending)
         \/ Pending /\ ~Pending'
  PROVE  SessionInv'
<1>. USE DEF SessionInv
<1>1. SessionType /\ PromptInv /\ line \in Seq(Char)
  BY DEF SessionType
<1>2. /\ line' \in Seq(Char)
      /\ \A i \in DOMAIN line' : line'[i] = PROMPT => i \in DOMAIN line /\ line[i] = PROMPT
  BY <1>1, PromptStays
<1>3. Names(line', PROMPT) => Names(line, PROMPT)
  BY <1>2 DEF Names
<1>4. \A i, j \in DOMAIN line' : line'[i] = PROMPT /\ line'[j] = PROMPT => i = j
  BY <1>1, <1>2 DEF PromptInv
<1>5. /\ wire' \in Seq(Seq(Written))
      /\ \A i, j \in DOMAIN wire' : Names(wire'[i], SUB) /\ Names(wire'[j], SUB) => i = j
  <2>1. CASE UNCHANGED wire
    BY <1>1, <2>1 DEF SessionType, PromptInv
  <2>2. CASE wire # <<>> /\ wire' = Tail(wire)
    BY <2>2, WireTail
  <2>. QED BY <2>1, <2>2
<1>6. SessionType'
  BY <1>1, <1>2, <1>5 DEF SessionType, program
<1>7. (Holds' <=> Holds) /\ UNCHANGED <<step, msg>>
  BY DEF Holds, Clean, program
<1>8. PromptInv'
  BY <1>1, <1>3, <1>4, <1>5, <1>7 DEF PromptInv
<1>. QED BY <1>6, <1>8

\* A modem whose fields were set is a modem.
LEMMA ModemExcept ==
  ASSUME NEW m \in ModemType, NEW text \in BOOLEAN, NEW cmt \in BOOLEAN, NEW flag \in BOOLEAN,
         NEW pcm \in BOOLEAN, NEW call \in BOOLEAN
  PROVE  [m EXCEPT !.text = text, !.cmt = cmt, !.flag = flag, !.pcm = pcm, !.call = call] \in ModemType
BY DEF ModemType

\* What a piece does to the modem's text entry.
LEMMA TakenProperties ==
  ASSUME modem \in ModemType, NEW w
  PROVE  /\ Taken(w) \in ModemType
         /\ Taken(w).text = IF modem.text THEN ~Names(w, SUB) ELSE Names(w, "CMGS")
<1>0. modem \in ModemType
  OBVIOUS
<1>1. CASE modem.text
  <2>1. Taken(w) = [modem EXCEPT !.text = ~Names(w, SUB)]
    BY <1>1 DEF Taken
  <2>2. (~Names(w, SUB)) \in BOOLEAN
    OBVIOUS
  <2>. QED BY <1>1, <2>1, <2>2 DEF ModemType
<1>2. CASE ~modem.text
  <2>. DEFINE prompts == Names(w, "CMGS")
              cmt  == modem.cmt \/ Names(w, "CNMI")
              flag == modem.flag \/ (Names(w, "QCFG") /\ Names(w, "1"))
              pcm  == IF Names(w, "QPCMV") THEN Names(w, "1,2") ELSE modem.pcm
              call == (modem.call \/ Names(w, "D")) /\ ~Names(w, "H")
  <2>1. Taken(w) = [modem EXCEPT !.text = prompts, !.cmt = cmt, !.flag = flag, !.pcm = pcm, !.call = call]
    BY <1>2 DEF Taken
  <2>2. prompts \in BOOLEAN /\ cmt \in BOOLEAN /\ flag \in BOOLEAN /\ call \in BOOLEAN
    BY DEF Names
  <2>3. pcm \in BOOLEAN
    BY DEF ModemType, Names
  <2>4. prompts = Names(w, "CMGS")
    OBVIOUS
  <2>. HIDE DEF prompts, cmt, flag, pcm, call
  <2>5. [modem EXCEPT !.text = prompts, !.cmt = cmt, !.flag = flag, !.pcm = pcm, !.call = call] \in ModemType
    BY <1>0, <2>2, <2>3, ModemExcept
  <2>6. Taken(w).text = prompts
    BY <2>1 DEF ModemType
  <2>. QED BY <1>2, <2>1, <2>4, <2>5, <2>6
<1>. QED BY <1>1, <1>2

\* The modem acts: it takes a piece and answers or refuses it, or speaks unasked.
LEMMA ModemKeepsPrompt == SessionInv /\ ModemActs => SessionInv'
<1>. SUFFICES ASSUME SessionInv, ModemActs PROVE SessionInv'
  OBVIOUS
<1>1. /\ SessionType /\ PromptInv /\ line \in Seq(Char) /\ modem \in ModemType
      /\ UNCHANGED program
  BY DEF SessionInv, SessionType, ModemActs
<1>2. CASE ModemAccepts
  <2>. DEFINE w == Head(wire)
  <2>1. PICK a \in Answers(w) : line' = line \o a
    BY <1>2 DEF ModemAccepts
  <2>2. wire # <<>> /\ wire' = Tail(wire) /\ modem' = Taken(w)
    BY <1>2 DEF ModemAccepts
  <2>3. /\ modem' \in ModemType
        /\ modem'.text = IF modem.text THEN ~Names(w, SUB) ELSE Names(w, "CMGS")
    BY <1>1, <2>2, TakenProperties
  <2>4. Names(w, SUB) => Pending /\ ~Pending'
    BY <2>2, WireTail
  <2>5. ~Names(w, SUB) => (Pending' <=> Pending)
    BY <2>2, WireTail
  <2>. HIDE DEF w
  <2>6. CASE Names(w, SUB)
    <3>1. a \in Seq(Plain)
      BY <2>1, <2>6, AnswersProperties, SpokenIsPlain
    <3>. QED BY <1>1, <2>1, <2>2, <2>3, <2>4, <2>6, <3>1, SpeechKeepsPrompt
  <2>7. CASE ~Names(w, SUB) /\ (modem.text \/ ~Names(w, "CMGS"))
    <3>1. a \in Seq(Plain)
      <4>1. a = <<>> \/ a \in Seq(Plain)
        BY <2>1, <2>7, AnswersProperties, SpokenIsPlain
      <4>2. <<>> \in Seq(Plain)
        BY EmptySeq
      <4>. QED BY <4>1, <4>2
    <3>2. modem'.text = modem.text
      BY <1>1, <2>3, <2>7 DEF ModemType
    <3>. QED BY <1>1, <2>1, <2>2, <2>3, <2>5, <2>7, <3>1, <3>2, SpeechKeepsPrompt
  <2>8. CASE ~Names(w, SUB) /\ ~modem.text /\ Names(w, "CMGS")
    <3>1. a = Prompt
      BY <2>1, <2>8, AnswersProperties
    <3>2. ~Names(line, PROMPT) /\ ~Holds /\ ~Pending
      BY <1>1, <2>8 DEF PromptInv
    <3>3. /\ line' \in Seq(Char)
          /\ \A i, j \in DOMAIN line' : line'[i] = PROMPT /\ line'[j] = PROMPT => i = j
      BY <1>1, <2>1, <3>1, <3>2, PromptOnce
    <3>4. modem'.text /\ ~Pending'
      BY <2>3, <2>5, <2>8, <3>2
    <3>5. wire' \in Seq(Seq(Written))
      BY <2>2, WireTail
    <3>6. ~Holds' /\ step' # "text"
      <4>1. step # "text"
        BY <1>1, <3>2 DEF Holds, Clean, PromptInv
      <4>. QED BY <1>1, <3>2, <4>1 DEF Holds, Clean, program
    <3>7. SessionType'
      BY <1>1, <2>3, <3>3, <3>5 DEF SessionType, program
    <3>8. PromptInv'
      BY <3>3, <3>4, <3>6 DEF PromptInv, Pending
    <3>. QED BY <3>7, <3>8 DEF SessionInv
  <2>. QED BY <2>6, <2>7, <2>8
<1>3. CASE ModemRefuses
  <2>1. /\ ~modem.text /\ line' = line \o Said("ERROR") /\ wire # <<>> /\ wire' = Tail(wire)
        /\ modem' = [modem EXCEPT !.refused = TRUE]
    BY <1>3 DEF ModemRefuses
  <2>2. modem' \in ModemType /\ modem'.text = modem.text
    BY <1>1, <2>1 DEF ModemType
  <2>3. Said("ERROR") \in Seq(Plain)
    <3>1. {CR, LF, "ERROR"} \subseteq Plain
      BY Tokens DEF Codes, PlainCodes
    <3>2. CRLF \in Seq(Plain) /\ <<"ERROR">> \in Seq(Plain)
      BY <3>1 DEF CRLF
    <3>. QED BY <3>2, ConcatProperties DEF Said
  <2>4. ~Pending /\ ~Pending'
    BY <1>1, <2>1, WireTail DEF PromptInv
  <2>. QED BY <1>1, <2>1, <2>2, <2>3, <2>4, SpeechKeepsPrompt
<1>4. CASE ModemNotifies
  <2>1. PICK u \in Urcs : line' = line \o u
    BY <1>4 DEF ModemNotifies
  <2>2. u \in Seq(Plain)
    <3>1. u \in Seq(Spoken)
      BY ModemAssumption DEF Spoken
    <3>. QED BY <3>1, SpokenIsPlain
  <2>3. UNCHANGED <<wire, modem>> /\ (Pending' <=> Pending)
    BY <1>4 DEF ModemNotifies, Pending
  <2>. QED BY <1>1, <2>1, <2>2, <2>3, SpeechKeepsPrompt
<1>. QED BY <1>2, <1>3, <1>4 DEF ModemActs

\* A step of the modem opens text entry, takes the text, or does neither.
LEMMA ModemEntry ==
  ASSUME SessionInv, ModemActs
  PROVE  \/ modem'.text = modem.text /\ (Pending' <=> Pending)
         \/ ~modem.text /\ ~Pending /\ modem'.text /\ ~Pending'
         \/ modem.text /\ Pending /\ ~modem'.text /\ ~Pending'
<1>1. modem \in ModemType /\ modem.text \in BOOLEAN /\ (Pending => modem.text)
  BY DEF SessionInv, SessionType, ModemType, PromptInv
<1>2. CASE ModemAccepts
  <2>. DEFINE w == Head(wire)
  <2>1. wire # <<>> /\ wire' = Tail(wire) /\ modem' = Taken(w)
    BY <1>2 DEF ModemAccepts
  <2>2. modem'.text = IF modem.text THEN ~Names(w, SUB) ELSE Names(w, "CMGS")
    BY <1>1, <2>1, TakenProperties
  <2>3. Names(w, SUB) => Pending /\ ~Pending'
    BY <2>1, WireTail
  <2>4. ~Names(w, SUB) => (Pending' <=> Pending)
    BY <2>1, WireTail
  <2>. HIDE DEF w
  <2>5. CASE modem.text
    BY <1>1, <2>2, <2>3, <2>4, <2>5
  <2>6. CASE ~modem.text
    BY <1>1, <2>2, <2>3, <2>4, <2>6 DEF Names
  <2>. QED BY <2>5, <2>6
<1>3. CASE ModemRefuses
  <2>1. ~modem.text /\ wire # <<>> /\ wire' = Tail(wire) /\ modem'.text = modem.text
    BY <1>1, <1>3 DEF ModemRefuses, ModemType
  <2>. QED BY <1>1, <2>1, WireTail
<1>4. CASE ModemNotifies
  BY <1>4 DEF ModemNotifies, Pending
<1>. QED BY <1>2, <1>3, <1>4 DEF ModemActs

-----------------------------------------------------------------------------
\* The program.

\* A search keeps a buffer a buffer and asks for a read of its own kind.
LEMMA SearchOnKeeps ==
  ASSUME NEW S, Zero \in S, NEW b \in Buffers(S), SearchOn(b)
  PROVE  sb' \in Buffers(S) /\ op' \in OpType
BY SearchProperties DEF SearchOn

\* What is shown is a response, without a prompt if the program had none.
LEMMA ShowsKeeps ==
  ASSUME SessionType, Shows
  PROVE  msg' \in Response /\ (Clean => msg'.body \in Seq(Seq(Plain)))
<1>. DEFINE b == Commit(sb, op.rb)
<1>1. sb \in Buffers(Char) /\ op.rb \in Nat /\ msg \in Response
  BY DEF SessionType, OpType
<1>2. b \in Buffers(Char) /\ (Clean => b \in Buffers(Plain))
  BY <1>1, CommitProperties DEF Clean
<1>3. msg' = Populate(msg, Data(b))
  BY DEF Shows
<1>. HIDE DEF b
<1>4. msg' \in Response
  BY <1>1, <1>2, <1>3, PopulateType
<1>5. ASSUME Clean PROVE msg'.body \in Seq(Seq(Plain))
  BY <1>2, <1>3, <1>5, PopulateBody DEF Clean
<1>. QED BY <1>4, <1>5

\* A step of the program that leaves the line alone.
LEMMA QuietStepKeepsPrompt ==
  ASSUME SessionInv, UNCHANGED <<line, modem>>, step # "exit",
         wire' = wire \/ \E w \in Seq(Quiet) : wire' = Append(wire, w),
         sb' \in Buffers(Char), op' \in OpType, msg' \in Response,
         Clean /\ step' # "exit" => Clean',
         step' = "text" => msg'.body \notin Seq(Seq(Plain))
  PROVE  SessionInv'
<1>1. line \in Seq(Char) /\ wire \in Seq(Seq(Written)) /\ modem \in ModemType
  BY DEF SessionInv, SessionType
<1>2. 0 \in 0 .. Len(line) /\ line' = SubSeq(line, 0 + 1, Len(line))
  BY <1>1, LenProperties, SubSeqFull
<1>3. wire' \in Seq(Seq(Written))
  <2>. SUFFICES ASSUME NEW w \in Seq(Quiet), wire' = Append(wire, w) PROVE wire' \in Seq(Seq(Written))
    BY <1>1
  <2>. DEFINE S == Seq(Written)
  <2>1. wire \in Seq(S) /\ w \in S
    BY <1>1, SeqMonotonic DEF Written
  <2>. HIDE DEF S
  <2>2. Append(wire, w) \in Seq(S)
    BY <2>1, AppendProperties
  <2>. QED BY <2>2 DEF S
<1>4. SessionType'
  BY <1>1, <1>3 DEF SessionType
<1>. QED BY <1>2, <1>4, StepKeepsPrompt

\* execute writes a command into a new buffer of its own ...
LEMMA ExecuteWritesKeeps ==
  ASSUME SessionInv, NEW at, at \notin {"exit", "text"}, NEW r, ToString(r) \in Seq(Quiet),
         ExecuteWrites(at, r)
  PROVE  SessionInv'
<1>1. /\ step = at /\ UNCHANGED <<line, modem, step, msg>>
      /\ wire' = Append(wire, ToString(r)) /\ SearchOn(Fresh)
  BY DEF ExecuteWrites, Write
<1>2. sb' \in Buffers(Char) /\ sb' \in Buffers(Plain) /\ op' \in OpType
  BY <1>1, Tokens, FreshProperties, SearchOnKeeps
<1>3. msg \in Response
  BY DEF SessionInv, SessionType
<1>. QED BY <1>1, <1>2, <1>3, QuietStepKeepsPrompt DEF Clean

\* ... and shows what was read, then its buffer is gone.
LEMMA ShowingKeeps ==
  ASSUME SessionInv, step # "exit", step' # "text", Shows, sb' = Fresh, op' = Idle,
         UNCHANGED <<line, wire, modem>>
  PROVE  SessionInv'
<1>1. SessionType /\ Fresh \in Buffers(Char) /\ Fresh \in Buffers(Plain) /\ Idle \in OpType
  BY FreshProperties DEF SessionInv, Idle, OpType
<1>2. msg' \in Response /\ (Clean => msg'.body \in Seq(Seq(Plain)))
  BY <1>1, ShowsKeeps
<1>. QED BY <1>1, <1>2, QuietStepKeepsPrompt DEF Clean

\* Execute returns in the middle of a subcommand ...
LEMMA ExecuteReturnsKeeps ==
  ASSUME SessionInv, NEW at, at # "exit", NEW next, next # "text", ExecuteReturns(at, next)
  PROVE  SessionInv'
BY ShowingKeeps DEF ExecuteReturns, device

\* ... and at its end.
LEMMA ExecuteEndsKeeps ==
  ASSUME SessionInv, NEW at, at # "exit", ExecuteEnds(at)
  PROVE  SessionInv'
BY ShowingKeeps DEF ExecuteEnds, Exit, device

\* A program that ends has forgotten what it read, as far as the modem goes.
LEMMA ExitKeeps ==
  ASSUME SessionInv, step # "exit", NEW code, Exit(code), UNCHANGED <<line, wire, modem>>,
         sb' \in Buffers(Char), msg' \in Response
  PROVE  SessionInv'
<1>1. step' = "exit" /\ op' = Idle /\ Idle \in OpType
  BY DEF Exit, Idle, OpType
<1>. QED BY <1>1, QuietStepKeepsPrompt

\* The same when an operation fails.
LEMMA FailingKeeps ==
  ASSUME SessionInv, step # "exit", NEW code, Exit(code), UNCHANGED <<device, sb, msg>>
  PROVE  SessionInv'
BY ExitKeeps DEF device, SessionInv, SessionType

\* A handler leaves a prompt in buffer or response only if one was there.
LEMMA ReadEndsKeeps ==
  ASSUME SessionInv, NEW at, ReadEnds(at)
  PROVE  sb' \in Buffers(Char) /\ msg' \in Response /\ (Clean => Clean')
<1>1. SessionType /\ sb \in Buffers(Char) /\ op.rb \in Nat
  BY DEF SessionInv, SessionType, OpType
<1>2. msg' \in Response /\ (Clean => msg'.body \in Seq(Seq(Plain)))
  BY <1>1, ShowsKeeps DEF ReadEnds
<1>3. ASSUME NEW S, sb \in Buffers(S) PROVE sb' \in Buffers(S)
  <2>1. Handled \in Buffers(S)
    BY <1>1, <1>3, CommitProperties, ConsumeProperties DEF Handled
  <2>. QED BY <1>1, <2>1, ConsumeProperties DEF ReadEnds
<1>4. sb' \in Buffers(Char)
  BY <1>1, <1>3
<1>5. sb \in Buffers(Plain) => sb' \in Buffers(Plain)
  BY <1>3
<1>. QED BY <1>2, <1>4, <1>5 DEF Clean

\* The same when the handler reads on.
LEMMA ReadsAgainKeeps ==
  ASSUME SessionInv, NEW at, at # "exit", ReadsAgain(at), UNCHANGED <<device, step>>, step # "text"
  PROVE  SessionInv'
<1>1. SessionType /\ sb \in Buffers(Char) /\ op.rb \in Nat /\ step # "exit"
  BY DEF SessionInv, SessionType, OpType, ReadsAgain
<1>2. msg' \in Response /\ (Clean => msg'.body \in Seq(Seq(Plain)))
  BY <1>1, ShowsKeeps DEF ReadsAgain
<1>. DEFINE found == Search(Handled, Data(Handled))
<1>3. sb' = Consume(found.sb, op.rb) /\ op' = found.op
  BY DEF ReadsAgain
<1>4. ASSUME NEW S, Zero \in S, sb \in Buffers(S) PROVE sb' \in Buffers(S) /\ op' \in OpType
  <2>1. Handled \in Buffers(S)
    BY <1>1, <1>4, CommitProperties, ConsumeProperties DEF Handled
  <2>2. found.sb \in Buffers(S) /\ found.op \in OpType
    BY <1>4, <2>1, SearchProperties
  <2>. HIDE DEF found
  <2>. QED BY <1>1, <1>3, <2>2, ConsumeProperties
<1>5. sb' \in Buffers(Char) /\ op' \in OpType
  BY <1>1, <1>4, Tokens
<1>6. sb \in Buffers(Plain) => sb' \in Buffers(Plain)
  BY <1>4, Tokens
<1>. QED BY <1>1, <1>2, <1>5, <1>6, QuietStepKeepsPrompt DEF Clean, device

\* The device is opened, or not.
LEMMA OpensKeeps ==
  ASSUME SessionInv, NEW next, next # "text", Opens(next)
  PROVE  SessionInv'
<1>. USE DEF SessionInv
<1>1. /\ step # "exit" /\ step' # "text" /\ UNCHANGED <<wire, modem, sb, op, msg>>
      /\ SessionType /\ line \in Seq(Char) /\ Len(line) \in Nat
  BY DEF Opens, SessionType
<1>2. Clean => Clean'
  BY <1>1 DEF Clean
<1>3. CASE line' = line
  BY <1>1, <1>2, <1>3, QuietStepKeepsPrompt DEF SessionType
<1>4. CASE line' = <<>>
  <2>1. Len(line) \in 0 .. Len(line) /\ line' = SubSeq(line, Len(line) + 1, Len(line))
    BY <1>1, <1>4, SubSeqEmpty
  <2>2. SessionType'
    BY <1>1, <1>4 DEF SessionType
  <2>. QED BY <1>1, <1>2, <2>1, <2>2, StepKeepsPrompt
<1>. QED BY <1>3, <1>4 DEF Opens

\* Bytes that name no prompt are plain.
LEMMA WithoutPrompt ==
  ASSUME NEW s \in Seq(Char), ~Names(s, PROMPT)
  PROVE  s \in Seq(Plain)
<1>1. Len(s) \in Nat /\ DOMAIN s = 1 .. Len(s) /\ s \in [1 .. Len(s) -> Char]
  BY LenProperties
<1>2. \A i \in 1 .. Len(s) : s[i] \in Char /\ s[i] # PROMPT
  BY <1>1 DEF Names
<1>3. \A i \in 1 .. Len(s) : s[i] \in Plain
  BY <1>2 DEF Plain
<1>. HIDE DEF Plain
<1>4. s \in [1 .. Len(s) -> Plain]
  BY <1>1, <1>3
<1>. QED BY <1>1, <1>4, FunctionIsSeq

\* Bytes arrive.
LEMMA ArriveKeeps ==
  ASSUME SessionInv, step # "exit", NEW n \in 1 .. Len(line), Arrive(n)
  PROVE  SessionInv'
<1>. DEFINE cs == SubSeq(line, 1, n)
            b  == Commit(Fill(sb, op.at, cs), n)
<1>1. /\ SessionType /\ PromptInv /\ line \in Seq(Char) /\ Len(line) \in Nat /\ n \in 0 .. Len(line) /\ n \in Nat
      /\ sb \in Buffers(Char) /\ op.at \in Nat
  BY LenProperties DEF SessionInv, SessionType, OpType
<1>2. /\ line' = SubSeq(line, n + 1, Len(line)) /\ SearchOn(b)
      /\ UNCHANGED <<wire, modem, step, msg>>
  BY DEF Arrive
<1>3. /\ cs \in Seq(Char) /\ Len(cs) = n /\ (\A i \in 1 .. n : cs[i] = line[i]) /\ line' \in Seq(Char)
  BY <1>1, <1>2, Cut
<1>4. sb' \in Buffers(Char) /\ op' \in OpType
  <2>1. b \in Buffers(Char)
    BY <1>1, <1>3, FillCommitType
  <2>. HIDE DEF b
  <2>. QED BY <1>2, <2>1, SearchOnKeeps, Tokens
<1>5. ASSUME sb \in Buffers(Plain), ~Names(cs, PROMPT) PROVE sb' \in Buffers(Plain)
  <2>2. cs \in Seq(Plain)
    BY <1>3, <1>5, WithoutPrompt
  <2>3. b \in Buffers(Plain)
    <3>. HIDE DEF cs
    <3>. QED BY <1>1, <1>5, <2>2, FillCommitType
  <2>. HIDE DEF b
  <2>. QED BY <1>2, <2>3, SearchOnKeeps, Tokens
<1>6. SessionType'
  BY <1>1, <1>2, <1>3, <1>4 DEF SessionType
<1>7. Clean => Clean' \/ Names(SubSeq(line, 1, n), PROMPT)
  BY <1>2, <1>5 DEF Clean
<1>8. step' = "text" => msg'.body \notin Seq(Seq(Plain))
  BY <1>1, <1>2 DEF PromptInv
<1>. QED BY <1>1, <1>2, <1>6, <1>7, <1>8, StepKeepsPrompt

\* A program that is started over holds nothing, whatever the one before held.
LEMMA StartsOverKeeps == SessionInv /\ StartsOver => SessionInv'
<1>. SUFFICES ASSUME SessionInv, StartsOver PROVE SessionInv'
  OBVIOUS
<1>1. /\ Fresh \in Buffers(Char) /\ Fresh \in Buffers(Plain)
      /\ NoMessage \in Response /\ NoMessage.body \in Seq(Seq(Plain)) /\ Idle \in OpType
  BY FreshProperties DEF NoMessage, Response, Idle, OpType
<1>2. ~Holds' /\ step' # "text" /\ UNCHANGED <<line, wire, modem>>
  BY <1>1 DEF StartsOver, Holds, Clean, device
<1>3. SessionType'
  BY <1>1, <1>2 DEF StartsOver, SessionInv, SessionType
<1>4. PromptInv'
  BY <1>2 DEF SessionInv, PromptInv, Pending
<1>. QED BY <1>3, <1>4 DEF SessionInv
=============================================================================
