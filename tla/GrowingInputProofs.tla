--------------------------- MODULE GrowingInputProofs ---------------------------
(***************************************************************************)
(* What match_condition and parse_response promise the reader, for every   *)
(* alphabet of ordinary text and every way the input arrives.              *)
(***************************************************************************)
EXTENDS GrowingInput, AtGrammarProofs

TypeOK == s \in Seq(Char)

\* The input is a string of bytes.
THEOREM InputType == Spec => []TypeOK
<1>1. Init => TypeOK
  BY DEF Init, TypeOK
<1>2. TypeOK /\ [Next]_vars => TypeOK'
  <2>1. SUFFICES ASSUME TypeOK, [Next]_vars PROVE TypeOK'
    OBVIOUS
  <2>2. ASSUME NEW w \in Words, Grow(w) PROVE TypeOK'
    <3>1. w \in Seq(Char) /\ s' = s \o w
      BY <2>2, WordsAssumption DEF Grow
    <3>. QED BY <2>1, <3>1, ConcatProperties DEF TypeOK
  <2>3. CASE UNCHANGED vars
    BY <2>1, <2>3 DEF TypeOK, vars
  <2>. QED BY <2>1, <2>2, <2>3 DEF Next
<1>. QED BY <1>1, <1>2, PTL DEF Spec

-----------------------------------------------------------------------------
\* If the first line of a response is a result code and nothing else, the
\* response is that code and has no lines.
LEMMA NoLineIsACode ==
  ASSUME TypeOK PROVE CodeIsNoLine
<1>1. SUFFICES ASSUME Matched(s), ParsedBody(s) # <<>>, NEW c \in PlainCodes,
                      ParsedBody(s)[1] = <<c>>
               PROVE  FALSE
  BY DEF CodeIsNoLine
<1>2. s \in Seq(Char) /\ EolAt(s, 1) /\ ~FinalAt(s, 1) /\ DOMAIN s = 1 .. Len(s) /\ Len(s) \in Nat
  BY <1>1, MatchedStartsWithEol, FinalHasNoBody, LenProperties DEF TypeOK
<1>3. 3 \in 1 .. Len(s)
  <2>1. CASE HasLines(s)
    BY <1>2, <2>1, HasLinesProperties
  <2>2. CASE HasPrompt(s)
    BY <1>2, <2>2 DEF HasPrompt, At
  <2>. QED BY <1>1, <1>2, <2>1, <2>2 DEF Matched
<1>4. CASE TextEnd(s, 3) > 3
  <2>1. Run(s, 3) = <<c>>
    BY <1>1, <1>2, <1>4, FirstLine
  <2>2. s[3] = c /\ TextEnd(s, 3) = 4
    <3>1. s[3] = c /\ TextEnd(s, 3) = 3 + 1
      BY <1>2, <1>3, <2>1, RunOfOne
    <3>. QED BY <3>1
  <2>3. CASE HasLines(s)
    <3>1. EolAt(s, 4)
      BY <2>2, <2>3 DEF HasLines, LineAt
    <3>2. s[4] = CR /\ 4 \in 1 .. Len(s)
      BY <1>2, <3>1 DEF EolAt, At
    <3>3. TextEnd(s, 4) = 4
      <4>1. /\ TextEnd(s, 4) \in 4 .. Len(s) + 1
            /\ \A k \in 4 .. TextEnd(s, 4) - 1 : s[k] # CR
        BY <1>2, <3>2, TextEndProperties
      <4>. QED BY <1>2, <3>2, <4>1
    <3>4. 1 + 2 = 3 /\ 1 + 3 = 4 /\ c \in Codes /\ c \notin ErrorCodes
      <4>1. c \in Codes
        BY DEF Codes
      <4>2. c # "+CME ERROR: " /\ c # "+CMS ERROR: "
        BY DEF PlainCodes
      <4>3. c \notin ErrorCodes
        BY <4>2, Zenon DEF ErrorCodes
      <4>. QED BY <4>1, <4>3
    <3>5. CodeTried(s, 1)
      BY <1>2, <1>3, <2>2, <3>4 DEF CodeTried, At
    <3>6. CodeEnd(s, 1) = 4
      BY <3>3, <3>4 DEF CodeEnd, TextTried
    <3>. QED BY <1>2, <2>2, <3>1, <3>4, <3>5, <3>6 DEF FinalAt
  <2>4. CASE HasPrompt(s)
    BY <2>2, <2>4 DEF HasPrompt, At, PlainCodes, PROMPT
  <2>. QED BY <1>1, <1>2, <2>3, <2>4 DEF Matched
<1>5. CASE ~(TextEnd(s, 3) > 3)
  <2>1. TextEnd(s, 3) \in 3 .. Len(s) + 1 /\ (TextEnd(s, 3) = Len(s) + 1 \/ s[TextEnd(s, 3)] = CR)
    BY <1>2, <1>3, TextEndProperties
  <2>2. s[3] = CR
    BY <1>2, <1>3, <1>5, <2>1
  <2>3. ~HasLines(s) /\ ~HasPrompt(s)
    BY <1>5, <2>2 DEF HasLines, LineAt, HasPrompt, At, CR, PROMPT
  <2>. QED BY <1>1, <1>2, <2>3 DEF Matched
<1>. QED BY <1>2, <1>4, <1>5

\* A bare result code is never the first line of a response
\* (do_receive_vcall.cpp:186 looks for it there).
THEOREM CodeIsNoLineSafe == Spec => []CodeIsNoLine
BY InputType, NoLineIsACode, PTL

\* The code a whole input is parsed to is the one it ends with, or stands
\* at the start of its first line.
LEMMA CodeIsTheLast ==
  ASSUME TypeOK PROVE RcMeansFinalCode
<1>1. SUFFICES ASSUME Matched(s), MatchLen(s) = Len(s), ParsedCode(s) # None,
                      ~FinalAt(s, 1), ~At(s, 3, Codes)
               PROVE  HasLines(s) /\ FinalAt(s, BodyEnd(s))
  BY DEF RcMeansFinalCode, EndsInFinal
<1>2. s \in Seq(Char) /\ Len(s) \in Nat
  BY DEF TypeOK
<1>3. ~CodeTried(s, 1)
  <2>1. 1 + 2 = 3
    OBVIOUS
  <2>. QED BY <1>1, <2>1 DEF CodeTried
<1>4. HasLines(s) /\ CodeTried(s, BodyEnd(s))
  <2>1. \E a \in DOMAIN Attempts(s) : CodeTried(s, Attempts(s)[a])
    BY <1>1 DEF ParsedCode
  <2>2. HasLines(s)
    <3>1. SUFFICES ASSUME ~HasLines(s) PROVE FALSE
      OBVIOUS
    <3>2. Attempts(s) = <<1>> /\ DOMAIN <<1>> = {1} /\ <<1>>[1] = 1
      BY <3>1 DEF Attempts
    <3>. QED BY <1>3, <2>1, <3>2
  <2>3. /\ Attempts(s) = <<1, BodyEnd(s)>>
        /\ DOMAIN <<1, BodyEnd(s)>> = {1, 2}
        /\ <<1, BodyEnd(s)>>[1] = 1 /\ <<1, BodyEnd(s)>>[2] = BodyEnd(s)
    BY <1>1, <2>2 DEF Attempts
  <2>. QED BY <1>3, <2>1, <2>2, <2>3
<1>5. BodyEnd(s) \in 4 .. Len(s) + 1 /\ BodyEnd(s) + 2 \in 1 .. Len(s)
  BY <1>2, <1>4, HasLinesProperties, LenProperties DEF CodeTried, At
<1>6. FinalAt(s, BodyEnd(s))
  <2>1. SUFFICES ASSUME ~FinalAt(s, BodyEnd(s)) PROVE FALSE
    OBVIOUS
  <2>2. MatchLen(s) = BodyEnd(s) - 1
    BY <1>1, <1>4, <2>1 DEF MatchLen
  <2>. QED BY <1>1, <1>2, <1>5, <2>2
<1>. QED BY <1>4, <1>6

\* A result code reported for an input that is consumed whole is the one it
\* ends with, unless its first line starts with a literal of one.
THEOREM RcMeansFinalCodeSafe == Spec => []RcMeansFinalCode
BY InputType, CodeIsTheLast, PTL

-----------------------------------------------------------------------------
\* What one more word does to a match.
LEMMA MatchGrows ==
  ASSUME TypeOK, NEW u \in Seq(Char), s' = s \o u, Matched(s)
  PROVE  /\ Matched(s')
         /\ MatchLen(s') >= MatchLen(s)
         /\ EndsInFinal => MatchLen(s') = MatchLen(s) /\ Parse(s') = Parse(s)
<1>1. s \in Seq(Char) /\ s \o u \in Seq(Char) /\ Len(s) \in Nat
  BY ConcatProperties DEF TypeOK
<1>2. Matched(s \o u) /\ MatchLen(s) \in Nat
  BY <1>1, MatchSurvivesMoreInput, MatchLenProperties
<1>3. CASE FinalAt(s, 1)
  <2>1. MatchLen(s \o u) = MatchLen(s) /\ Parse(s \o u) = Parse(s)
    BY <1>1, <1>3, MatchSurvivesMoreInput, CodeParseIsStable
  <2>. QED BY <1>2, <2>1
<1>4. CASE ~FinalAt(s, 1) /\ HasLines(s) /\ FinalAt(s, BodyEnd(s))
  <2>1. /\ BodyEnd(s \o u) = BodyEnd(s) /\ HasLines(s \o u) /\ ~FinalAt(s \o u, 1)
        /\ Parse(s \o u) = Parse(s)
    BY <1>1, <1>4, BodyEndIsStable, FirstLineDecides, LinesParseIsStable
  <2>2. BodyEnd(s) \in Nat \ {0}
    BY <1>1, <1>4, HasLinesProperties
  <2>3. FinalAt(s \o u, BodyEnd(s)) /\ CodeEnd(s \o u, BodyEnd(s)) = CodeEnd(s, BodyEnd(s))
    BY <1>1, <1>4, <2>2, FinalIsStable
  <2>4. MatchLen(s \o u) = MatchLen(s)
    BY <1>4, <2>1, <2>3 DEF MatchLen
  <2>. QED BY <1>2, <2>1, <2>4
<1>5. CASE ~FinalAt(s, 1) /\ HasLines(s) /\ ~FinalAt(s, BodyEnd(s))
  <2>1. /\ HasLines(s \o u) /\ ~FinalAt(s \o u, 1)
        /\ BodyEnd(s \o u) >= BodyEnd(s) /\ BodyEnd(s \o u) \in 4 .. Len(s \o u) + 1
        /\ BodyEnd(s) \in 4 .. Len(s) + 1 /\ Len(s \o u) \in Nat
    BY <1>1, <1>5, FirstLineDecides, LinesAreStable, HasLinesProperties
  <2>2. MatchLen(s) = BodyEnd(s) - 1
    BY <1>5 DEF MatchLen
  <2>3. CASE FinalAt(s \o u, BodyEnd(s \o u))
    <3>1. CodeEnd(s \o u, BodyEnd(s \o u)) \in BodyEnd(s \o u) + 3 .. Len(s \o u) - 1
      <4>1. BodyEnd(s \o u) \in Nat \ {0}
        BY <2>1
      <4>. QED BY <1>1, <2>3, <4>1, FinalProperties
    <3>2. MatchLen(s \o u) = CodeEnd(s \o u, BodyEnd(s \o u)) + 1
      BY <2>1, <2>3 DEF MatchLen
    <3>3. MatchLen(s \o u) >= MatchLen(s)
      BY <2>1, <2>2, <3>1, <3>2
    <3>. QED BY <1>2, <1>5, <3>3 DEF EndsInFinal
  <2>4. CASE ~FinalAt(s \o u, BodyEnd(s \o u))
    <3>1. MatchLen(s \o u) = BodyEnd(s \o u) - 1
      BY <2>1, <2>4 DEF MatchLen
    <3>2. MatchLen(s \o u) >= MatchLen(s)
      BY <2>1, <2>2, <3>1
    <3>. QED BY <1>2, <1>5, <3>2 DEF EndsInFinal
  <2>. QED BY <2>3, <2>4
<1>6. CASE ~FinalAt(s, 1) /\ ~HasLines(s)
  <2>1. MatchLen(s) = 3
    BY <1>6 DEF MatchLen
  <2>2. MatchLen(s \o u) \in 3 .. Len(s \o u) /\ Len(s \o u) \in Nat
    <3>. DEFINE t == s \o u
    <3>1. t \in Seq(Char) /\ Matched(t)
      BY <1>1, <1>2
    <3>. HIDE DEF t
    <3>2. MatchLen(t) \in 3 .. Len(t) /\ Len(t) \in Nat
      BY <3>1, MatchLenProperties
    <3>. QED BY <3>2 DEF t
  <2>3. MatchLen(s \o u) >= MatchLen(s)
    BY <2>1, <2>2
  <2>. QED BY <1>2, <1>6, <2>3 DEF EndsInFinal
<1>. QED BY <1>3, <1>4, <1>5, <1>6

\* A read that waits for more never un-sees a response, and what it was told
\* of one that ends with a final result code stays true.
THEOREM MatchIsStableSafe == Spec => MatchIsStable
<1>1. ASSUME TypeOK, [Next]_vars
      PROVE  [Matched(s) =>
               /\ Matched(s')
               /\ MatchLen(s') >= MatchLen(s)
               /\ EndsInFinal => MatchLen(s') = MatchLen(s) /\ Parse(s') = Parse(s)]_vars
  <2>1. ASSUME NEW w \in Words, Grow(w), Matched(s)
        PROVE  /\ Matched(s')
               /\ MatchLen(s') >= MatchLen(s)
               /\ EndsInFinal => MatchLen(s') = MatchLen(s) /\ Parse(s') = Parse(s)
    <3>1. w \in Seq(Char) /\ s' = s \o w
      BY <2>1, WordsAssumption DEF Grow
    <3>. QED BY <1>1, <2>1, <3>1, MatchGrows
  <2>. QED BY <1>1, <2>1 DEF Next
<1>. QED BY <1>1, InputType, PTL DEF Spec, MatchIsStable

-----------------------------------------------------------------------------
\* A response of lines that is the whole input: where its lines are, and
\* what the final code behind them is.
LEMMA LinesRoundTrip ==
  ASSUME TypeOK, HasLines(s), ~FinalAt(s, 1), MatchLen(s) = Len(s)
  PROVE  LET n == Len(ParsedBody(s)) IN
         /\ SubSeq(s, 1, LineBegin(1) - 1) = CRLF
         /\ \A k \in 1 .. n : SubSeq(s, LineBegin(k), LineBegin(k + 1) - 1) = ParsedBody(s)[k] \o CRLF
         /\ SubSeq(s, LineBegin(n + 1), Len(s)) = IF EndsInFinal THEN RenderedFinal(Parse(s)) ELSE <<>>
<1>. DEFINE T == RunStarts(s)
            n == Cardinality(T)
            B == BodyEnd(s)
            L == Len(s) + 1
            body == ParsedBody(s)
<1>1. /\ s \in Seq(Char) /\ Len(s) \in Nat /\ EolAt(s, 1) /\ B \in 4 .. L
      /\ B \in LineStarts(s) /\ ~LineAt(s, B) /\ \A k \in LineStarts(s) : k < B => LineAt(s, k)
      /\ LineStarts(s) \subseteq 3 .. L /\ 3 \in LineStarts(s)
  <2>1. s \in Seq(Char) /\ Len(s) >= 5
    BY HasLinesProperties DEF TypeOK
  <2>. QED BY <2>1, HasLinesProperties, BodyEndProperties, LenProperties DEF HasLines, LineStarts
<1>2. B = L \/ (FinalAt(s, B) /\ CodeEnd(s, B) + 1 = Len(s))
  BY <1>1 DEF MatchLen
<1>3. TextEnd(s, B) = B
  <2>1. TextEnd(s, B) \in B .. L /\ \A k \in B .. TextEnd(s, B) - 1 : s[k] # CR
    BY <1>1, TextEndProperties
  <2>2. CASE FinalAt(s, B)
    <3>1. s[B] = CR
      BY <2>2 DEF FinalAt, CodeTried, EolAt, At
    <3>. QED BY <1>1, <2>1, <3>1
  <2>. QED BY <1>1, <1>2, <2>1, <2>2
<1>4. T = {j \in LineStarts(s) : j < B} /\ T \subseteq 0 .. L /\ 3 \in T
  <2>1. \A j \in LineStarts(s) : j <= B /\ TextEnd(s, j) > j <=> j < B
    <3>1. \A j \in LineStarts(s) : j < B => TextEnd(s, j) > j
      BY <1>1 DEF LineAt
    <3>2. \A j \in LineStarts(s) : j \in Nat
      BY <1>1
    <3>. QED BY <1>1, <1>3, <3>1, <3>2
  <2>2. T = {j \in LineStarts(s) : j < B}
    BY <1>1, <2>1 DEF RunStarts
  <2>. QED BY <1>1, <2>2
<1>5. n \in Nat \ {0} /\ Kth(T, 1) = 3
  <2>1. L \in Nat /\ \A i \in T : 3 <= i
    BY <1>1, <1>4
  <2>. HIDE DEF T
  <2>. QED BY <1>4, <2>1, KthOne
<1>6. body = [k \in 1 .. n |-> Run(s, Kth(T, k))] /\ DOMAIN body = 1 .. n /\ Len(body) = n
  <2>. DEFINE runs == [k \in 1 .. n |-> Run(s, Kth(T, k))]
              V == {Run(s, Kth(T, k)) : k \in 1 .. n}
  <2>1. runs \in [1 .. n -> V] /\ n \in Nat
    BY <1>5
  <2>2. body = runs \o <<>>
    BY DEF ParsedBody
  <2>. HIDE DEF V, runs
  <2>3. runs \in Seq(V) /\ Len(runs) = n
    BY <2>1
  <2>4. body = runs
    BY <2>2, <2>3
  <2>. QED BY <2>1, <2>4, <1>5 DEF runs
<1>7. ASSUME NEW k \in 1 .. n
      PROVE  /\ LineBegin(k) = Kth(T, k) /\ Kth(T, k) \in T
             /\ LineBegin(k + 1) = TextEnd(s, Kth(T, k)) + 2
             /\ k = n => LineBegin(k + 1) = B
  <2>. DEFINE j == Kth(T, k)
              e == TextEnd(s, j) + 2
  <2>1. j \in T /\ LineBegin(k) = j
    <3>1. j \in T
      <4>1. L \in Nat
        BY <1>1
      <4>. HIDE DEF T
      <4>. QED BY <1>4, <4>1, KthProperties
    <3>. QED BY <1>6, <3>1 DEF LineBegin
  <2>2. LineAt(s, j) /\ j \in LineStarts(s) /\ j < B /\ j \in 3 .. L
    BY <1>1, <1>4, <2>1
  <2>3. e \in LineStarts(s) /\ \A i \in LineStarts(s) : i > j => i >= e
    BY <1>1, <2>2, NextLine
  <2>4. e \in Nat /\ e > j
    <3>1. TextEnd(s, j) \in j + 1 .. Len(s) - 1
      BY <1>1, <2>2, LineProperties
    <3>. QED BY <1>1, <2>2, <3>1
  <2>5. e <= B
    BY <1>1, <2>2, <2>3
  <2>. HIDE DEF j, e
  <2>6. /\ e \in T => k + 1 \in 1 .. n /\ Kth(T, k + 1) = e
        /\ (\A i \in T : i < e) => k = n
    <3>1. L \in Nat /\ T \subseteq 0 .. L /\ \A i \in T : i > j => i >= e
      BY <1>1, <1>4, <2>3
    <3>. HIDE DEF T
    <3>. QED BY <2>4, <3>1, KthNext DEF j
  <2>7. CASE e < B
    <3>1. e \in T
      BY <1>4, <2>3, <2>7
    <3>2. k # n
      BY <1>5, <2>6, <3>1
    <3>. QED BY <1>6, <2>1, <2>6, <3>1, <3>2 DEF LineBegin, j, e
  <2>8. CASE e = B
    <3>1. k = n
      BY <1>4, <2>6, <2>8
    <3>2. k + 1 \notin DOMAIN body
      BY <1>5, <1>6, <3>1
    <3>. QED BY <2>1, <2>8, <3>2 DEF LineBegin, j, e
  <2>. QED BY <1>1, <2>4, <2>5, <2>7, <2>8
<1>8. SubSeq(s, 1, LineBegin(1) - 1) = CRLF
  <2>1. LineBegin(1) = 3 /\ 3 - 1 = 2 /\ 1 + 1 = 2
    BY <1>5, <1>7
  <2>2. 1 \in 1 .. Len(s)
    BY <1>1
  <2>. QED BY <1>1, <2>1, <2>2, Slices
<1>9. ASSUME NEW k \in 1 .. n
      PROVE  SubSeq(s, LineBegin(k), LineBegin(k + 1) - 1) = body[k] \o CRLF
  <2>. DEFINE j == Kth(T, k)
  <2>1. LineBegin(k) = j /\ LineBegin(k + 1) = TextEnd(s, j) + 2 /\ j \in LineStarts(s) /\ LineAt(s, j)
    BY <1>1, <1>4, <1>7
  <2>2. body[k] = Run(s, j)
    BY <1>6
  <2>. HIDE DEF j
  <2>3. j \in 1 .. Len(s) + 1 /\ TextEnd(s, j) \in j + 1 .. Len(s) - 1 /\ EolAt(s, TextEnd(s, j))
    <3>1. j \in 1 .. Len(s) + 1
      BY <1>1, <2>1
    <3>. QED BY <1>1, <2>1, <3>1, LineProperties
  <2>4. (TextEnd(s, j) + 2) - 1 = TextEnd(s, j) + 1 /\ j \in 1 .. Len(s)
    BY <1>1, <2>3
  <2>5. SubSeq(s, j, TextEnd(s, j) + 1) = Run(s, j) \o CRLF
    BY <1>1, <2>3, <2>4, RunIsWritten
  <2>. QED BY <2>1, <2>2, <2>4, <2>5
<1>10. LineBegin(n + 1) = B
  BY <1>5, <1>7
<1>11. SubSeq(s, B, Len(s)) = IF EndsInFinal THEN RenderedFinal(Parse(s)) ELSE <<>>
  <2>1. CASE FinalAt(s, B)
    <3>1. CodeEnd(s, B) + 1 = Len(s)
      <4>1. B # L
        BY <1>1, <2>1 DEF FinalAt, CodeTried, EolAt, At
      <4>. QED BY <1>2, <4>1
    <3>2. SubSeq(s, B, Len(s)) = CRLF \o <<s[B + 2]>> \o (IF TextTried(s, B) THEN Run(s, B + 3) ELSE <<>>) \o CRLF
      <4>1. B \in Nat \ {0}
        BY <1>1
      <4>. QED BY <1>1, <2>1, <3>1, <4>1, FinalIsWritten
    <3>3. ParsedCode(s) = s[B + 2] /\ ParsedText(s) = IF TextTried(s, B) THEN Run(s, B + 3) ELSE <<>>
      <4>1. /\ Attempts(s) = <<1, B>> /\ DOMAIN <<1, B>> = 1 .. 2
            /\ <<1, B>>[1] = 1 /\ <<1, B>>[2] = B
        BY DEF Attempts
      <4>2. CodeTried(s, B)
        BY <2>1 DEF FinalAt
      <4>3. ~TextTried(s, 1)
        BY <1>1, TriedLineIsFinal
      <4>. QED BY <4>1, <4>2, <4>3, LastAttemptCounts
    <3>. QED BY <2>1, <3>2, <3>3 DEF EndsInFinal, RenderedFinal, Parse
  <2>2. CASE ~FinalAt(s, B)
    <3>1. B > Len(s) /\ B \in Int /\ Len(s) \in Int
      BY <1>1, <1>2, <2>2
    <3>2. SubSeq(s, B, Len(s)) = <<>>
      BY <1>1, <3>1, SubSeqEmpty
    <3>. QED BY <2>2, <3>2 DEF EndsInFinal
  <2>. QED BY <2>1, <2>2
<1>. QED BY <1>6, <1>8, <1>9, <1>10, <1>11

\* A response that is a final code alone.
LEMMA CodeRoundTrip ==
  ASSUME TypeOK, FinalAt(s, 1), MatchLen(s) = Len(s)
  PROVE  s = RenderedFinal(Parse(s))
<1>1. SubSeq(s, 1, Len(s)) = CRLF \o <<s[1 + 2]>> \o (IF TextTried(s, 1) THEN Run(s, 1 + 3) ELSE <<>>) \o CRLF
  <2>1. CodeEnd(s, 1) + 1 = Len(s) /\ s \in Seq(Char)
    BY DEF MatchLen, TypeOK
  <2>2. 1 \in Nat \ {0}
    OBVIOUS
  <2>. QED BY <2>1, <2>2, FinalIsWritten
<1>2. ParsedCode(s) = s[1 + 2] /\ ParsedText(s) = IF TextTried(s, 1) THEN Run(s, 1 + 3) ELSE <<>>
  <2>1. Attempts(s) = <<1>> /\ DOMAIN <<1>> = 1 .. 1 /\ <<1>>[1] = 1
    BY DEF Attempts
  <2>2. CodeTried(s, 1)
    BY DEF FinalAt
  <2>. QED BY <2>1, <2>2, LastAttemptCounts
<1>3. SubSeq(s, 1, Len(s)) = s
  BY SubSeqFull DEF TypeOK
<1>. QED BY <1>1, <1>2, <1>3 DEF RenderedFinal, Parse

\* What a parse returns of an input it consumed whole is that input.
LEMMA NothingIsLost == ASSUME TypeOK PROVE RoundTrip
<1>1. SUFFICES ASSUME MatchLen(s) = Len(s), ~OnlyPrompt
               PROVE  LET m == Parse(s)
                          n == Len(m.body)
                      IN  IF FinalAt(s, 1) THEN m.body = <<>> /\ s = RenderedFinal(m)
                          ELSE /\ SubSeq(s, 1, LineBegin(1) - 1) = CRLF
                               /\ \A k \in 1 .. n : SubSeq(s, LineBegin(k), LineBegin(k + 1) - 1) = m.body[k] \o CRLF
                               /\ SubSeq(s, LineBegin(n + 1), Len(s)) = IF EndsInFinal THEN RenderedFinal(m) ELSE <<>>
  BY DEF RoundTrip
<1>2. Parse(s).body = ParsedBody(s)
  BY DEF Parse
<1>3. CASE FinalAt(s, 1)
  BY <1>1, <1>2, <1>3, FinalHasNoBody, CodeRoundTrip
<1>4. CASE ~FinalAt(s, 1)
  <2>1. HasLines(s)
    BY <1>1, <1>4 DEF OnlyPrompt
  <2>. QED BY <1>1, <1>2, <1>4, <2>1, LinesRoundTrip
<1>. QED BY <1>3, <1>4

\* When match_condition accepts the whole input, parse_response loses none of
\* it, whatever the lines are made of and however many there are.
THEOREM RoundTripSafe == Spec => []RoundTrip
BY InputType, NothingIsLost, PTL
=============================================================================
