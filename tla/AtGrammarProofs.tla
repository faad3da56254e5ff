--------------------------- MODULE AtGrammarProofs ---------------------------
(***************************************************************************)
(* Lemmas about the response grammar: the runs and lines it looks for are  *)
(* there to be found, a match lies within its input, and what a parse      *)
(* returns is a response.                                                  *)
(***************************************************************************)
EXTENDS AtGrammar, SequenceTheorems, FiniteSetTheorems, WellFoundedInduction, TLAPS

\* A set of naturals that is not empty has a least element.
LEMMA LeastElement ==
  ASSUME NEW T \in SUBSET Nat, T # {}
  PROVE  \E x \in T : \A y \in T : x <= y
<1>. DEFINE R == StrictSubsetOrdering(Nat)
            U == {1 .. t : t \in T}
<1>1. IsWellFoundedOn(R, FiniteSubsetsOf(Nat))
  BY FS_StrictSubsetOrderingWellFounded
<1>2. U \subseteq FiniteSubsetsOf(Nat)
  BY FS_Interval DEF FiniteSubsetsOf
<1>3. PICK u \in U : \A v \in U : ~(<<v, u>> \in R)
  <2>1. U # {}
    OBVIOUS
  <2>. HIDE DEF R, U
  <2>. QED BY <1>1, <1>2, <2>1, WFMin
<1>4. PICK x \in T : u = 1 .. x
  OBVIOUS
<1>5. ASSUME NEW y \in T, y < x PROVE FALSE
  <2>1. 1 .. y \in U /\ 1 .. y \subseteq u /\ x \in u /\ x \notin 1 .. y
    BY <1>4, <1>5
  <2>. QED BY <1>2, <1>3, <2>1 DEF StrictSubsetOrdering, FiniteSubsetsOf
<1>. QED BY <1>5

\* The first n tokens of a string.
LEMMA PrefixProperties ==
  ASSUME NEW S, NEW s \in Seq(S), NEW n \in 0 .. Len(s)
  PROVE  /\ SubSeq(s, 1, n) \in Seq(S) /\ Len(SubSeq(s, 1, n)) = n
         /\ \A k \in 1 .. n : SubSeq(s, 1, n)[k] = s[k]
<1>1. n \in Int /\ Len(s) \in Nat /\ \A k \in 1 .. n : s[k] \in S
  BY ElementOfSeq
<1>. DEFINE p == SubSeq(s, 1, n)
<1>2. /\ p \in Seq(S) /\ Len(p) = (IF 1 <= n THEN n - 1 + 1 ELSE 0)
      /\ \A k \in 1 .. n - 1 + 1 : p[k] = s[1 + k - 1]
  BY <1>1, SubSeqProperties
<1>. HIDE DEF p
<1>3. Len(p) = n
  BY <1>1, <1>2
<1>4. ASSUME NEW k \in 1 .. n PROVE p[k] = s[k]
  <2>1. k \in 1 .. n - 1 + 1 /\ 1 + k - 1 = k
    BY <1>1
  <2>2. p[k] = s[1 + k - 1]
    BY <1>2, <2>1
  <2>. QED BY <2>1, <2>2
<1>. QED BY <1>2, <1>3, <1>4 DEF p

\* The greedy run from i ends at the first CR, or where the input ends.
LEMMA TextEndProperties ==
  ASSUME NEW S, NEW s \in Seq(S), NEW i \in 1 .. Len(s) + 1
  PROVE  /\ TextEnd(s, i) \in i .. Len(s) + 1
         /\ TextEnd(s, i) = Len(s) + 1 \/ s[TextEnd(s, i)] = CR
         /\ \A k \in i .. TextEnd(s, i) - 1 : s[k] # CR
<1>. DEFINE T == {e \in i .. Len(s) + 1 : e = Len(s) + 1 \/ s[e] = CR}
<1>1. Len(s) \in Nat
  OBVIOUS
<1>2. T \in SUBSET Nat /\ T # {}
  <2>1. Len(s) + 1 \in T
    BY <1>1
  <2>. QED BY <1>1, <2>1
<1>3. PICK e \in T : \A f \in T : e <= f
  <2>. HIDE DEF T
  <2>. QED BY <1>2, LeastElement
<1>4. \A k \in i .. e - 1 : s[k] # CR
  BY <1>1, <1>3
<1>. QED BY <1>3, <1>4 DEF TextEnd

\* It is found there: the first CR from i on is where the run ends.
LEMMA TextEndIs ==
  ASSUME NEW S, NEW s \in Seq(S), NEW i \in 1 .. Len(s) + 1, NEW e \in i .. Len(s) + 1,
         e = Len(s) + 1 \/ s[e] = CR,
         \A k \in i .. e - 1 : s[k] # CR
  PROVE  TextEnd(s, i) = e
<1>. DEFINE f == TextEnd(s, i)
<1>1. /\ f \in i .. Len(s) + 1 /\ (f = Len(s) + 1 \/ s[f] = CR) /\ Len(s) \in Nat
      /\ \A k \in i .. f - 1 : s[k] # CR
  BY TextEndProperties
<1>. HIDE DEF f
<1>2. ~(e < f)
  <2>1. SUFFICES ASSUME e < f PROVE FALSE
    OBVIOUS
  <2>2. e \in i .. f - 1 /\ e # Len(s) + 1
    BY <1>1, <2>1
  <2>. QED BY <1>1, <2>2
<1>3. ~(f < e)
  <2>1. SUFFICES ASSUME f < e PROVE FALSE
    OBVIOUS
  <2>2. f \in i .. e - 1 /\ f # Len(s) + 1
    BY <1>1, <2>1
  <2>. QED BY <1>1, <2>2
<1>4. e = f
  BY <1>1, <1>2, <1>3
<1>. QED BY <1>4 DEF f

\* A run is a sequence of tokens of the input.
LEMMA RunType ==
  ASSUME NEW S, NEW s \in Seq(S), NEW i \in 1 .. Len(s) + 1
  PROVE  Run(s, i) \in Seq(S)
<1>1. TextEnd(s, i) \in i .. Len(s) + 1
  BY TextEndProperties
<1>2. i \in Int /\ TextEnd(s, i) - 1 \in Int
  BY <1>1
<1>3. \A k \in i .. TextEnd(s, i) - 1 : s[k] \in S
  BY <1>1, ElementOfSeq
<1>. QED BY <1>2, <1>3, SubSeqProperties DEF Run

\* Where a line is found, the next one may start two places after its run.
LEMMA LineProperties ==
  ASSUME NEW S, NEW s \in Seq(S), NEW i \in 1 .. Len(s) + 1, LineAt(s, i)
  PROVE  /\ TextEnd(s, i) \in i + 1 .. Len(s) - 1
         /\ EolAt(s, TextEnd(s, i))
<1>1. TextEnd(s, i) \in i .. Len(s) + 1 /\ TextEnd(s, i) > i /\ EolAt(s, TextEnd(s, i))
  BY TextEndProperties DEF LineAt
<1>2. TextEnd(s, i) + 1 <= Len(s)
  BY <1>1 DEF EolAt, At
<1>. QED BY <1>1, <1>2

\* The repetition of lines stops somewhere: at the first place that is not a
\* line, all places before it being lines.
LEMMA BodyEndProperties ==
  ASSUME NEW S, NEW s \in Seq(S), Len(s) >= 2
  PROVE  /\ BodyEnd(s) \in LineStarts(s)
         /\ BodyEnd(s) \in 3 .. Len(s) + 1
         /\ ~LineAt(s, BodyEnd(s))
         /\ \A k \in LineStarts(s) : k < BodyEnd(s) => LineAt(s, k)
<1>. DEFINE T == {j \in LineStarts(s) : ~LineAt(s, j)}
            D == {(Len(s) + 1) - j : j \in LineStarts(s)}
<1>1. Len(s) \in Nat /\ LineStarts(s) \subseteq 3 .. Len(s) + 1 /\ 3 \in LineStarts(s)
  BY DEF LineStarts
<1>2. T # {}
  <2>1. D \in SUBSET Nat /\ D # {}
    BY <1>1
  <2>2. PICK d \in D : \A f \in D : d <= f
    <3>. HIDE DEF D
    <3>. QED BY <2>1, LeastElement
  <2>3. PICK j \in LineStarts(s) : d = (Len(s) + 1) - j
    BY <2>2
  <2>4. \A k \in LineStarts(s) : k <= j
    <3>1. TAKE k \in LineStarts(s)
    <3>2. (Len(s) + 1) - k \in D
      OBVIOUS
    <3>3. d <= (Len(s) + 1) - k
      BY <2>2, <3>2
    <3>. QED BY <1>1, <2>3, <3>3
  <2>5. ~LineAt(s, j)
    <3>1. SUFFICES ASSUME LineAt(s, j) PROVE FALSE
      OBVIOUS
    <3>2. TextEnd(s, j) \in j + 1 .. Len(s) - 1 /\ EolAt(s, TextEnd(s, j))
      BY <1>1, <3>1, LineProperties
    <3>3. TextEnd(s, j) + 2 \in LineStarts(s)
      BY <1>1, <3>2 DEF LineStarts
    <3>. QED BY <1>1, <2>4, <3>2, <3>3
  <2>. QED BY <2>5
<1>3. PICK e \in T : \A f \in T : e <= f
  <2>1. T \in SUBSET Nat
    BY <1>1
  <2>. HIDE DEF T
  <2>. QED BY <1>2, <2>1, LeastElement
<1>4. \A k \in LineStarts(s) : k < e => LineAt(s, k)
  BY <1>1, <1>3
<1>5. /\ BodyEnd(s) \in LineStarts(s)
      /\ ~LineAt(s, BodyEnd(s))
      /\ \A k \in LineStarts(s) : k < BodyEnd(s) => LineAt(s, k)
  BY <1>3, <1>4 DEF BodyEnd
<1>. QED BY <1>1, <1>5

Below(T, j) == {i \in T : i < j}

\* How many elements of a finite set of naturals lie below j, step by step.
LEMMA BelowProperties ==
  ASSUME NEW T \in SUBSET Nat, IsFiniteSet(T), NEW j \in Nat
  PROVE  /\ Cardinality(Below(T, j)) \in Nat
         /\ Cardinality(Below(T, 0)) = 0
         /\ j \in T => Cardinality(Below(T, j + 1)) = Cardinality(Below(T, j)) + 1
         /\ j \notin T => Cardinality(Below(T, j + 1)) = Cardinality(Below(T, j))
<1>1. IsFiniteSet(Below(T, j)) /\ Cardinality(Below(T, j)) \in Nat
  <2>1. Below(T, j) \in SUBSET T
    BY DEF Below
  <2>. QED BY <2>1, FS_Subset, FS_CardinalityType
<1>2. Cardinality(Below(T, 0)) = 0
  <2>1. \A i \in T : ~(i < 0)
    OBVIOUS
  <2>2. Below(T, 0) = {}
    BY <2>1, Zenon DEF Below
  <2>. QED BY <2>2, FS_EmptySet
<1>0. \A i \in T : (i < j + 1 <=> i < j \/ i = j) /\ ~(j < j)
  OBVIOUS
<1>3. ASSUME j \in T PROVE Cardinality(Below(T, j + 1)) = Cardinality(Below(T, j)) + 1
  <2>1. Below(T, j + 1) = Below(T, j) \cup {j} /\ j \notin Below(T, j)
    BY <1>3, <1>0, Zenon DEF Below
  <2>. QED BY <1>1, <2>1, FS_AddElement
<1>4. ASSUME j \notin T PROVE Below(T, j + 1) = Below(T, j)
  BY <1>4, <1>0, Zenon DEF Below
<1>. QED BY <1>1, <1>2, <1>3, <1>4

\* A finite set of naturals has a k-th element for every k up to its size.
LEMMA KthProperties ==
  ASSUME NEW L \in Nat, NEW T, T \subseteq 0 .. L, NEW k \in 1 .. Cardinality(T)
  PROVE  Kth(T, k) \in T /\ Cardinality(Below(T, Kth(T, k))) = k - 1
<1>. DEFINE M == {j \in Nat : Cardinality(Below(T, j)) >= k}
<1>1. T \in SUBSET Nat /\ IsFiniteSet(T) /\ Cardinality(T) \in Nat
  <2>1. IsFiniteSet(0 .. L) /\ T \in SUBSET (0 .. L)
    BY FS_Interval
  <2>2. IsFiniteSet(T)
    BY <2>1, FS_Subset
  <2>. QED BY <2>1, <2>2, FS_CardinalityType
<1>2. k \in Nat /\ k >= 1 /\ k <= Cardinality(T)
  BY <1>1
<1>3. L + 1 \in M
  <2>1. \A i \in T : i < L + 1
    OBVIOUS
  <2>2. Below(T, L + 1) = T
    BY <2>1, Zenon DEF Below
  <2>. QED BY <1>2, <2>2
<1>4. PICK m \in M : \A j \in M : m <= j
  <2>1. M \in SUBSET Nat /\ M # {}
    BY <1>3
  <2>. HIDE DEF M
  <2>. QED BY <2>1, LeastElement
<1>5. m \in Nat /\ Cardinality(Below(T, m)) >= k
  BY <1>4
<1>6. m # 0
  BY <1>1, <1>2, <1>5, BelowProperties
<1>7. PICK j \in Nat : m = j + 1
  <2>1. m - 1 \in Nat /\ m = (m - 1) + 1
    BY <1>5, <1>6
  <2>. QED BY <2>1
<1>8. Cardinality(Below(T, j)) < k /\ Cardinality(Below(T, j)) \in Nat
  <2>1. j \notin M
    <3>. HIDE DEF M
    <3>. QED BY <1>4, <1>5, <1>7
  <2>2. Cardinality(Below(T, j)) \in Nat
    BY <1>1, BelowProperties
  <2>. QED BY <1>2, <2>1, <2>2
<1>9. j \in T /\ Cardinality(Below(T, j)) = k - 1
  <2>1. /\ j \in T => Cardinality(Below(T, m)) = Cardinality(Below(T, j)) + 1
        /\ j \notin T => Cardinality(Below(T, m)) = Cardinality(Below(T, j))
    BY <1>1, <1>7, BelowProperties
  <2>. QED BY <1>2, <1>5, <1>8, <2>1
<1>. QED BY <1>9 DEF Kth, Below

\* The first element of a finite set of naturals is the least one.
LEMMA KthOne ==
  ASSUME NEW L \in Nat, NEW T, T \subseteq 0 .. L, NEW j \in T, \A i \in T : j <= i
  PROVE  Cardinality(T) \in Nat \ {0} /\ Kth(T, 1) = j
<1>1. IsFiniteSet(T) /\ \A x : IsFiniteSet({i \in T : i < x})
  <2>1. IsFiniteSet(0 .. L) /\ T \in SUBSET (0 .. L)
    BY FS_Interval
  <2>2. IsFiniteSet(T)
    BY <2>1, FS_Subset
  <2>3. \A x : {i \in T : i < x} \in SUBSET T
    OBVIOUS
  <2>. QED BY <2>2, <2>3, FS_Subset
<1>2. Cardinality(T) \in Nat \ {0}
  BY <1>1, FS_CardinalityType, FS_EmptySet
<1>3. {i \in T : i < j} = {}
  <2>1. \A i \in T : ~(i < j)
    OBVIOUS
  <2>. QED BY <2>1
<1>4. Cardinality({i \in T : i < j}) = 1 - 1
  <2>1. Cardinality({}) = 0 /\ 1 - 1 = 0
    BY FS_EmptySet
  <2>. QED BY <1>3, <2>1
<1>5. ASSUME NEW x \in T, Cardinality({i \in T : i < x}) = 1 - 1 PROVE x = j
  <2>1. {i \in T : i < x} = {}
    BY <1>1, <1>5, FS_EmptySet
  <2>2. ~(j < x)
    BY <2>1
  <2>. QED BY <2>2
<1>. QED BY <1>2, <1>4, <1>5 DEF Kth

-----------------------------------------------------------------------------
\* A final result code that is found at i ends within the input.
LEMMA FinalProperties ==
  ASSUME NEW S, NEW s \in Seq(S), NEW i \in Nat \ {0}, FinalAt(s, i)
  PROVE  EolAt(s, i) /\ CodeEnd(s, i) \in i + 3 .. Len(s) - 1
<1>1. EolAt(s, i) /\ At(s, i + 2, Codes) /\ EolAt(s, CodeEnd(s, i))
  BY DEF FinalAt, CodeTried
<1>2. i + 2 \in 1 .. Len(s) /\ i + 3 \in 1 .. Len(s) + 1
  BY <1>1 DEF At
<1>3. CodeEnd(s, i) \in i + 3 .. Len(s) + 1
  <2>1. TextEnd(s, i + 3) \in i + 3 .. Len(s) + 1
    BY <1>2, TextEndProperties
  <2>. QED BY <1>2, <2>1 DEF CodeEnd
<1>4. CodeEnd(s, i) + 1 <= Len(s)
  BY <1>1, <1>3 DEF EolAt, At
<1>. QED BY <1>1, <1>3, <1>4

\* An input with a line holds two line terminators and a token, and its lines
\* stop behind them.
LEMMA HasLinesProperties ==
  ASSUME NEW S, NEW s \in Seq(S), HasLines(s)
  PROVE  Len(s) >= 5 /\ BodyEnd(s) \in 4 .. Len(s) + 1
<1>1. EolAt(s, 1) /\ LineAt(s, 3)
  BY DEF HasLines
<1>2. Len(s) \in Nat /\ 2 <= Len(s)
  BY <1>1 DEF EolAt, At
<1>3. TextEnd(s, 3) \in 4 .. Len(s) - 1
  BY <1>1, <1>2, LineProperties
<1>4. BodyEnd(s) \in 3 .. Len(s) + 1 /\ ~LineAt(s, BodyEnd(s))
  BY <1>2, BodyEndProperties
<1>. QED BY <1>1, <1>2, <1>3, <1>4

\* What match_condition accepts starts with a line terminator.
LEMMA MatchedStartsWithEol ==
  ASSUME NEW S, NEW s \in Seq(S), Matched(s)
  PROVE  EolAt(s, 1)
BY DEF Matched, FinalAt, CodeTried, HasLines, HasPrompt

\* Nothing is no response.
LEMMA NothingIsNoMatch == ~Matched(<<>>)
<1>1. <<>> \in Seq({}) /\ ~EolAt(<<>>, 1)
  BY DEF EolAt, At
<1>. QED BY <1>1, MatchedStartsWithEol

\* The iterator match_condition returns is inside its range and past the
\* line terminator: a match is never empty and never longer than the input.
LEMMA MatchLenProperties ==
  ASSUME NEW S, NEW s \in Seq(S), Matched(s)
  PROVE  MatchLen(s) \in 3 .. Len(s)
<1>1. Len(s) \in Nat
  OBVIOUS
<1>2. CASE FinalAt(s, 1)
  <2>1. CodeEnd(s, 1) \in 4 .. Len(s) - 1
    BY <1>2, FinalProperties
  <2>. QED BY <1>1, <1>2, <2>1 DEF MatchLen
<1>3. CASE ~FinalAt(s, 1) /\ HasLines(s)
  <2>1. BodyEnd(s) \in 4 .. Len(s) + 1
    BY <1>3, HasLinesProperties
  <2>2. CASE FinalAt(s, BodyEnd(s))
    <3>1. CodeEnd(s, BodyEnd(s)) \in BodyEnd(s) + 3 .. Len(s) - 1
      BY <1>1, <2>1, <2>2, FinalProperties
    <3>. QED BY <1>1, <1>3, <2>1, <2>2, <3>1 DEF MatchLen
  <2>3. CASE ~FinalAt(s, BodyEnd(s))
    BY <1>1, <1>3, <2>1, <2>3 DEF MatchLen
  <2>. QED BY <2>2, <2>3
<1>4. CASE ~FinalAt(s, 1) /\ ~HasLines(s)
  <2>1. HasPrompt(s)
    BY <1>4 DEF Matched
  <2>. QED BY <1>1, <1>4, <2>1 DEF MatchLen, HasPrompt, At
<1>. QED BY <1>2, <1>3, <1>4

-----------------------------------------------------------------------------
\* What parse_response leaves behind: a result code or none, ...
LEMMA ParsedCodeType ==
  ASSUME NEW s
  PROVE  ParsedCode(s) \in Codes \cup {None}
<1>. DEFINE d == DOMAIN Attempts(s)
            P(a) == a \in d /\ CodeTried(s, Attempts(s)[a])
                      /\ \A b \in d : b > a => ~CodeTried(s, Attempts(s)[b])
<1>1. CASE ~\E a \in d : CodeTried(s, Attempts(s)[a])
  BY <1>1 DEF ParsedCode
<1>2. CASE \E a \in d : CodeTried(s, Attempts(s)[a])
  <2>1. d = {1} \/ d = {1, 2}
    BY DEF Attempts
  <2>2. \E a \in d : P(a)
    BY <1>2, <2>1
  <2>3. P(LastAttempt(s, CodeTried))
    BY <2>2 DEF LastAttempt
  <2>4. ParsedCode(s) = s[Attempts(s)[LastAttempt(s, CodeTried)] + 2]
    BY <1>2 DEF ParsedCode
  <2>. QED BY <2>3, <2>4 DEF CodeTried, At
<1>. QED BY <1>1, <1>2

\* ... a run of the input as text, ...
LEMMA ParsedTextType ==
  ASSUME NEW S, NEW s \in Seq(S)
  PROVE  ParsedText(s) \in Seq(S)
<1>. DEFINE d == DOMAIN Attempts(s)
            P(a) == a \in d /\ TextTried(s, Attempts(s)[a])
                      /\ \A b \in d : b > a => ~TextTried(s, Attempts(s)[b])
            i == Attempts(s)[LastAttempt(s, TextTried)]
<1>1. CASE ~\E a \in d : TextTried(s, Attempts(s)[a])
  BY <1>1 DEF ParsedText
<1>2. CASE \E a \in d : TextTried(s, Attempts(s)[a])
  <2>1. d = {1} \/ d = {1, 2}
    BY DEF Attempts
  <2>2. \E a \in d : P(a)
    BY <1>2, <2>1
  <2>3. P(LastAttempt(s, TextTried))
    BY <2>2 DEF LastAttempt
  <2>4. ParsedText(s) = Run(s, i + 3)
    BY <1>2 DEF ParsedText
  <2>5. i \in Nat \ {0}
    <3>1. i = 1 \/ (HasLines(s) /\ i = BodyEnd(s))
      BY <2>1, <2>3 DEF Attempts
    <3>2. HasLines(s) => BodyEnd(s) \in Nat \ {0}
      <4>1. ASSUME HasLines(s) PROVE BodyEnd(s) \in 4 .. Len(s) + 1
        BY <4>1, HasLinesProperties
      <4>. QED BY <4>1
    <3>. HIDE DEF i
    <3>. QED BY <3>1, <3>2
  <2>6. i + 2 \in 1 .. Len(s)
    <3>1. At(s, i + 2, Codes)
      BY <2>3 DEF TextTried, CodeTried
    <3>2. DOMAIN s = 1 .. Len(s)
      BY LenProperties
    <3>. HIDE DEF i
    <3>. QED BY <3>1, <3>2 DEF At
  <2>7. i + 3 \in 1 .. Len(s) + 1
    <3>. HIDE DEF i
    <3>. QED BY <2>5, <2>6
  <2>8. Run(s, i + 3) \in Seq(S)
    <3>. HIDE DEF i
    <3>. QED BY <2>7, RunType
  <2>. QED BY <2>4, <2>8
<1>. QED BY <1>1, <1>2

\* ... and runs of the input, or the prompt, as body.
LEMMA ParsedBodyType ==
  ASSUME NEW S, NEW s \in Seq(S)
  PROVE  ParsedBody(s) \in Seq(Seq(S))
<1>. DEFINE n == Cardinality(RunStarts(s))
            runs == [k \in 1 .. n |-> Run(s, Kth(RunStarts(s), k))]
            last == IF ~FinalAt(s, 1) /\ ~HasLines(s) /\ HasPrompt(s) THEN <<<<PROMPT>>>> ELSE <<>>
<1>1. Len(s) \in Nat /\ RunStarts(s) \subseteq 3 .. Len(s) + 1
  BY DEF RunStarts, LineStarts
<1>2. n \in Nat
  <2>1. IsFiniteSet(3 .. Len(s) + 1)
    BY <1>1, FS_Interval
  <2>2. IsFiniteSet(RunStarts(s))
    BY <1>1, <2>1, FS_Subset
  <2>. QED BY <2>2, FS_CardinalityType
<1>3. ASSUME NEW k \in 1 .. n PROVE Run(s, Kth(RunStarts(s), k)) \in Seq(S)
  <2>1. RunStarts(s) \subseteq 0 .. Len(s) + 1 /\ Len(s) + 1 \in Nat
    BY <1>1
  <2>2. Kth(RunStarts(s), k) \in RunStarts(s)
    BY <2>1, KthProperties
  <2>3. Kth(RunStarts(s), k) \in 1 .. Len(s) + 1
    BY <1>1, <2>2
  <2>. QED BY <2>3, RunType
<1>4. runs \in Seq(Seq(S))
  <2>1. runs \in [1 .. n -> Seq(S)]
    BY <1>3
  <2>. HIDE DEF runs, n
  <2>. QED BY <1>2, <2>1
<1>5. last \in Seq(Seq(S))
  <2>1. CASE HasPrompt(s)
    <3>1. 3 \in 1 .. Len(s) /\ s[3] = PROMPT
      BY <1>1, <2>1 DEF HasPrompt, At
    <3>2. PROMPT \in S
      BY <3>1, ElementOfSeq
    <3>. QED BY <3>2
  <2>2. CASE ~HasPrompt(s)
    BY <2>2
  <2>. QED BY <2>1, <2>2
<1>6. runs \o last \in Seq(Seq(S))
  <2>. HIDE DEF runs, last
  <2>. QED BY <1>4, <1>5, ConcatProperties
<1>. QED BY <1>6 DEF ParsedBody

-----------------------------------------------------------------------------
\* A response with lines begins with the first of them, ...
LEMMA FirstLine ==
  ASSUME NEW S, NEW s \in Seq(S), EolAt(s, 1), ~FinalAt(s, 1), TextEnd(s, 3) > 3
  PROVE  ParsedBody(s) # <<>> /\ ParsedBody(s)[1] = Run(s, 3)
<1>. DEFINE T == RunStarts(s)
            n == Cardinality(T)
            runs == [k \in 1 .. n |-> Run(s, Kth(T, k))]
            last == IF ~FinalAt(s, 1) /\ ~HasLines(s) /\ HasPrompt(s) THEN <<<<PROMPT>>>> ELSE <<>>
<1>1. Len(s) \in Nat /\ Len(s) >= 2
  BY DEF EolAt, At
<1>2. BodyEnd(s) \in 3 .. Len(s) + 1 /\ 3 \in LineStarts(s) /\ LineStarts(s) \subseteq 3 .. Len(s) + 1
  BY <1>1, BodyEndProperties DEF LineStarts
<1>3. 3 \in T /\ T \subseteq 3 .. Len(s) + 1
  BY <1>2 DEF RunStarts
<1>4. n \in Nat \ {0} /\ Kth(T, 1) = 3
  <2>1. Len(s) + 1 \in Nat /\ T \subseteq 0 .. Len(s) + 1 /\ \A i \in T : 3 <= i
    BY <1>1, <1>3
  <2>. HIDE DEF T
  <2>. QED BY <1>3, <2>1, KthOne
<1>5. ParsedBody(s) = runs \o last
  BY DEF ParsedBody
<1>. DEFINE V == {Run(s, Kth(T, k)) : k \in 1 .. n} \cup {<<PROMPT>>}
<1>6. last \in Seq(V)
  <2>1. <<PROMPT>> \in V
    OBVIOUS
  <2>. HIDE DEF V
  <2>. QED BY <2>1
<1>7. Len(runs) = n /\ runs[1] = Run(s, 3) /\ runs \in Seq(V)
  <2>1. runs \in [1 .. n -> V] /\ n \in Nat
    BY <1>4
  <2>2. runs[1] = Run(s, 3)
    BY <1>4
  <2>. HIDE DEF V, runs
  <2>. QED BY <2>1, <2>2
<1>. HIDE DEF T, last, V, runs, n
<1>8. /\ Len(runs \o last) = Len(runs) + Len(last) /\ Len(last) \in Nat
      /\ \A i \in 1 .. Len(runs) + Len(last) : (runs \o last)[i] = IF i <= Len(runs) THEN runs[i] ELSE last[i - Len(runs)]
  BY <1>6, <1>7, ConcatProperties, LenProperties
<1>9. Len(runs \o last) >= 1 /\ (runs \o last)[1] = runs[1]
  <2>1. 1 \in 1 .. Len(runs) + Len(last) /\ 1 <= Len(runs)
    BY <1>4, <1>7, <1>8
  <2>. QED BY <1>8, <2>1
<1>10. runs \o last # <<>>
  <2>1. Len(<<>>) = 0
    OBVIOUS
  <2>. QED BY <1>9, <2>1
<1>. QED BY <1>5, <1>7, <1>9, <1>10

\* ... and a final result code on its own has none.
LEMMA FinalHasNoBody ==
  ASSUME NEW s, FinalAt(s, 1)
  PROVE  ParsedBody(s) = <<>>
<1>1. RunStarts(s) = {} /\ Cardinality({}) = 0
  BY FS_EmptySet DEF RunStarts
<1>2. 1 .. 0 = {}
  OBVIOUS
<1>3. [k \in 1 .. Cardinality(RunStarts(s)) |-> Run(s, Kth(RunStarts(s), k))] = <<>>
  BY <1>1, <1>2
<1>4. <<>> \o <<>> = <<>>
  OBVIOUS
<1>. QED BY <1>3, <1>4 DEF ParsedBody

\* A run that ends behind its first token is that token.
LEMMA RunOfOne ==
  ASSUME NEW S, NEW s \in Seq(S), NEW i \in 1 .. Len(s), NEW c, Run(s, i) = <<c>>
  PROVE  s[i] = c /\ TextEnd(s, i) = i + 1
<1>. DEFINE e == TextEnd(s, i)
            r == SubSeq(s, i, e - 1)
<1>1. e \in i .. Len(s) + 1 /\ Len(s) \in Nat
  BY TextEndProperties
<1>. HIDE DEF e
<1>2. /\ Len(r) = (IF i <= e - 1 THEN e - 1 - i + 1 ELSE 0)
      /\ \A k \in 1 .. e - 1 - i + 1 : r[k] = s[i + k - 1]
  <2>1. \A k \in i .. e - 1 : s[k] \in S
    BY <1>1, ElementOfSeq
  <2>2. i \in Int /\ e - 1 \in Int
    BY <1>1
  <2>. QED BY <2>1, <2>2, SubSeqProperties
<1>3. Len(r) = 1 /\ r[1] = c
  <2>1. r = <<c>>
    BY DEF Run, e
  <2>. HIDE DEF r
  <2>. QED BY <2>1
<1>. HIDE DEF r
<1>4. e = i + 1
  <2>1. i \in Nat /\ e \in Nat /\ i <= e
    BY <1>1
  <2>2. CASE i <= e - 1
    <3>1. 1 = e - 1 - i + 1
      BY <1>2, <1>3, <2>2
    <3>. QED BY <2>1, <3>1
  <2>3. CASE ~(i <= e - 1)
    <3>1. 1 = 0
      BY <1>2, <1>3, <2>3
    <3>. QED BY <3>1
  <2>. QED BY <2>2, <2>3
<1>5. r[1] = s[i]
  <2>1. 1 \in 1 .. e - 1 - i + 1 /\ i + 1 - 1 = i
    BY <1>1, <1>4
  <2>. QED BY <1>2, <2>1
<1>. QED BY <1>3, <1>4, <1>5 DEF e

-----------------------------------------------------------------------------
\* Looking at a longer input, the parser sees the same tokens.
LEMMA PrefixLooksTheSame ==
  ASSUME NEW S, NEW s \in Seq(S), NEW u \in Seq(S)
  PROVE  /\ Len(s \o u) = Len(s) + Len(u) /\ s \o u \in Seq(S)
         /\ \A i \in 1 .. Len(s) : (s \o u)[i] = s[i]
         /\ \A i, C : At(s, i, C) => At(s \o u, i, C)
         /\ \A i : EolAt(s, i) => EolAt(s \o u, i)
<1>1. /\ Len(s \o u) = Len(s) + Len(u) /\ s \o u \in Seq(S)
      /\ \A i \in 1 .. Len(s) : (s \o u)[i] = s[i]
  <2>1. /\ s \o u \in Seq(S)
        /\ Len(s \o u) = Len(s) + Len(u)
        /\ \A i \in 1 .. Len(s) + Len(u) : (s \o u)[i] = IF i <= Len(s) THEN s[i] ELSE u[i - Len(s)]
    BY ConcatProperties
  <2>2. \A i \in 1 .. Len(s) : i \in 1 .. Len(s) + Len(u) /\ i <= Len(s)
    OBVIOUS
  <2>. QED BY <2>1, <2>2
<1>2. DOMAIN s = 1 .. Len(s) /\ DOMAIN (s \o u) = 1 .. Len(s) + Len(u)
  BY <1>1, LenProperties
<1>3. ASSUME NEW i, NEW C, At(s, i, C) PROVE At(s \o u, i, C)
  <2>1. i \in 1 .. Len(s) /\ s[i] \in C
    BY <1>2, <1>3 DEF At
  <2>2. i \in 1 .. Len(s) + Len(u)
    BY <2>1
  <2>. QED BY <1>1, <1>2, <2>1, <2>2 DEF At
<1>4. \A i : EolAt(s, i) => EolAt(s \o u, i)
  BY <1>3 DEF EolAt
<1>. QED BY <1>1, <1>3, <1>4

\* A run that was ended by a CR ends there in a longer input too.
LEMMA ClosedRunIsStable ==
  ASSUME NEW S, NEW s \in Seq(S), NEW u \in Seq(S), NEW i \in 1 .. Len(s) + 1,
         EolAt(s, TextEnd(s, i))
  PROVE  TextEnd(s \o u, i) = TextEnd(s, i)
<1>. DEFINE t == s \o u
            e == TextEnd(s, i)
            f == TextEnd(t, i)
<1>1. /\ e \in i .. Len(s) /\ s[e] = CR
      /\ \A k \in i .. e - 1 : s[k] # CR
  <2>1. e \in i .. Len(s) + 1 /\ \A k \in i .. e - 1 : s[k] # CR
    BY TextEndProperties
  <2>2. e \in 1 .. Len(s) /\ s[e] = CR
    BY LenProperties DEF EolAt, At
  <2>. HIDE DEF e
  <2>. QED BY <2>1, <2>2
<1>2. /\ t \in Seq(S) /\ Len(t) = Len(s) + Len(u)
      /\ \A k \in 1 .. Len(s) : t[k] = s[k]
  BY PrefixLooksTheSame
<1>3. /\ f \in i .. Len(t) + 1
      /\ f = Len(t) + 1 \/ t[f] = CR
      /\ \A k \in i .. f - 1 : t[k] # CR
  <2>1. i \in 1 .. Len(t) + 1
    <3>. HIDE DEF t
    <3>. QED BY <1>2
  <2>. HIDE DEF t
  <2>. QED BY <1>2, <2>1, TextEndProperties
<1>. HIDE DEF e, f, t
<1>4. ~(e < f)
  <2>1. t[e] = CR /\ e >= i
    BY <1>1, <1>2
  <2>. QED BY <1>1, <1>2, <1>3, <2>1
<1>5. ~(f < e)
  <2>1. SUFFICES ASSUME f < e PROVE FALSE
    OBVIOUS
  <2>2. f \in 1 .. Len(s) /\ f \in i .. e - 1
    BY <1>1, <1>3, <2>1
  <2>3. t[f] = CR
    BY <1>2, <1>3, <2>2
  <2>. QED BY <1>1, <1>2, <2>2, <2>3
<1>6. e = f
  BY <1>1, <1>2, <1>3, <1>4, <1>5
<1>. QED BY <1>6 DEF e, f, t

\* A run that was ended by a CR is the same tokens in a longer input.
LEMMA ClosedRunIsTheSame ==
  ASSUME NEW S, NEW s \in Seq(S), NEW u \in Seq(S), NEW i \in 1 .. Len(s) + 1,
         EolAt(s, TextEnd(s, i))
  PROVE  Run(s \o u, i) = Run(s, i)
<1>. DEFINE t == s \o u
            e == TextEnd(s, i)
<1>1. TextEnd(t, i) = e
  BY ClosedRunIsStable
<1>2. e \in i .. Len(s) + 1 /\ i \in Int /\ e - 1 \in Int /\ Len(s) \in Nat
  <2>1. e \in i .. Len(s) + 1 /\ Len(s) \in Nat
    BY TextEndProperties
  <2>. HIDE DEF e
  <2>. QED BY <2>1
<1>3. \A k \in 1 .. Len(s) : t[k] = s[k]
  BY PrefixLooksTheSame
<1>. HIDE DEF t, e
<1>4. \A k \in i .. e - 1 : t[k] = s[k] /\ s[k] \in S /\ t[k] \in S
  BY <1>2, <1>3, ElementOfSeq
<1>5. /\ SubSeq(s, i, e - 1) \in Seq(S) /\ SubSeq(t, i, e - 1) \in Seq(S)
      /\ Len(SubSeq(s, i, e - 1)) = Len(SubSeq(t, i, e - 1))
      /\ Len(SubSeq(s, i, e - 1)) = IF i <= e - 1 THEN e - 1 - i + 1 ELSE 0
      /\ \A k \in 1 .. e - 1 - i + 1 : SubSeq(s, i, e - 1)[k] = s[i + k - 1]
      /\ \A k \in 1 .. e - 1 - i + 1 : SubSeq(t, i, e - 1)[k] = t[i + k - 1]
  BY <1>2, <1>4, SubSeqProperties
<1>6. \A k \in 1 .. Len(SubSeq(s, i, e - 1)) : SubSeq(s, i, e - 1)[k] = SubSeq(t, i, e - 1)[k]
  <2>1. TAKE k \in 1 .. Len(SubSeq(s, i, e - 1))
  <2>2. k \in 1 .. e - 1 - i + 1 /\ i + k - 1 \in i .. e - 1
    BY <1>2, <1>5
  <2>. QED BY <1>4, <1>5, <2>2
<1>7. SubSeq(s, i, e - 1) = SubSeq(t, i, e - 1)
  BY <1>5, <1>6, SeqEqual
<1>. QED BY <1>1, <1>7 DEF Run, t, e

\* Behind a token that is no CR the run goes on to the same end.
LEMMA RunGoesOn ==
  ASSUME NEW S, NEW s \in Seq(S), NEW i \in 1 .. Len(s), s[i] # CR
  PROVE  TextEnd(s, i + 1) = TextEnd(s, i)
<1>. DEFINE e == TextEnd(s, i)
            f == TextEnd(s, i + 1)
<1>1. Len(s) \in Nat /\ i \in 1 .. Len(s) + 1 /\ i + 1 \in 1 .. Len(s) + 1
  OBVIOUS
<1>2. /\ e \in i .. Len(s) + 1 /\ (e = Len(s) + 1 \/ s[e] = CR)
      /\ \A k \in i .. e - 1 : s[k] # CR
      /\ f \in i + 1 .. Len(s) + 1 /\ (f = Len(s) + 1 \/ s[f] = CR)
      /\ \A k \in i + 1 .. f - 1 : s[k] # CR
  BY <1>1, TextEndProperties
<1>. HIDE DEF e, f
<1>3. e # i
  BY <1>1, <1>2
<1>4. ~(e < f)
  <2>1. SUFFICES ASSUME e < f PROVE FALSE
    OBVIOUS
  <2>2. e \in i + 1 .. f - 1 /\ e # Len(s) + 1
    BY <1>1, <1>2, <1>3, <2>1
  <2>. QED BY <1>2, <2>2
<1>5. ~(f < e)
  <2>1. SUFFICES ASSUME f < e PROVE FALSE
    OBVIOUS
  <2>2. f \in i .. e - 1 /\ f # Len(s) + 1
    BY <1>1, <1>2, <2>1
  <2>. QED BY <1>2, <2>2
<1>6. e = f
  BY <1>1, <1>2, <1>4, <1>5
<1>. QED BY <1>6 DEF e, f

\* A final result code that was read stays where it is, whatever follows it.
LEMMA FinalIsStable ==
  ASSUME NEW S, NEW s \in Seq(S), NEW u \in Seq(S), NEW i \in Nat \ {0}, FinalAt(s, i)
  PROVE  /\ FinalAt(s \o u, i) /\ CodeEnd(s \o u, i) = CodeEnd(s, i)
         /\ TextTried(s \o u, i) <=> TextTried(s, i)
<1>. DEFINE t == s \o u
<1>1. EolAt(s, i) /\ At(s, i + 2, Codes) /\ EolAt(s, CodeEnd(s, i))
  BY DEF FinalAt, CodeTried
<1>2. i + 2 \in 1 .. Len(s) /\ i + 3 \in 1 .. Len(s) + 1
  <2>1. i + 2 \in 1 .. Len(s)
    BY <1>1, LenProperties DEF At
  <2>. QED BY <2>1
<1>3. CodeTried(t, i) /\ t[i + 2] = s[i + 2]
  BY <1>1, <1>2, PrefixLooksTheSame DEF CodeTried
<1>4. EolAt(t, CodeEnd(s, i))
  BY <1>1, PrefixLooksTheSame
<1>5. CASE TextTried(s, i)
  <2>1. TextEnd(t, i + 3) = TextEnd(s, i + 3)
    BY <1>1, <1>2, <1>5, ClosedRunIsStable DEF CodeEnd
  <2>2. TextTried(t, i) /\ CodeEnd(t, i) = CodeEnd(s, i)
    BY <1>3, <1>5, <2>1 DEF TextTried, CodeEnd
  <2>. QED BY <1>3, <1>4, <1>5, <2>2 DEF FinalAt
<1>6. CASE ~TextTried(s, i)
  <2>1. CodeEnd(s, i) = i + 3 /\ s[i + 2] \notin ErrorCodes
    BY <1>6 DEF CodeEnd, FinalAt
  <2>2. t[i + 3] = CR /\ i + 3 \in 1 .. Len(t)
    BY <1>4, <2>1, PrefixLooksTheSame, LenProperties DEF EolAt, At
  <2>3. TextEnd(t, i + 3) = i + 3
    <3>1. /\ TextEnd(t, i + 3) \in i + 3 .. Len(t) + 1
          /\ \A k \in i + 3 .. TextEnd(t, i + 3) - 1 : t[k] # CR
      <4>1. t \in Seq(S) /\ i + 3 \in 1 .. Len(t) + 1
        BY <2>2, PrefixLooksTheSame
      <4>. HIDE DEF t
      <4>. QED BY <4>1, TextEndProperties
    <3>. HIDE DEF t
    <3>. QED BY <2>2, <3>1
  <2>4. ~TextTried(t, i) /\ CodeEnd(t, i) = i + 3
    <3>. HIDE DEF t
    <3>. QED BY <2>3 DEF TextTried, CodeEnd
  <2>. QED BY <1>3, <1>4, <1>6, <2>1, <2>4 DEF FinalAt
<1>. QED BY <1>5, <1>6

\* The first line of an input that has one, once closed, has decided whether
\* it is a final result code.
LEMMA FirstLineDecides ==
  ASSUME NEW S, NEW s \in Seq(S), NEW u \in Seq(S), HasLines(s)
  PROVE  /\ HasLines(s \o u)
         /\ FinalAt(s \o u, 1) <=> FinalAt(s, 1)
         /\ CodeTried(s \o u, 1) <=> CodeTried(s, 1)
         /\ TextTried(s \o u, 1) <=> TextTried(s, 1)
         /\ TextTried(s, 1) => Run(s \o u, 4) = Run(s, 4)
<1>. DEFINE t == s \o u
<1>1. EolAt(s, 1) /\ LineAt(s, 3) /\ 3 \in 1 .. Len(s) + 1
  BY HasLinesProperties DEF HasLines
<1>2. TextEnd(s, 3) \in 4 .. Len(s) - 1 /\ EolAt(s, TextEnd(s, 3)) /\ Len(s) \in Nat
  BY <1>1, LineProperties
<1>3. /\ TextEnd(t, 3) = TextEnd(s, 3)
      /\ EolAt(t, 1) /\ EolAt(t, TextEnd(s, 3))
      /\ Len(t) = Len(s) + Len(u) /\ t \in Seq(S) /\ Len(u) \in Nat
      /\ \A k \in 1 .. Len(s) : t[k] = s[k]
      /\ DOMAIN s = 1 .. Len(s) /\ DOMAIN t = 1 .. Len(t)
  BY <1>1, <1>2, ClosedRunIsStable, PrefixLooksTheSame, LenProperties
<1>. HIDE DEF t
<1>4. HasLines(t)
  BY <1>1, <1>2, <1>3 DEF HasLines, LineAt
<1>5. 3 \in 1 .. Len(s) /\ t[3] = s[3] /\ (CodeTried(t, 1) <=> CodeTried(s, 1))
  <2>1. 3 \in 1 .. Len(s) /\ 3 \in 1 .. Len(t) /\ 1 + 2 = 3
    BY <1>2, <1>3
  <2>2. t[3] = s[3]
    BY <1>3, <2>1
  <2>. QED BY <1>1, <1>3, <2>1, <2>2 DEF CodeTried, At
<1>6. ASSUME CodeTried(s, 1)
      PROVE  /\ TextEnd(s, 4) = TextEnd(s, 3) /\ TextEnd(t, 4) = TextEnd(s, 3)
             /\ Run(t, 4) = Run(s, 4)
  <2>1. s[3] # CR
    <3>1. 1 + 2 = 3 /\ CR \notin Codes
      BY DEF Codes, PlainCodes, ErrorCodes, CR
    <3>. QED BY <1>6, <3>1 DEF CodeTried, At
  <2>2. TextEnd(s, 4) = TextEnd(s, 3)
    BY <1>5, <2>1, RunGoesOn
  <2>3. 4 \in 1 .. Len(s) + 1 /\ EolAt(s, TextEnd(s, 4))
    BY <1>2, <2>2
  <2>. QED BY <2>2, <2>3, ClosedRunIsStable, ClosedRunIsTheSame DEF t
<1>7. TextTried(t, 1) <=> TextTried(s, 1)
  BY <1>5, <1>6 DEF TextTried
<1>8. CodeTried(s, 1) => CodeEnd(t, 1) = CodeEnd(s, 1) /\ CodeEnd(s, 1) \in 4 .. Len(s) - 1
  BY <1>2, <1>6, <1>7 DEF CodeEnd
<1>9. ASSUME CodeTried(s, 1) PROVE EolAt(t, CodeEnd(t, 1)) <=> EolAt(s, CodeEnd(s, 1))
  <2>. DEFINE e == CodeEnd(s, 1)
  <2>1. e \in 1 .. Len(s) /\ e + 1 \in 1 .. Len(s) /\ e \in 1 .. Len(t) /\ e + 1 \in 1 .. Len(t)
    BY <1>2, <1>3, <1>8, <1>9
  <2>2. t[e] = s[e] /\ t[e + 1] = s[e + 1]
    BY <1>3, <2>1
  <2>. HIDE DEF e
  <2>3. EolAt(t, e) <=> EolAt(s, e)
    BY <1>3, <2>1, <2>2 DEF EolAt, At
  <2>. QED BY <1>8, <1>9, <2>3 DEF e
<1>10. FinalAt(t, 1) <=> FinalAt(s, 1)
  BY <1>5, <1>7, <1>9 DEF FinalAt
<1>. QED BY <1>4, <1>5, <1>6, <1>7, <1>10 DEF TextTried, t

\* Lines that were closed stay lines: the repetition of them goes at least as
\* far in a longer input.
LEMMA LinesAreStable ==
  ASSUME NEW S, NEW s \in Seq(S), NEW u \in Seq(S), HasLines(s)
  PROVE  /\ BodyEnd(s \o u) >= BodyEnd(s)
         /\ BodyEnd(s \o u) \in 4 .. Len(s \o u) + 1
         /\ LineStarts(s) \subseteq LineStarts(s \o u)
         /\ \A j \in LineStarts(s \o u) :
              j <= Len(s) + 1 => j \in LineStarts(s)
         /\ \A j \in LineStarts(s \o u) : j < BodyEnd(s) =>
              /\ LineAt(s, j) /\ LineAt(s \o u, j)
              /\ TextEnd(s \o u, j) = TextEnd(s, j)
              /\ Run(s \o u, j) = Run(s, j)
<1>. DEFINE t == s \o u
<1>1. /\ Len(t) = Len(s) + Len(u) /\ t \in Seq(S) /\ Len(u) \in Nat /\ Len(s) \in Nat
      /\ \A k \in 1 .. Len(s) : t[k] = s[k]
      /\ \A i : EolAt(s, i) => EolAt(t, i)
      /\ DOMAIN s = 1 .. Len(s) /\ DOMAIN t = 1 .. Len(t)
  BY PrefixLooksTheSame, LenProperties
<1>2. /\ Len(s) >= 5 /\ BodyEnd(s) \in 4 .. Len(s) + 1
      /\ \A k \in LineStarts(s) : k < BodyEnd(s) => LineAt(s, k)
  BY HasLinesProperties, BodyEndProperties
<1>3. HasLines(t)
  <2>1. EolAt(s, 1) /\ LineAt(s, 3) /\ 3 \in 1 .. Len(s) + 1
    BY <1>2 DEF HasLines
  <2>2. TextEnd(t, 3) = TextEnd(s, 3)
    BY <2>1, ClosedRunIsStable DEF LineAt
  <2>. HIDE DEF t
  <2>. QED BY <1>1, <2>1, <2>2 DEF HasLines, LineAt
<1>4. /\ BodyEnd(t) \in LineStarts(t) /\ BodyEnd(t) \in 4 .. Len(t) + 1
      /\ ~LineAt(t, BodyEnd(t))
  <2>. HIDE DEF t
  <2>1. Len(t) >= 2
    BY <1>1, <1>2
  <2>. QED BY <1>1, <1>3, <2>1, HasLinesProperties, BodyEndProperties
<1>5. LineStarts(s) \subseteq LineStarts(t)
  <2>. HIDE DEF t
  <2>. QED BY <1>1 DEF LineStarts
<1>6. \A j \in LineStarts(t) : j <= Len(s) + 1 => j \in LineStarts(s)
  <2>. HIDE DEF t
  <2>1. SUFFICES ASSUME NEW j \in LineStarts(t), j <= Len(s) + 1 PROVE j \in LineStarts(s)
    OBVIOUS
  <2>2. j \in 3 .. Len(s) + 1
    BY <1>1, <2>1 DEF LineStarts
  <2>3. CASE j = 3
    BY <2>2, <2>3 DEF LineStarts
  <2>4. CASE j # 3
    <3>1. EolAt(t, j - 2)
      BY <2>4 DEF LineStarts
    <3>2. j - 2 \in 1 .. Len(s) /\ j - 2 + 1 \in 1 .. Len(s)
      BY <1>1, <2>2, <2>4
    <3>3. t[j - 2] = s[j - 2] /\ t[j - 2 + 1] = s[j - 2 + 1]
      BY <1>1, <3>2
    <3>4. EolAt(s, j - 2)
      BY <1>1, <3>1, <3>2, <3>3 DEF EolAt, At
    <3>. QED BY <2>2, <3>4 DEF LineStarts
  <2>. QED BY <2>3, <2>4
<1>7. ASSUME NEW j \in LineStarts(t), j < BodyEnd(s)
      PROVE  /\ LineAt(s, j) /\ LineAt(t, j)
             /\ TextEnd(t, j) = TextEnd(s, j) /\ Run(t, j) = Run(s, j)
  <2>1. j \in Nat /\ j >= 3
    BY DEF LineStarts
  <2>2. j \in 1 .. Len(s) + 1 /\ j \in LineStarts(s)
    BY <1>2, <1>6, <1>7, <2>1
  <2>3. LineAt(s, j)
    BY <1>2, <1>7, <2>2
  <2>4. TextEnd(t, j) = TextEnd(s, j) /\ Run(t, j) = Run(s, j)
    BY <2>2, <2>3, ClosedRunIsStable, ClosedRunIsTheSame DEF LineAt
  <2>. HIDE DEF t
  <2>. QED BY <1>1, <2>3, <2>4 DEF LineAt
<1>8. BodyEnd(t) >= BodyEnd(s)
  <2>. HIDE DEF t
  <2>1. ~(BodyEnd(t) < BodyEnd(s))
    BY <1>4, <1>7
  <2>. QED BY <1>2, <1>4, <2>1
<1>. QED BY <1>4, <1>5, <1>6, <1>7, <1>8

\* So do lines that a final result code ends: nothing can be inserted.
LEMMA BodyEndIsStable ==
  ASSUME NEW S, NEW s \in Seq(S), NEW u \in Seq(S), HasLines(s), FinalAt(s, BodyEnd(s))
  PROVE  BodyEnd(s \o u) = BodyEnd(s) /\ RunStarts(s \o u) = RunStarts(s)
<1>. DEFINE t == s \o u
            B == BodyEnd(s)
<1>1. /\ BodyEnd(t) >= B /\ BodyEnd(t) \in Nat /\ B \in 4 .. Len(s) + 1 /\ Len(s) \in Nat
      /\ B \in LineStarts(s) /\ ~LineAt(s, B)
      /\ \A k \in LineStarts(s) : k < B => LineAt(s, k)
      /\ LineStarts(s) \subseteq LineStarts(t)
      /\ \A j \in LineStarts(t) : j <= Len(s) + 1 => j \in LineStarts(s)
      /\ \A j \in LineStarts(t) : j < B => LineAt(t, j) /\ TextEnd(t, j) = TextEnd(s, j)
  BY HasLinesProperties, LinesAreStable, BodyEndProperties
<1>2. EolAt(s, B) /\ EolAt(t, B)
  BY PrefixLooksTheSame DEF FinalAt, CodeTried
<1>3. ASSUME NEW x \in Seq(S), EolAt(x, B) PROVE TextEnd(x, B) = B
  <2>1. B \in 1 .. Len(x) /\ x[B] = CR /\ Len(x) \in Nat
    <3>. HIDE DEF B
    <3>. QED BY <1>3, LenProperties DEF EolAt, At
  <2>2. TextEnd(x, B) \in B .. Len(x) + 1 /\ \A k \in B .. TextEnd(x, B) - 1 : x[k] # CR
    <3>. HIDE DEF B
    <3>1. B \in 1 .. Len(x) + 1
      BY <2>1
    <3>. QED BY <3>1, TextEndProperties
  <2>. HIDE DEF B
  <2>. QED BY <2>1, <2>2
<1>4. t \in Seq(S)
  BY PrefixLooksTheSame
<1>5. TextEnd(s, B) = B /\ TextEnd(t, B) = B
  <2>. HIDE DEF B, t
  <2>. QED BY <1>2, <1>3, <1>4
<1>6. \A k \in LineStarts(t) : k < BodyEnd(t) => LineAt(t, k)
  <2>1. Len(t) >= 2
    <3>. HIDE DEF t, B
    <3>. QED BY <1>2, <1>4, LenProperties DEF EolAt, At
  <2>. HIDE DEF t
  <2>. QED BY <1>4, <2>1, BodyEndProperties
<1>. HIDE DEF t, B
<1>7. BodyEnd(t) = B
  <2>1. ~(B < BodyEnd(t))
    BY <1>1, <1>5, <1>6 DEF LineAt
  <2>. QED BY <1>1, <2>1
<1>8. EolAt(s, 1) /\ EolAt(t, 1)
  BY PrefixLooksTheSame DEF HasLines, t
<1>9. FinalAt(t, 1) <=> FinalAt(s, 1)
  BY FirstLineDecides DEF t
<1>10. ASSUME NEW j
       PROVE  (j \in LineStarts(t) /\ j <= B /\ TextEnd(t, j) > j)
                <=> (j \in LineStarts(s) /\ j <= B /\ TextEnd(s, j) > j)
  <2>1. ASSUME j \in LineStarts(s) \/ j \in LineStarts(t) PROVE j \in Nat
    BY <2>1 DEF LineStarts
  <2>2. ASSUME j \in LineStarts(t), j <= B PROVE j \in LineStarts(s)
    BY <1>1, <2>1, <2>2
  <2>3. ASSUME j \in LineStarts(t), j <= B PROVE TextEnd(t, j) = TextEnd(s, j)
    <3>1. j < B \/ j = B
      BY <1>1, <2>1, <2>3
    <3>. QED BY <1>1, <1>5, <2>3, <3>1
  <2>. QED BY <1>1, <2>2, <2>3
<1>11. {j \in LineStarts(t) : j <= B /\ TextEnd(t, j) > j}
         = {j \in LineStarts(s) : j <= B /\ TextEnd(s, j) > j}
  BY <1>10
<1>12. RunStarts(t) = RunStarts(s)
  BY <1>7, <1>8, <1>9, <1>11 DEF RunStarts, B
<1>. QED BY <1>7, <1>12 DEF t, B

\* Two inputs with the same attempts agree on the last one that found a code.
LEMMA LastCodeIsTheSame ==
  ASSUME NEW s, NEW t, Attempts(t) = Attempts(s),
         \A a \in DOMAIN Attempts(s) : CodeTried(t, Attempts(s)[a]) <=> CodeTried(s, Attempts(s)[a]),
         \E a \in DOMAIN Attempts(s) : CodeTried(s, Attempts(s)[a])
  PROVE  /\ LastAttempt(t, CodeTried) = LastAttempt(s, CodeTried)
         /\ LastAttempt(s, CodeTried) \in DOMAIN Attempts(s)
         /\ CodeTried(s, Attempts(s)[LastAttempt(s, CodeTried)])
<1>. DEFINE d == DOMAIN Attempts(s)
            P(x, a) == a \in d /\ CodeTried(x, Attempts(s)[a])
                         /\ \A b \in d : b > a => ~CodeTried(x, Attempts(s)[b])
<1>1. d = {1} \/ d = {1, 2}
  BY DEF Attempts
<1>2. \E a \in d : P(s, a)
  BY <1>1
<1>3. \E a \in d : P(t, a)
  BY <1>2
<1>4. P(s, LastAttempt(s, CodeTried))
  BY <1>2 DEF LastAttempt
<1>5. P(t, LastAttempt(t, CodeTried))
  BY <1>3 DEF LastAttempt
<1>6. P(s, LastAttempt(t, CodeTried))
  BY <1>5
<1>7. \A a, b : P(s, a) /\ P(s, b) => a = b
  <2>1. \A a, b \in d : a > b \/ b > a \/ a = b
    BY <1>1
  <2>. QED BY <2>1
<1>. QED BY <1>4, <1>6, <1>7

\* Two inputs with the same attempts agree on the last one that found a text.
LEMMA LastTextIsTheSame ==
  ASSUME NEW s, NEW t, Attempts(t) = Attempts(s),
         \A a \in DOMAIN Attempts(s) : TextTried(t, Attempts(s)[a]) <=> TextTried(s, Attempts(s)[a]),
         \E a \in DOMAIN Attempts(s) : TextTried(s, Attempts(s)[a])
  PROVE  /\ LastAttempt(t, TextTried) = LastAttempt(s, TextTried)
         /\ LastAttempt(s, TextTried) \in DOMAIN Attempts(s)
         /\ TextTried(s, Attempts(s)[LastAttempt(s, TextTried)])
<1>. DEFINE d == DOMAIN Attempts(s)
            P(x, a) == a \in d /\ TextTried(x, Attempts(s)[a])
                         /\ \A b \in d : b > a => ~TextTried(x, Attempts(s)[b])
<1>1. d = {1} \/ d = {1, 2}
  BY DEF Attempts
<1>2. \E a \in d : P(s, a)
  BY <1>1
<1>3. \E a \in d : P(t, a)
  BY <1>2
<1>4. P(s, LastAttempt(s, TextTried))
  BY <1>2 DEF LastAttempt
<1>5. P(t, LastAttempt(t, TextTried))
  BY <1>3 DEF LastAttempt
<1>6. P(s, LastAttempt(t, TextTried))
  BY <1>5
<1>7. \A a, b : P(s, a) /\ P(s, b) => a = b
  <2>1. \A a, b \in d : a > b \/ b > a \/ a = b
    BY <1>1
  <2>. QED BY <2>1
<1>. QED BY <1>4, <1>6, <1>7

\* What is attached to the result code of an attempt that both inputs make.
LEMMA ParsedCodeIsTheSame ==
  ASSUME NEW s, NEW t, Attempts(t) = Attempts(s),
         \A a \in DOMAIN Attempts(s) :
           /\ CodeTried(t, Attempts(s)[a]) <=> CodeTried(s, Attempts(s)[a])
           /\ CodeTried(s, Attempts(s)[a]) => t[Attempts(s)[a] + 2] = s[Attempts(s)[a] + 2]
           /\ TextTried(t, Attempts(s)[a]) <=> TextTried(s, Attempts(s)[a])
           /\ TextTried(s, Attempts(s)[a]) => Run(t, Attempts(s)[a] + 3) = Run(s, Attempts(s)[a] + 3)
  PROVE  ParsedCode(t) = ParsedCode(s) /\ ParsedText(t) = ParsedText(s)
<1>1. ParsedCode(t) = ParsedCode(s)
  <2>1. CASE \E a \in DOMAIN Attempts(s) : CodeTried(s, Attempts(s)[a])
    <3>1. /\ LastAttempt(t, CodeTried) = LastAttempt(s, CodeTried)
          /\ LastAttempt(s, CodeTried) \in DOMAIN Attempts(s)
          /\ CodeTried(s, Attempts(s)[LastAttempt(s, CodeTried)])
      BY <2>1, LastCodeIsTheSame
    <3>2. \E a \in DOMAIN Attempts(t) : CodeTried(t, Attempts(t)[a])
      BY <2>1
    <3>3. ParsedCode(t) = t[Attempts(s)[LastAttempt(s, CodeTried)] + 2]
      BY <3>1, <3>2 DEF ParsedCode
    <3>4. ParsedCode(s) = s[Attempts(s)[LastAttempt(s, CodeTried)] + 2]
      BY <2>1 DEF ParsedCode
    <3>. QED BY <3>1, <3>3, <3>4
  <2>2. CASE ~\E a \in DOMAIN Attempts(s) : CodeTried(s, Attempts(s)[a])
    BY <2>2 DEF ParsedCode
  <2>. QED BY <2>1, <2>2
<1>2. ParsedText(t) = ParsedText(s)
  <2>1. CASE \E a \in DOMAIN Attempts(s) : TextTried(s, Attempts(s)[a])
    <3>1. /\ LastAttempt(t, TextTried) = LastAttempt(s, TextTried)
          /\ LastAttempt(s, TextTried) \in DOMAIN Attempts(s)
          /\ TextTried(s, Attempts(s)[LastAttempt(s, TextTried)])
      BY <2>1, LastTextIsTheSame
    <3>. QED BY <2>1, <3>1 DEF ParsedText
  <2>2. CASE ~\E a \in DOMAIN Attempts(s) : TextTried(s, Attempts(s)[a])
    BY <2>2 DEF ParsedText
  <2>. QED BY <2>1, <2>2
<1>. QED BY <1>1, <1>2

\* A bare final result code is parsed the same, whatever follows it.
LEMMA CodeParseIsStable ==
  ASSUME NEW S, NEW s \in Seq(S), NEW u \in Seq(S), FinalAt(s, 1)
  PROVE  Parse(s \o u) = Parse(s)
<1>. DEFINE t == s \o u
<1>1. FinalAt(t, 1) /\ (TextTried(t, 1) <=> TextTried(s, 1)) /\ CodeTried(t, 1) /\ CodeTried(s, 1)
  <2>1. FinalAt(t, 1) /\ (TextTried(t, 1) <=> TextTried(s, 1))
    BY FinalIsStable
  <2>. QED BY <2>1 DEF FinalAt
<1>2. /\ Attempts(t) = <<1>> /\ Attempts(s) = <<1>>
      /\ DOMAIN <<1>> = {1} /\ <<1>>[1] = 1
  BY <1>1 DEF Attempts
<1>3. t[1 + 2] = s[1 + 2]
  <2>1. 1 + 2 \in 1 .. Len(s)
    BY <1>1, LenProperties DEF CodeTried, At
  <2>. QED BY <2>1, PrefixLooksTheSame
<1>4. ASSUME TextTried(s, 1) PROVE Run(t, 1 + 3) = Run(s, 1 + 3)
  <2>1. 1 + 3 \in 1 .. Len(s) + 1
    <3>1. 1 + 2 \in 1 .. Len(s)
      BY <1>1, LenProperties DEF CodeTried, At
    <3>. QED BY <3>1
  <2>2. EolAt(s, TextEnd(s, 1 + 3))
    BY <1>4 DEF FinalAt, CodeEnd
  <2>. QED BY <2>1, <2>2, ClosedRunIsTheSame
<1>. HIDE DEF t
<1>5. ParsedCode(t) = ParsedCode(s) /\ ParsedText(t) = ParsedText(s)
  <2>1. \A a \in DOMAIN Attempts(s) : Attempts(s)[a] = 1
    BY <1>2
  <2>. QED BY <1>1, <1>2, <1>3, <1>4, <2>1, ParsedCodeIsTheSame
<1>6. ParsedBody(t) = ParsedBody(s)
  BY <1>1, FinalHasNoBody
<1>. QED BY <1>5, <1>6 DEF Parse, t

\* So are lines that a final result code ends.
LEMMA LinesParseIsStable ==
  ASSUME NEW S, NEW s \in Seq(S), NEW u \in Seq(S),
         ~FinalAt(s, 1), HasLines(s), FinalAt(s, BodyEnd(s))
  PROVE  Parse(s \o u) = Parse(s)
<1>. DEFINE t == s \o u
            B == BodyEnd(s)
<1>1. /\ BodyEnd(t) = B /\ RunStarts(t) = RunStarts(s)
      /\ HasLines(t) /\ ~FinalAt(t, 1)
      /\ CodeTried(t, 1) <=> CodeTried(s, 1)
      /\ TextTried(t, 1) <=> TextTried(s, 1)
      /\ TextTried(s, 1) => Run(t, 4) = Run(s, 4)
  BY BodyEndIsStable, FirstLineDecides
<1>2. /\ B \in 4 .. Len(s) + 1 /\ Len(s) \in Nat
      /\ \A k \in LineStarts(s) : k < B => LineAt(s, k)
      /\ Len(s) >= 5 /\ DOMAIN s = 1 .. Len(s)
      /\ \A i \in 1 .. Len(s) : t[i] = s[i]
  BY HasLinesProperties, BodyEndProperties, PrefixLooksTheSame, LenProperties
<1>3. /\ FinalAt(t, B) /\ (TextTried(t, B) <=> TextTried(s, B))
      /\ EolAt(s, CodeEnd(s, B))
  <2>1. B \in Nat \ {0}
    BY <1>2
  <2>. HIDE DEF t
  <2>2. FinalAt(t, B) /\ (TextTried(t, B) <=> TextTried(s, B))
    BY <2>1, FinalIsStable DEF t
  <2>. QED BY <2>2 DEF FinalAt
<1>4. CodeTried(t, B) /\ CodeTried(s, B) /\ EolAt(s, B)
  BY <1>3 DEF FinalAt, CodeTried
<1>5. B + 2 \in 1 .. Len(s) /\ B + 3 \in 1 .. Len(s) + 1 /\ s[B] = CR
  <2>. HIDE DEF B
  <2>1. B + 2 \in 1 .. Len(s) /\ s[B] = CR
    BY <1>2, <1>4 DEF CodeTried, EolAt, At
  <2>. QED BY <1>2, <2>1
<1>6. ASSUME TextTried(s, B) PROVE Run(t, B + 3) = Run(s, B + 3)
  BY <1>3, <1>5, <1>6, ClosedRunIsTheSame DEF CodeEnd
<1>7. TextEnd(s, B) = B
  <2>1. B \in 1 .. Len(s) + 1
    BY <1>2
  <2>2. TextEnd(s, B) \in B .. Len(s) + 1 /\ \A k \in B .. TextEnd(s, B) - 1 : s[k] # CR
    BY <2>1, TextEndProperties
  <2>. HIDE DEF B
  <2>. QED BY <1>2, <1>5, <2>2
<1>8. ASSUME NEW j \in RunStarts(s) PROVE Run(t, j) = Run(s, j)
  <2>1. j \in LineStarts(s) /\ j <= B /\ TextEnd(s, j) > j /\ j \in 3 .. Len(s) + 1
    BY DEF RunStarts, LineStarts
  <2>2. j < B
    <3>. HIDE DEF B
    <3>. QED BY <1>2, <1>7, <2>1
  <2>3. LineAt(s, j) /\ j \in 1 .. Len(s) + 1
    BY <1>2, <2>1, <2>2
  <2>. QED BY <2>3, ClosedRunIsTheSame DEF LineAt
<1>9. ParsedBody(t) = ParsedBody(s)
  <2>. DEFINE n == Cardinality(RunStarts(s))
  <2>1. \A k \in 1 .. n : Kth(RunStarts(s), k) \in RunStarts(s)
    <3>1. RunStarts(s) \subseteq 0 .. Len(s) + 1
      BY <1>2 DEF RunStarts, LineStarts
    <3>. QED BY <1>2, <3>1, KthProperties
  <2>2. [k \in 1 .. n |-> Run(t, Kth(RunStarts(s), k))] = [k \in 1 .. n |-> Run(s, Kth(RunStarts(s), k))]
    BY <1>8, <2>1
  <2>. HIDE DEF t
  <2>. QED BY <1>1, <2>2 DEF ParsedBody
<1>. HIDE DEF t, B
<1>10. Attempts(t) = <<1, B>> /\ Attempts(s) = <<1, B>>
  BY <1>1 DEF Attempts, B
<1>11. ParsedCode(t) = ParsedCode(s) /\ ParsedText(t) = ParsedText(s)
  <2>1. DOMAIN <<1, B>> = {1, 2} /\ <<1, B>>[1] = 1 /\ <<1, B>>[2] = B
    OBVIOUS
  <2>2. t[1 + 2] = s[1 + 2] /\ t[B + 2] = s[B + 2]
    <3>1. 1 + 2 \in 1 .. Len(s)
      BY <1>2
    <3>. QED BY <1>2, <1>5, <3>1
  <2>3. TextTried(s, 1) => Run(t, 1 + 3) = Run(s, 1 + 3)
    <3>1. 1 + 3 = 4
      OBVIOUS
    <3>. QED BY <1>1, <3>1
  <2>4. ASSUME NEW a \in DOMAIN Attempts(s) PROVE Attempts(s)[a] \in {1, B}
    BY <1>10, <2>1
  <2>5. ASSUME NEW b \in {1, B}
        PROVE  /\ CodeTried(t, b) <=> CodeTried(s, b)
               /\ CodeTried(s, b) => t[b + 2] = s[b + 2]
               /\ TextTried(t, b) <=> TextTried(s, b)
               /\ TextTried(s, b) => Run(t, b + 3) = Run(s, b + 3)
    <3>1. CASE b = 1
      BY <1>1, <2>2, <2>3, <3>1
    <3>2. CASE b = B
      BY <1>3, <1>4, <1>6, <2>2, <3>2
    <3>. QED BY <3>1, <3>2
  <2>. QED BY <1>10, <2>4, <2>5, ParsedCodeIsTheSame
<1>. QED BY <1>9, <1>11 DEF Parse, t

\* Once a response is a prefix of the input it stays one, and if it is a bare
\* final result code its end stays too: more input can only make read_until
\* report a response it would have reported before, or a longer one.
LEMMA MatchSurvivesMoreInput ==
  ASSUME NEW S, NEW s \in Seq(S), NEW u \in Seq(S), Matched(s)
  PROVE  /\ Matched(s \o u)
         /\ FinalAt(s, 1) => MatchLen(s \o u) = MatchLen(s)
<1>1. CASE FinalAt(s, 1)
  <2>1. FinalAt(s \o u, 1) /\ CodeEnd(s \o u, 1) = CodeEnd(s, 1)
    BY <1>1, FinalIsStable
  <2>. QED BY <1>1, <2>1 DEF Matched, MatchLen
<1>2. CASE ~FinalAt(s, 1) /\ HasLines(s)
  <2>1. EolAt(s, 1) /\ LineAt(s, 3)
    BY <1>2 DEF HasLines
  <2>2. 3 \in 1 .. Len(s) + 1
    BY <1>2, HasLinesProperties
  <2>3. TextEnd(s \o u, 3) = TextEnd(s, 3)
    BY <2>1, <2>2, ClosedRunIsStable DEF LineAt
  <2>4. HasLines(s \o u)
    BY <2>1, <2>3, PrefixLooksTheSame DEF HasLines, LineAt
  <2>. QED BY <1>2, <2>4 DEF Matched
<1>3. CASE ~FinalAt(s, 1) /\ HasPrompt(s)
  <2>1. HasPrompt(s \o u)
    BY <1>3, PrefixLooksTheSame DEF HasPrompt
  <2>. QED BY <1>3, <2>1 DEF Matched
<1>. QED BY <1>1, <1>2, <1>3 DEF Matched

-----------------------------------------------------------------------------
\* Whose number of smaller elements is given is that element.
LEMMA KthIs ==
  ASSUME NEW L \in Nat, NEW T, T \subseteq 0 .. L, NEW j \in T, NEW k,
         Cardinality(Below(T, j)) = k - 1
  PROVE  Kth(T, k) = j
<1>1. T \in SUBSET Nat /\ IsFiniteSet(T)
  <2>1. IsFiniteSet(0 .. L) /\ T \in SUBSET (0 .. L)
    BY FS_Interval
  <2>2. IsFiniteSet(T)
    BY <2>1, FS_Subset
  <2>. QED BY <2>1, <2>2
<1>2. ASSUME NEW x \in T, NEW y \in T, x < y PROVE Cardinality(Below(T, x)) < Cardinality(Below(T, y))
  <2>1. Below(T, x + 1) \in SUBSET Below(T, y)
    <3>1. \A i \in T : i < x + 1 => i < y
      BY <1>1, <1>2
    <3>. QED BY <3>1, Zenon DEF Below
  <2>2. IsFiniteSet(Below(T, y))
    <3>1. Below(T, y) \in SUBSET T
      BY DEF Below
    <3>. QED BY <1>1, <3>1, FS_Subset
  <2>3. /\ Cardinality(Below(T, x + 1)) <= Cardinality(Below(T, y))
        /\ Cardinality(Below(T, y)) \in Nat
    BY <2>1, <2>2, FS_Subset, FS_CardinalityType
  <2>4. /\ Cardinality(Below(T, x + 1)) = Cardinality(Below(T, x)) + 1
        /\ Cardinality(Below(T, x)) \in Nat
    BY <1>1, BelowProperties
  <2>. QED BY <2>3, <2>4
<1>3. ASSUME NEW x \in T, Cardinality(Below(T, x)) = k - 1 PROVE x = j
  <2>1. Cardinality(Below(T, x)) = Cardinality(Below(T, j)) /\ Cardinality(Below(T, x)) \in Nat
    BY <1>1, <1>3, BelowProperties
  <2>2. ~(x < j) /\ ~(j < x)
    BY <1>2, <2>1
  <2>. QED BY <1>1, <2>2
<1>. QED BY <1>3 DEF Kth, Below

\* The element after the k-th is the next one, or there is none.
LEMMA KthNext ==
  ASSUME NEW L \in Nat, NEW T, T \subseteq 0 .. L, NEW k \in 1 .. Cardinality(T),
         NEW e \in Nat, e > Kth(T, k), \A i \in T : i > Kth(T, k) => i >= e
  PROVE  /\ e \in T => k + 1 \in 1 .. Cardinality(T) /\ Kth(T, k + 1) = e
         /\ (\A i \in T : i < e) => k = Cardinality(T)
<1>. DEFINE j == Kth(T, k)
            N == Cardinality(T)
<1>1. T \in SUBSET Nat /\ IsFiniteSet(T) /\ N \in Nat
  <2>1. IsFiniteSet(0 .. L) /\ T \in SUBSET (0 .. L)
    BY FS_Interval
  <2>2. IsFiniteSet(T)
    BY <2>1, FS_Subset
  <2>. QED BY <2>1, <2>2, FS_CardinalityType
<1>2. /\ j \in T /\ Cardinality(Below(T, j)) = k - 1
      /\ e > j /\ \A i \in T : i > j => i >= e
  BY KthProperties
<1>. HIDE DEF j
<1>3. Below(T, e) = Below(T, j + 1)
  <2>1. \A i \in T : i < e <=> i < j + 1
    BY <1>1, <1>2
  <2>. QED BY <2>1, Zenon DEF Below
<1>4. Cardinality(Below(T, e)) = k
  <2>1. Cardinality(Below(T, j + 1)) = Cardinality(Below(T, j)) + 1
    BY <1>1, <1>2, BelowProperties
  <2>. QED BY <1>1, <1>2, <1>3, <2>1
<1>5. ASSUME e \in T PROVE k + 1 \in 1 .. N /\ Kth(T, k + 1) = e
  <2>1. Kth(T, k + 1) = e
    <3>1. Cardinality(Below(T, e)) = (k + 1) - 1
      BY <1>1, <1>4
    <3>. QED BY <1>5, <3>1, KthIs
  <2>2. Below(T, e + 1) \in SUBSET T
    BY DEF Below
  <2>3. Cardinality(Below(T, e + 1)) <= N
    BY <1>1, <2>2, FS_Subset
  <2>4. Cardinality(Below(T, e + 1)) = k + 1
    BY <1>1, <1>4, <1>5, BelowProperties
  <2>. QED BY <1>1, <2>1, <2>3, <2>4
<1>6. ASSUME \A i \in T : i < e PROVE k = N
  <2>1. Below(T, e) = T
    BY <1>6, Zenon DEF Below
  <2>. QED BY <1>4, <2>1
<1>. QED BY <1>5, <1>6

\* What follows a line is the next place a line is looked for.
LEMMA NextLine ==
  ASSUME NEW S, NEW s \in Seq(S), EolAt(s, 1), NEW j \in LineStarts(s), LineAt(s, j)
  PROVE  /\ TextEnd(s, j) + 2 \in LineStarts(s)
         /\ \A i \in LineStarts(s) : i > j => i >= TextEnd(s, j) + 2
<1>. DEFINE e == TextEnd(s, j)
<1>1. Len(s) \in Nat /\ j \in 3 .. Len(s) + 1
  BY LenProperties DEF LineStarts
<1>2. e \in j + 1 .. Len(s) - 1 /\ EolAt(s, e) /\ \A k \in j .. e - 1 : s[k] # CR
  BY <1>1, LineProperties, TextEndProperties
<1>. HIDE DEF e
<1>3. e + 2 \in LineStarts(s)
  <2>1. e + 2 \in 3 .. Len(s) + 1 /\ (e + 2) - 2 = e
    BY <1>1, <1>2
  <2>. QED BY <1>2, <2>1 DEF LineStarts
<1>4. j - 1 \in Nat /\ s[j - 1] = LF
  <2>1. CASE j = 3
    <3>1. s[1 + 1] = LF /\ 1 + 1 = 3 - 1
      BY DEF EolAt, At
    <3>. QED BY <2>1, <3>1
  <2>2. CASE j # 3
    <3>1. EolAt(s, j - 2) /\ (j - 2) + 1 = j - 1
      BY <1>1, <2>2 DEF LineStarts
    <3>2. s[(j - 2) + 1] = LF
      BY <3>1 DEF EolAt, At
    <3>. QED BY <1>1, <3>1, <3>2
  <2>. QED BY <2>1, <2>2
<1>5. ASSUME NEW i \in LineStarts(s), i > j, i < e + 2 PROVE FALSE
  <2>1. i \in 3 .. Len(s) + 1 /\ i # 3 /\ s[i - 2] = CR
    <3>1. i \in 3 .. Len(s) + 1 /\ i # 3
      BY <1>1, <1>5 DEF LineStarts
    <3>. QED BY <3>1 DEF LineStarts, EolAt, At
  <2>2. i - 2 = j - 1 \/ i - 2 \in j .. e - 1
    BY <1>1, <1>2, <1>5, <2>1
  <2>. QED BY <1>2, <1>4, <2>1, <2>2 DEF CR, LF
<1>6. ASSUME NEW i \in LineStarts(s), i > j PROVE i >= e + 2
  <2>1. i \in 3 .. Len(s) + 1
    BY DEF LineStarts
  <2>. QED BY <1>1, <1>2, <1>5, <1>6, <2>1
<1>. QED BY <1>3, <1>6 DEF e

-----------------------------------------------------------------------------
\* Tokens of the input, as strings.
LEMMA Slices ==
  ASSUME NEW S, NEW s \in Seq(S), NEW i \in 1 .. Len(s)
  PROVE  /\ SubSeq(s, i, i) = <<s[i]>>
         /\ EolAt(s, i) => SubSeq(s, i, i + 1) = CRLF
<1>1. Len(s) \in Nat /\ i \in Int /\ \A k \in 1 .. Len(s) : s[k] \in S
  BY LenProperties, ElementOfSeq
<1>2. \A n \in i .. Len(s) : /\ SubSeq(s, i, n) \in Seq(S) /\ Len(SubSeq(s, i, n)) = n - i + 1
                             /\ \A k \in 1 .. n - i + 1 : SubSeq(s, i, n)[k] = s[i + k - 1]
  BY <1>1, SubSeqProperties
<1>3. SubSeq(s, i, i) = <<s[i]>>
  <2>. DEFINE p == SubSeq(s, i, i)
  <2>1. p \in Seq(S) /\ Len(p) = 1 /\ p[1] = s[i]
    <3>1. i \in i .. Len(s) /\ i - i + 1 = 1 /\ i + 1 - 1 = i
      BY <1>1
    <3>. QED BY <1>2, <3>1
  <2>. HIDE DEF p
  <2>2. p = <<s[i]>>
    BY <2>1
  <2>. QED BY <2>2 DEF p
<1>4. ASSUME EolAt(s, i) PROVE SubSeq(s, i, i + 1) = CRLF
  <2>. DEFINE p == SubSeq(s, i, i + 1)
  <2>1. i + 1 \in 1 .. Len(s) /\ s[i] = CR /\ s[i + 1] = LF
    BY <1>1, <1>4 DEF EolAt, At
  <2>2. p \in Seq(S) /\ Len(p) = 2 /\ p[1] = s[i] /\ p[2] = s[i + 1]
    <3>1. /\ i + 1 \in i .. Len(s) /\ (i + 1) - i + 1 = 2 /\ i + 1 - 1 = i /\ i + 2 - 1 = i + 1
          /\ 1 \in 1 .. 2 /\ 2 \in 1 .. 2
      BY <1>1, <2>1
    <3>2. p \in Seq(S) /\ Len(p) = 2 /\ \A k \in 1 .. 2 : p[k] = s[i + k - 1]
      BY <1>2, <3>1
    <3>. QED BY <3>1, <3>2
  <2>. HIDE DEF p
  <2>3. p = <<CR, LF>>
    BY <2>1, <2>2
  <2>. QED BY <2>3 DEF p, CRLF
<1>. QED BY <1>3, <1>4

\* A run and the line terminator behind it.
LEMMA RunIsWritten ==
  ASSUME NEW S, NEW s \in Seq(S), NEW i \in 1 .. Len(s), EolAt(s, TextEnd(s, i))
  PROVE  SubSeq(s, i, TextEnd(s, i) + 1) = Run(s, i) \o CRLF
<1>. DEFINE e == TextEnd(s, i)
<1>1. Len(s) \in Nat /\ e \in i .. Len(s) + 1
  BY LenProperties, TextEndProperties
<1>2. e \in 1 .. Len(s) /\ e + 1 \in 1 .. Len(s) /\ SubSeq(s, e, e + 1) = CRLF
  <2>1. e \in 1 .. Len(s) /\ e + 1 \in 1 .. Len(s)
    BY <1>1 DEF EolAt, At
  <2>. QED BY <2>1, Slices
<1>. HIDE DEF e
<1>3. SubSeq(s, i, e - 1) \o SubSeq(s, (e - 1) + 1, e + 1) = SubSeq(s, i, e + 1)
  <2>1. i \in 1 .. Len(s) + 1 /\ e - 1 \in i - 1 .. Len(s) /\ e + 1 \in e - 1 .. Len(s)
    BY <1>1, <1>2
  <2>. QED BY <2>1, ConcatAdjacentSubSeq
<1>4. (e - 1) + 1 = e
  BY <1>1
<1>. QED BY <1>2, <1>3, <1>4 DEF Run, e

\* A final result code, from its first line terminator to its last.
LEMMA FinalIsWritten ==
  ASSUME NEW S, NEW s \in Seq(S), NEW i \in Nat \ {0}, FinalAt(s, i)
  PROVE  SubSeq(s, i, CodeEnd(s, i) + 1)
           = CRLF \o <<s[i + 2]>> \o (IF TextTried(s, i) THEN Run(s, i + 3) ELSE <<>>) \o CRLF
<1>. DEFINE e == CodeEnd(s, i)
            text == IF TextTried(s, i) THEN Run(s, i + 3) ELSE <<>>
<1>1. /\ Len(s) \in Nat /\ EolAt(s, i) /\ e \in i + 3 .. Len(s) - 1 /\ EolAt(s, e)
      /\ i \in 1 .. Len(s) /\ i + 2 \in 1 .. Len(s) /\ i + 3 \in 1 .. Len(s)
  BY FinalProperties, LenProperties DEF FinalAt
<1>2. SubSeq(s, i, i + 1) = CRLF /\ SubSeq(s, i + 2, i + 2) = <<s[i + 2]>> /\ SubSeq(s, e, e + 1) = CRLF
  <2>1. e \in 1 .. Len(s)
    BY <1>1
  <2>. QED BY <1>1, <2>1, Slices
<1>3. SubSeq(s, i + 3, e - 1) = text
  <2>1. CASE TextTried(s, i)
    BY <2>1 DEF Run, CodeEnd
  <2>2. CASE ~TextTried(s, i)
    <3>1. e = i + 3
      BY <2>2 DEF CodeEnd
    <3>2. SubSeq(s, i + 3, e - 1) = <<>>
      BY <1>1, <3>1, SubSeqEmpty
    <3>. QED BY <2>2, <3>2
  <2>. QED BY <2>1, <2>2
<1>. HIDE DEF e, text
<1>4. SubSeq(s, i, i + 1) \o SubSeq(s, i + 2, i + 2) = SubSeq(s, i, i + 2)
  <2>1. i \in 1 .. Len(s) + 1 /\ i + 1 \in i - 1 .. Len(s) /\ i + 2 \in i + 1 .. Len(s) /\ (i + 1) + 1 = i + 2
    BY <1>1
  <2>. QED BY <2>1, ConcatAdjacentSubSeq
<1>5. SubSeq(s, i, i + 2) \o SubSeq(s, i + 3, e - 1) = SubSeq(s, i, e - 1)
  <2>1. i \in 1 .. Len(s) + 1 /\ i + 2 \in i - 1 .. Len(s) /\ e - 1 \in i + 2 .. Len(s) /\ (i + 2) + 1 = i + 3
    BY <1>1
  <2>. QED BY <2>1, ConcatAdjacentSubSeq
<1>6. SubSeq(s, i, e - 1) \o SubSeq(s, e, e + 1) = SubSeq(s, i, e + 1)
  <2>1. i \in 1 .. Len(s) + 1 /\ e - 1 \in i - 1 .. Len(s) /\ e + 1 \in e - 1 .. Len(s) /\ (e - 1) + 1 = e
    BY <1>1
  <2>. QED BY <2>1, ConcatAdjacentSubSeq
<1>. QED BY <1>2, <1>3, <1>4, <1>5, <1>6 DEF e, text

-----------------------------------------------------------------------------
\* What a parse reports of the attempt at a final code that comes last.
LEMMA LastAttemptCounts ==
  ASSUME NEW s, NEW n, NEW i, DOMAIN Attempts(s) = 1 .. n, n \in {1, 2}, Attempts(s)[n] = i, CodeTried(s, i),
         TextTried(s, Attempts(s)[1]) => n = 1 \/ TextTried(s, i)
  PROVE  /\ ParsedCode(s) = s[i + 2]
         /\ ParsedText(s) = IF TextTried(s, i) THEN Run(s, i + 3) ELSE <<>>
<1>. DEFINE A == Attempts(s)
<1>1. 1 .. n = {1, n} /\ n \in 1 .. n /\ \A b \in 1 .. n : ~(b > n)
  OBVIOUS
<1>2. LastAttempt(s, CodeTried) = n
  <2>1. n \in DOMAIN A /\ CodeTried(s, A[n]) /\ \A b \in DOMAIN A : b > n => ~CodeTried(s, A[b])
    BY <1>1
  <2>2. \A a \in DOMAIN A : (\A b \in DOMAIN A : b > a => ~CodeTried(s, A[b])) => a = n
    BY <1>1
  <2>. QED BY <2>1, <2>2 DEF LastAttempt
<1>3. ASSUME TextTried(s, i) PROVE LastAttempt(s, TextTried) = n
  <2>1. n \in DOMAIN A /\ TextTried(s, A[n]) /\ \A b \in DOMAIN A : b > n => ~TextTried(s, A[b])
    BY <1>1, <1>3
  <2>2. \A a \in DOMAIN A : (\A b \in DOMAIN A : b > a => ~TextTried(s, A[b])) => a = n
    BY <1>1, <1>3
  <2>. QED BY <2>1, <2>2 DEF LastAttempt
<1>4. ParsedCode(s) = s[i + 2]
  BY <1>1, <1>2 DEF ParsedCode
<1>5. ParsedText(s) = IF TextTried(s, i) THEN Run(s, i + 3) ELSE <<>>
  <2>1. CASE TextTried(s, i)
    BY <1>1, <1>3, <2>1 DEF ParsedText
  <2>2. CASE ~TextTried(s, i)
    <3>1. ~\E a \in DOMAIN A : TextTried(s, A[a])
      BY <1>1, <2>2
    <3>. QED BY <2>2, <3>1 DEF ParsedText
  <2>. QED BY <2>1, <2>2
<1>. QED BY <1>4, <1>5

\* An input that begins with a line and with the text of a code is that code.
LEMMA TriedLineIsFinal ==
  ASSUME NEW S, NEW s \in Seq(S), HasLines(s), ~FinalAt(s, 1)
  PROVE  ~TextTried(s, 1)
<1>1. SUFFICES ASSUME TextTried(s, 1) PROVE FALSE
  OBVIOUS
<1>2. s[3] \in Codes /\ 3 \in 1 .. Len(s) /\ Len(s) \in Nat
  <2>1. 1 + 2 = 3
    OBVIOUS
  <2>. QED BY <1>1, <2>1, LenProperties DEF TextTried, CodeTried, At
<1>3. s[3] # CR
  BY <1>2 DEF Codes, PlainCodes, ErrorCodes, CR
<1>4. TextEnd(s, 1 + 3) = TextEnd(s, 3)
  <2>1. TextEnd(s, 3 + 1) = TextEnd(s, 3) /\ 3 + 1 = 1 + 3
    BY <1>2, <1>3, RunGoesOn
  <2>. QED BY <2>1
<1>5. EolAt(s, CodeEnd(s, 1))
  BY <1>1, <1>4 DEF CodeEnd, HasLines, LineAt
<1>. QED BY <1>1, <1>5 DEF FinalAt, TextTried
=============================================================================
