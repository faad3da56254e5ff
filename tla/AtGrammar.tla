------------------------------ MODULE AtGrammar ------------------------------
(***************************************************************************)
(* The response grammar of the modem (lib/src/parser.cpp) as the Spirit X3 *)
(* parser evaluates it: ordered choice, greedy repetition, and semantic    *)
(* actions that are NOT rolled back when an alternative fails later.       *)
(*                                                                         *)
(* A byte string is a sequence of tokens.  The line terminator is the pair *)
(* CR, LF; the prompt "> " and the literal of each result code are one     *)
(* token each; NUL is the byte a stream buffer grows with; every other     *)
(* CR-free run is made of the tokens in Text.  Blanks, which the skipper   *)
(* of phrase_parse ignores, are left out.                                  *)
(*                                                                         *)
(* The functions of the source return an iterator and a flag; here an end  *)
(* is an index of s (the first unread token), and a test is a predicate.   *)
(***************************************************************************)
EXTENDS Naturals, Sequences, FiniteSets

CONSTANT Text     \* tokens of ordinary text

CR     == "CR"
LF     == "LF"
NUL    == "NUL"
PROMPT == "> "
CRLF   == <<CR, LF>>

\* Literals of the final result codes, and those that take a text.
PlainCodes == {"OK", "RING", "NO CARRIER", "ERROR", "NO DIALTONE", "BUSY", "NO ANSWER",
               "COMMAND NOT SUPPORT", "TOO MANY PARAMETERS"}
ErrorCodes == {"+CME ERROR: ", "+CMS ERROR: "}     \* the text is required
Codes      == PlainCodes \cup ErrorCodes \cup {"CONNECT"}

None == "none"

ASSUME TextAssumption == Text \cap (Codes \cup {CR, LF, NUL, PROMPT, None}) = {}

Char == Text \cup Codes \cup {CR, LF, NUL, PROMPT}

-----------------------------------------------------------------------------
\* Terminals.

At(s, i, S) == i \in DOMAIN s /\ s[i] \in S

EolAt(s, i) == At(s, i, {CR}) /\ At(s, i + 1, {LF})

\* Where the greedy run of CR-free tokens from i ends.
TextEnd(s, i) ==
  CHOOSE e \in i .. Len(s) + 1 :
    /\ e = Len(s) + 1 \/ s[e] = CR
    /\ \A k \in i .. e - 1 : s[k] # CR

Run(s, i) == SubSeq(s, i, TextEnd(s, i) - 1)

-----------------------------------------------------------------------------
(***************************************************************************)
(* FINAL_RESULT_CODE from i.  The setter of a code fires on its literal    *)
(* alone (CodeTried), that of the text on the run after it (TextTried),    *)
(* before the closing line terminator is seen.                             *)
(***************************************************************************)
CodeTried(s, i) == EolAt(s, i) /\ At(s, i + 2, Codes)

TextTried(s, i) ==
  /\ CodeTried(s, i)
  /\ s[i + 2] \notin PlainCodes
  /\ TextEnd(s, i + 3) > i + 3

CodeEnd(s, i) == IF TextTried(s, i) THEN TextEnd(s, i + 3) ELSE i + 3

\* Mutated form: a final code must end the input.
FinalAtTheEnd(s, i) ==
  /\ CodeTried(s, i)
  /\ s[i + 2] \in ErrorCodes => TextTried(s, i)
  /\ EolAt(s, CodeEnd(s, i))
  /\ CodeEnd(s, i) + 1 = Len(s)

FinalAt(s, i) ==
  /\ CodeTried(s, i)
  /\ s[i + 2] \in ErrorCodes => TextTried(s, i)
  /\ EolAt(s, CodeEnd(s, i))

-----------------------------------------------------------------------------
(***************************************************************************)
(* +RESPONSE_LINE: lines that follow one another from index 3.  The        *)
(* repetition stops at BodyEnd, the first place a line is looked for and   *)
(* not found.                                                              *)
(***************************************************************************)
LineAt(s, i) == TextEnd(s, i) > i /\ EolAt(s, TextEnd(s, i))

LineStarts(s) == {j \in 3 .. Len(s) + 1 : j = 3 \/ EolAt(s, j - 2)}

BodyEnd(s) ==
  CHOOSE j \in LineStarts(s) :
    /\ ~LineAt(s, j)
    /\ \A k \in LineStarts(s) : k < j => LineAt(s, k)

HasLines(s) == EolAt(s, 1) /\ LineAt(s, 3)

HasPrompt(s) == EolAt(s, 1) /\ At(s, 3, {PROMPT})

-----------------------------------------------------------------------------
\* match_condition: whether a response is a prefix of s, and its length.

\* Mutated form: lines need a final code of their own.
MatchedByCode(s) == FinalAt(s, 1) \/ HasPrompt(s)

\* Mutated form: the line terminator before a line may be missing.
MatchedAnyLine(s) == FinalAt(s, 1) \/ HasLines(s) \/ HasPrompt(s) \/ LineAt(s, 1)

\* Mutated form: the line terminator behind a line may be missing.
MatchedOpen(s) == FinalAt(s, 1) \/ (EolAt(s, 1) /\ TextEnd(s, 3) > 3) \/ HasPrompt(s)

Matched(s) == FinalAt(s, 1) \/ HasLines(s) \/ HasPrompt(s)

MatchLen(s) ==
  IF FinalAt(s, 1) THEN CodeEnd(s, 1) + 1
  ELSE IF ~HasLines(s) THEN 3
  ELSE IF FinalAt(s, BodyEnd(s)) THEN CodeEnd(s, BodyEnd(s)) + 1
  ELSE BodyEnd(s) - 1

-----------------------------------------------------------------------------
(***************************************************************************)
(* parse_response: what the semantic actions have left behind when the     *)
(* parser returns, whether or not the parse succeeded.                     *)
(***************************************************************************)

\* Mutated form: the terminator of the first line opens a final code.
AttemptsAtFirstLine(s) == IF ~FinalAt(s, 1) /\ HasLines(s) THEN <<1, TextEnd(s, 3)>> ELSE <<1>>

\* The attempts at a final result code, in order.
Attempts(s) == IF ~FinalAt(s, 1) /\ HasLines(s) THEN <<1, BodyEnd(s)>> ELSE <<1>>

LastAttempt(s, Tried(_, _)) ==
  CHOOSE a \in DOMAIN Attempts(s) :
    /\ Tried(s, Attempts(s)[a])
    /\ \A b \in DOMAIN Attempts(s) : b > a => ~Tried(s, Attempts(s)[b])

ParsedCode(s) ==
  IF \E a \in DOMAIN Attempts(s) : CodeTried(s, Attempts(s)[a])
  THEN s[Attempts(s)[LastAttempt(s, CodeTried)] + 2]
  ELSE None

ParsedText(s) ==
  IF \E a \in DOMAIN Attempts(s) : TextTried(s, Attempts(s)[a])
  THEN Run(s, Attempts(s)[LastAttempt(s, TextTried)] + 3)
  ELSE <<>>

\* Mutated form: a run without its line terminator is dropped.
RunStartsOfLines(s) ==
  IF EolAt(s, 1) /\ ~FinalAt(s, 1)
  THEN {j \in LineStarts(s) : j < BodyEnd(s)}
  ELSE {}

\* Mutated form: the first line is not stored.
RunStartsAfterFirst(s) ==
  IF EolAt(s, 1) /\ ~FinalAt(s, 1)
  THEN {j \in LineStarts(s) : 3 < j /\ j <= BodyEnd(s) /\ TextEnd(s, j) > j}
  ELSE {}

\* The places a line was looked for and a run was found: the run is appended
\* to the body even if its line terminator is missing.
RunStarts(s) ==
  IF EolAt(s, 1) /\ ~FinalAt(s, 1)
  THEN {j \in LineStarts(s) : j <= BodyEnd(s) /\ TextEnd(s, j) > j}
  ELSE {}

Kth(S, k) == CHOOSE j \in S : Cardinality({i \in S : i < j}) = k - 1

ParsedBody(s) ==
  [k \in 1 .. Cardinality(RunStarts(s)) |-> Run(s, Kth(RunStarts(s), k))]
    \o (IF ~FinalAt(s, 1) /\ ~HasLines(s) /\ HasPrompt(s) THEN <<<<PROMPT>>>> ELSE <<>>)

Parse(s) == [rc |-> ParsedCode(s), text |-> ParsedText(s), body |-> ParsedBody(s)]
=============================================================================
