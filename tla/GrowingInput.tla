----------------------------- MODULE GrowingInput -----------------------------
(***************************************************************************)
(* A byte string that grows by one word at a time, the way a buffer does   *)
(* while a read waits, and what match_condition and parse_response make of *)
(* it (lib/src/parser.cpp:92-149) before and after.                        *)
(***************************************************************************)
EXTENDS AtGrammar

CONSTANTS Words,      \* what the string grows by
          MaxWords,   \* bound: the number of words
          MaxStray    \* bound: the number of CR or LF that stand alone

ASSUME WordsAssumption == Words \subseteq Seq(Char)

VARIABLES s, words, strays
vars == <<s, words, strays>>

Init == s = <<>> /\ words = 0 /\ strays = 0

Grow(w) ==
  /\ words < MaxWords
  /\ strays' = strays + (IF w \in {<<CR>>, <<LF>>} THEN 1 ELSE 0)
  /\ strays' <= MaxStray
  /\ s' = s \o w
  /\ words' = words + 1

Next == \E w \in Words : Grow(w)

Spec == Init /\ [][Next]_vars

-----------------------------------------------------------------------------
\* Whether the match ends with a final result code.
EndsInFinal == FinalAt(s, 1) \/ (HasLines(s) /\ FinalAt(s, BodyEnd(s)))

\* Nothing is found but a prompt, or nothing.
OnlyPrompt == ~FinalAt(s, 1) /\ ~HasLines(s)

\* Where the k-th line of the body starts; after the last one, where the lines end.
LineBegin(k) == IF k \in DOMAIN ParsedBody(s) THEN Kth(RunStarts(s), k) ELSE BodyEnd(s)

RenderedFinal(m) == CRLF \o <<m.rc>> \o m.text \o CRLF

\* When match_condition accepts the whole input, parse_response loses none of
\* it: a line terminator, each line of the body with its terminator, one behind
\* the other, and the final code, written out, are the input (the prompt, which
\* is appended twice, is the exception).
RoundTrip ==
  Matched(s) /\ MatchLen(s) = Len(s) /\ ~OnlyPrompt =>
    LET m == Parse(s)
        n == Len(m.body)
    IN  IF FinalAt(s, 1) THEN m.body = <<>> /\ s = RenderedFinal(m)
        ELSE /\ SubSeq(s, 1, LineBegin(1) - 1) = CRLF
             /\ \A k \in 1 .. n : SubSeq(s, LineBegin(k), LineBegin(k + 1) - 1) = m.body[k] \o CRLF
             /\ SubSeq(s, LineBegin(n + 1), Len(s)) = IF EndsInFinal THEN RenderedFinal(m) ELSE <<>>

\* A result code that comes on its own is never the first line of a response:
\* who looks for it among the lines, as the handler of RING does
\* (do_receive_vcall.cpp:186), does not find it whatever arrives behind it.
CodeIsNoLine ==
  Matched(s) /\ ParsedBody(s) # <<>> => \A c \in PlainCodes : ParsedBody(s)[1] # <<c>>

\* A result code reported for an input that is consumed whole is the one the
\* response ends with, unless its first line starts with the literal of a
\* code ("OK..." as text): the setter of an abandoned alternative has fired.
RcMeansFinalCode ==
  Matched(s) /\ MatchLen(s) = Len(s) /\ ParsedCode(s) # None =>
    EndsInFinal \/ At(s, 3, Codes)

\* A read that waits for more never un-sees a response: once a prefix of the
\* input matches, it matches whatever arrives after it, and a response that
\* ends with a final code keeps its extent, which is all read_until relies on.
MatchIsStable ==
  [][Matched(s) =>
       /\ Matched(s')
       /\ MatchLen(s') >= MatchLen(s)
       /\ EndsInFinal => MatchLen(s') = MatchLen(s) /\ Parse(s') = Parse(s)]_vars
=============================================================================
