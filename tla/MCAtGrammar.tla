----------------------------- MODULE MCAtGrammar -----------------------------
(***************************************************************************)
(* AtGrammar over every short byte string, against a reference definition: *)
(* a recursive descent parser that walks the grammar of parser.cpp:69-85   *)
(* in its order and threads the state the semantic actions write.  st.rc,  *)
(* st.text and st.body are kept when an alternative fails, st.i (the       *)
(* iterator) is not.                                                       *)
(***************************************************************************)
EXTENDS GrowingInput, TLC

mc_Words == {CRLF, <<CR>>, <<LF>>, <<"OK">>, <<"+CME ERROR: ">>, <<"CONNECT">>, <<"t">>, <<PROMPT>>}

-----------------------------------------------------------------------------
\* The reference parser.  Each rule maps a state to a state; ok tells whether
\* it matched, and a rule that fails leaves i where it was.

Fail(st, from) == [st EXCEPT !.ok = FALSE, !.i = from.i]
Skip(st, n)    == [st EXCEPT !.ok = TRUE, !.i = @ + n]
Peek(st)       == IF st.i <= Len(s) THEN s[st.i] ELSE "end"

Lit(st, c) == IF Peek(st) = c THEN Skip(st, 1) ELSE Fail(st, st)

Eol(st) == LET cr == Lit(st, CR) IN
           IF cr.ok /\ Peek(cr) = LF THEN Skip(cr, 1) ELSE Fail(st, st)

RECURSIVE CharsFrom(_)
CharsFrom(i) == IF i > Len(s) \/ s[i] = CR THEN <<>> ELSE <<s[i]>> \o CharsFrom(i + 1)

TextRule(st) == LET r == CharsFrom(st.i) IN
                IF r = <<>> THEN Fail(st, st) ELSE Skip(st, Len(r))

WithText(st) == LET t == TextRule(st) IN
                IF t.ok THEN [t EXCEPT !.text = CharsFrom(st.i)] ELSE t

Optional(st, after) == IF after.ok THEN after ELSE [after EXCEPT !.ok = TRUE, !.i = st.i]

CodeRule(st) ==
  LET c     == Peek(st)
      coded == [Skip(st, 1) EXCEPT !.rc = c]
      after == CASE c = "CONNECT"    -> Optional(coded, WithText(coded))
                 [] c \in ErrorCodes -> WithText(coded)
                 [] OTHER            -> coded
  IN  CASE c \notin Codes -> Fail(st, st)
        [] after.ok       -> after
        [] OTHER          -> Fail(after, st)

FinalRule(st) ==
  LET eol  == Eol(st)
      code == CodeRule(eol)
      last == Eol(code)
  IN  CASE ~eol.ok  -> Fail(st, st)
        [] ~code.ok -> Fail(code, st)
        [] ~last.ok -> Fail(last, st)
        [] OTHER    -> last

LineRule(st) ==
  LET run  == TextRule(st)
      said == [run EXCEPT !.body = Append(@, CharsFrom(st.i))]
      eol  == Eol(said)
  IN  CASE ~run.ok -> Fail(st, st)
        [] ~eol.ok -> Fail(eol, st)
        [] OTHER   -> eol

RECURSIVE Lines(_)
Lines(st) == LET l == LineRule(st) IN IF l.ok THEN Lines(l) ELSE [l EXCEPT !.ok = TRUE]

LinesRule(st) ==
  LET eol  == Eol(st)
      line == LineRule(eol)
      rest == Lines(line)
  IN  CASE ~eol.ok  -> Fail(st, st)
        [] ~line.ok -> Fail(line, st)
        [] OTHER    -> Optional(rest, FinalRule(rest))

PromptRule(st) ==
  LET eol == Eol(st)
      lit == Lit(eol, PROMPT)
  IN  CASE ~eol.ok -> Fail(st, st)
        [] ~lit.ok -> Fail(lit, st)
        [] OTHER   -> [lit EXCEPT !.body = Append(@, <<PROMPT>>)]

Reference ==
  LET start == [i |-> 1, ok |-> TRUE, rc |-> None, text |-> <<>>, body |-> <<>>]
      first == FinalRule(start)
      lines == LinesRule(first)
  IN  CASE first.ok -> first
        [] lines.ok -> lines
        [] OTHER    -> PromptRule(lines)

-----------------------------------------------------------------------------
\* The closed-form parser of AtGrammar does what the grammar of parser.cpp,
\* walked rule by rule, does: same verdict, same end, same result code, text
\* and body, on inputs that match, that do not, and that match in part.
AgreesWithGrammar ==
  LET r == Reference IN
  /\ r.ok = Matched(s)
  /\ r.ok => r.i = MatchLen(s) + 1
  /\ Parse(s) = [rc |-> r.rc, text |-> r.text, body |-> r.body]
=============================================================================
