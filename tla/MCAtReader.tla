------------------------------ MODULE MCAtReader ------------------------------
(***************************************************************************)
(* Small instances of AtReader: messages of every shape the grammar knows. *)
(***************************************************************************)
EXTENDS AtReader

Ok        == CRLF \o <<"OK">> \o CRLF
CmeError  == CRLF \o <<"+CME ERROR: ", "t">> \o CRLF
LineOk    == CRLF \o <<"t">> \o CRLF \o Ok
Urc       == CRLF \o <<"u">> \o CRLF
UrcLines  == CRLF \o <<"u">> \o CRLF \o <<"t">> \o CRLF
Ring      == CRLF \o <<"RING">> \o CRLF
LongConnect == CRLF \o <<"CONNECT", "t", "u", "t", "u", "t", "u">> \o CRLF
Prompt    == CRLF \o <<PROMPT>>
Echo      == <<"t", CR>>

mc_AllShapes  == {Ok, CmeError, LineOk, UrcLines}
mc_Alike      == {Ok, CmeError, Ring, Urc}

\* The messages of the stream run are of the kind the theorems about it ask for.
ASSUME UndividedAssumption == \A m \in mc_Alike : Undivided(m)

mc_Lengths    == {Ok, CmeError, LongConnect}
mc_Noisy      == {Ok, LineOk, Prompt, Echo}

\* execute over any line, a handler that reads on over one that hands over
\* whole messages, and do_at_cops.
Execute(whole) == [async |-> FALSE, newBuffer |-> TRUE, consumes |-> FALSE, readsOn |-> {},
                   whole |-> whole, fails |-> FALSE]
Handler(whole) == [async |-> TRUE, newBuffer |-> FALSE, consumes |-> TRUE, readsOn |-> {TRUE},
                   whole |-> whole, fails |-> FALSE]
Cops           == [async |-> TRUE, newBuffer |-> TRUE, consumes |-> FALSE, readsOn |-> {FALSE},
                   whole |-> FALSE, fails |-> FALSE]

mc_Stream == {Execute(FALSE), Handler(TRUE)}
mc_Split  == {Execute(FALSE)}
mc_Reused == {Handler(TRUE)}
mc_Steady == {Execute(FALSE), [Execute(FALSE) EXCEPT !.newBuffer = FALSE], Cops,
              [Handler(FALSE) EXCEPT !.readsOn = BOOLEAN]}
mc_All    == mc_Steady \cup {[u EXCEPT !.fails = TRUE] : u \in mc_Steady}
=============================================================================
