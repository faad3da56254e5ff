---------------------------- MODULE MessageStream ----------------------------
(***************************************************************************)
(* What a reader of modem messages promises: the messages are shown to the *)
(* client one by one, in the order they were sent, each once.  Being shown *)
(* a message means that its result code is reported, that its text and its *)
(* lines come after those the response object held before, and that lines  *)
(* may follow which are nobody's (read.hpp promises no more).              *)
(***************************************************************************)
EXTENDS Naturals, Sequences

CONSTANTS Messages,     \* what may be sent
          Meaning,      \* its code, text and lines, as a function
          NewResponse,  \* each message is shown in a response of its own
          Blank         \* a response that holds nothing

VARIABLES outbox, inbox

vars == <<outbox, inbox>>

StartsWith(t, s) == Len(s) <= Len(t) /\ SubSeq(t, 1, Len(s)) = s

Previous == IF NewResponse \/ inbox = <<>> THEN Blank ELSE inbox[Len(inbox)]

Shows(m, r) ==
  /\ r.rc = Meaning[m].rc
  /\ r.text = Previous.text \o Meaning[m].text
  /\ StartsWith(r.body, Previous.body \o Meaning[m].body)

Init == outbox = <<>> /\ inbox = <<>>

Send(m) == outbox' = Append(outbox, m) /\ UNCHANGED inbox

\* The lines that may follow are not bounded, so the new entry of inbox is
\* constrained and not enumerated.
Show ==
  /\ outbox # <<>>
  /\ outbox' = Tail(outbox)
  /\ Len(inbox') = Len(inbox) + 1
  /\ StartsWith(inbox', inbox)
  /\ Shows(Head(outbox), inbox'[Len(inbox) + 1])

Next ==
  \/ \E m \in Messages : Send(m)
  \/ Show

Spec == Init /\ [][Next]_vars
=============================================================================
