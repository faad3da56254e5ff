------------------------------- MODULE Exchange -------------------------------
(***************************************************************************)
(* What execute() and the handlers behind it promise of a serial line on   *)
(* which one side speaks at a time: a command is written when nothing is   *)
(* on its way, the modem answers it, and its answer is read before the     *)
(* program goes on.  The program may also listen without having asked.     *)
(***************************************************************************)

VARIABLE exchange    \* "none", "free", "asked" or "answered"

Init == exchange = "none"

Begins  == exchange = "none" /\ exchange' = "free"
Asks    == exchange = "free" /\ exchange' = "asked"
Listens == exchange = "free" /\ exchange' = "answered"
Answers == exchange = "asked" /\ exchange' = "answered"
GoesOn  == exchange = "answered" /\ exchange' = "free"
Ends    == exchange # "none" /\ exchange' = "none"

Next == Begins \/ Asks \/ Listens \/ Answers \/ GoesOn \/ Ends

Spec == Init /\ [][Next]_exchange
=============================================================================
