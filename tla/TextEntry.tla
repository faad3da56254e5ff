------------------------------ MODULE TextEntry ------------------------------
(***************************************************************************)
(* What sending an SMS promises the modem (app/src/do_send_sms.cpp): a     *)
(* text is only given to a modem that has asked for one, and once for each *)
(* time it has asked, over all the programs that use it one after another. *)
(***************************************************************************)

VARIABLE entry    \* "closed", "open" when a text is asked for, or "given"

Init == entry = "closed"

Prompts == entry = "closed" /\ entry' = "open"
Gives   == entry = "open" /\ entry' = "given"
Takes   == entry = "given" /\ entry' = "closed"

Next == Prompts \/ Gives \/ Takes

Spec == Init /\ [][Next]_entry
=============================================================================
