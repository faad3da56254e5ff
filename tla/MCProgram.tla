------------------------------ MODULE MCProgram ------------------------------
(***************************************************************************)
(* Small instances of Program: a number, a text, and the unsolicited       *)
(* messages the grammar tells apart, a line and a result code.             *)
(***************************************************************************)
EXTENDS Program

mc_Da   == <<"da">>
mc_Text == <<"hello">>
mc_Urcs == {Line(<<"u">>), Said("RING")}
mc_Line == {Line(<<"u">>)}
mc_Ring == {Said("RING")}
mc_All  == {"at_ok", "ati", "at+cops", "send-sms", "rcv-sms", "make-call", "rcv-call"}
mc_Again == {"send-sms", "rcv-sms", "make-call"}
=============================================================================
