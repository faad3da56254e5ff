-------------------------------- MODULE Query --------------------------------
(***************************************************************************)
(* The subcommands that ask the modem one question: at_ok and ati write a  *)
(* command and read one message (app/src/do_at_ok.cpp, do_ati.cpp: the     *)
(* steps of execute, with a response object of their own), at+cops does so *)
(* with asynchronous calls, whose errors are only logged                   *)
(* (app/src/do_at_cops.cpp).  main picks one of them.                      *)
(***************************************************************************)
EXTENDS Session

QueryOpened == Opens(subcommand)

AtOk ==
  \/ ExecuteWrites("at_ok", make_at)
  \/ ExecuteEnds("at_ok")

Ati ==
  \/ ExecuteWrites("ati", make_ati)
  \/ ExecuteEnds("ati")

\* async_write and write_handler, which starts to read.
CopsWritten ==
  /\ step = "at+cops"
  /\ op = Idle
  /\ Write(ToString(make_at_cops_read))
  /\ SearchOn(Fresh)
  /\ UNCHANGED <<step, msg, status>>

\* read_handler leaves the buffer to async_read.
CopsRead ==
  /\ step = "at+cops"
  /\ op.st = "matched"
  /\ Shows
  /\ sb' = Consume(Commit(sb, op.rb), op.rb)
  /\ Exit(0)
  /\ UNCHANGED device

CopsFails ==
  /\ step = "at+cops"
  /\ op.st \in {"idle", "waiting"}
  /\ Exit(0)
  /\ UNCHANGED <<device, sb, msg>>

QueryActs == QueryOpened \/ AtOk \/ Ati \/ CopsWritten \/ CopsRead

QueryFails == OpenFails \/ (\E at \in {"at_ok", "ati"} : ExecuteFails(at)) \/ CopsFails
=============================================================================
