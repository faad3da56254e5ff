------------------------------- MODULE Session -------------------------------
(***************************************************************************)
(* What the subcommands of the program share: a serial device, one         *)
(* response object for the whole run, and execute(), which writes a        *)
(* command and reads one message into a buffer of its own                  *)
(* (app/src/execute.hpp).  Asynchronous reads use the buffer of the        *)
(* subcommand; sb is whichever buffer is in use.                           *)
(*                                                                         *)
(* A subcommand is a module that extends this one: it is made of these     *)
(* actions, applied to the steps of its function, and of the completion    *)
(* handlers it defines.  Program puts the subcommands together.            *)
(***************************************************************************)
EXTENDS ReadOps, Modem, Integers

ASSUME SessionAssumption == Zero = NUL

VARIABLES
  subcommand,   \* what main was asked for
  step,         \* where the subcommand is
  sb,           \* the buffer in use
  op,           \* the read in progress
  msg,          \* the response object
  status        \* the exit status, Running before

Running == 1

device  == <<line, wire, modem, urcs>>
program == <<step, sb, op, msg, status>>

\* A program that was just started.
Started ==
  /\ step = "open"
  /\ sb = Fresh
  /\ op = Idle
  /\ msg = NoMessage
  /\ status = Running

\* It is started again; the device and the modem are left as they are.
StartsOver ==
  /\ step' = "open"
  /\ sb' = Fresh
  /\ op' = Idle
  /\ msg' = NoMessage
  /\ status' = Running
  /\ UNCHANGED device

-----------------------------------------------------------------------------
\* Writing and reading.

Write(bytes) == wire' = Append(wire, bytes) /\ UNCHANGED <<line, modem, urcs>>

SearchOn(b) ==
  \E s \in {Data(b)} : \E found \in {Search(b, s)} : sb' = found.sb /\ op' = found.op

\* The device hands over n bytes to the read that waits.
Arrive(n) ==
  /\ op.st = "waiting"
  /\ n \in 1 .. Least(op.n, Len(line))
  /\ line' = SubSeq(line, n + 1, Len(line))
  /\ \E b \in {Commit(Fill(sb, op.at, SubSeq(line, 1, n)), n)} : SearchOn(b)
  /\ UNCHANGED <<wire, modem, urcs, step, msg, status>>

Exit(code) == step' = "exit" /\ status' = code /\ op' = Idle

\* sp.open and setup_serial_port, whose errors are only logged.  Nothing flushes
\* the line: what is left of an earlier use may be on it, or be gone with that.
Opens(next) ==
  /\ step = "open"
  /\ step' = next
  /\ line' \in {line, <<>>}
  /\ UNCHANGED <<wire, modem, urcs, sb, op, msg, status>>

OpenFails ==
  /\ step = "open"
  /\ Exit(-1)
  /\ UNCHANGED <<device, sb, msg>>

\* populate_response_from_buffer, after rb bytes were committed once more.
Shows == \E s \in {Data(Commit(sb, op.rb))} : msg' = Populate(msg, s)

-----------------------------------------------------------------------------
\* execute(device, sp, request, response) at the step called at.

ExecuteWrites(at, request) ==
  /\ step = at
  /\ op = Idle
  /\ Write(ToString(request))
  /\ SearchOn(Fresh)
  /\ UNCHANGED <<step, msg, status>>

\* Mutated form: the answer is not waited for.
ExecuteReturnsEarly(at, next) ==
  /\ step = at
  /\ op.st # "idle"
  /\ Shows
  /\ sb' = Fresh
  /\ op' = Idle
  /\ step' = next
  /\ UNCHANGED <<device, status>>

\* The message is parsed and shown; the buffer is destroyed with all that was
\* read behind the message, and the result code is not looked at.
ExecuteReturns(at, next) ==
  /\ step = at
  /\ op.st = "matched"
  /\ Shows
  /\ sb' = Fresh
  /\ op' = Idle
  /\ step' = next
  /\ UNCHANGED <<device, status>>

\* A write or a read fails: the subcommand returns -1 at once.
ExecuteFails(at) ==
  /\ step = at
  /\ op.st \in {"idle", "waiting"}
  /\ Exit(-1)
  /\ UNCHANGED <<device, sb, msg>>

\* The same when it is the last step of the subcommand.
ExecuteEnds(at) ==
  /\ step = at
  /\ op.st = "matched"
  /\ Shows
  /\ sb' = Fresh
  /\ Exit(0)
  /\ UNCHANGED device

-----------------------------------------------------------------------------
\* async_read(sp, buf, response, handler) and its completion at the step at.

\* The buffer after the handler has consumed rb.
Handled == Consume(Commit(sb, op.rb), op.rb)

\* A handler that does not read on: the buffer is consumed once more.
ReadEnds(at) ==
  /\ step = at
  /\ op.st = "matched"
  /\ Shows
  /\ sb' = Consume(Handled, op.rb)

\* A handler that calls async_read again, before the last consume.
ReadsAgain(at) ==
  /\ step = at
  /\ op.st = "matched"
  /\ Shows
  /\ \E b \in {Handled} : \E s \in {Data(b)} : \E found \in {Search(b, s)} :
       sb' = Consume(found.sb, op.rb) /\ op' = found.op

\* response.body.front().rfind(t) == 0: the first line ever stored.
FrontIs(m, t) ==
  /\ m.body # <<>>
  /\ m.body[1] # <<>>
  /\ m.body[1][1] = t
  /\ \A i \in 2 .. Len(m.body[1]) : m.body[1][i] # t

ModemActs ==
  /\ \/ ModemAccepts
     \/ ModemRefuses
     \/ ModemNotifies
  /\ UNCHANGED program

-----------------------------------------------------------------------------
\* Every variable of a session has its type.
SessionTypeOK ==
  /\ line \in Seq(Char)
  /\ sb \in Buffers(Char)
  /\ op \in [st : {"idle", "waiting", "matched"}, rb : Nat, at : Nat, n : Nat]
  /\ msg \in Response
  /\ status \in {Running, 0, -1}
=============================================================================
