------------------------------- MODULE AtReader -------------------------------
(***************************************************************************)
(* The message reader (lib/include/read.hpp) between a modem and its       *)
(* client: read, async_read and the code they add around asio's            *)
(* read_until, which searches the buffer with match_condition, reads some  *)
(* bytes from the serial line when there is no response yet, and reports   *)
(* the length rb of the response.                                          *)
(*                                                                         *)
(* The code under app/src uses the reader in several ways, and a behaviour *)
(* is one of them:                                                         *)
(*   execute()              sync,  new buffer, reused response             *)
(*   do_at_ok, do_ati       sync,  new buffer, new response                *)
(*   do_at_cops             async, handler leaves the buffer alone         *)
(*   sms and call handlers  async, handler consumes rb bytes and reads on  *)
(***************************************************************************)
EXTENDS ReadOps

CONSTANTS
  Messages,         \* the messages the modem may send
  MaxSent,          \* bound: how many it sends
  Uses,             \* the ways the reader may be used, see Ways
  NewResponse,      \* each read gets a response object of its own
  Lockstep          \* the modem sends once its last message was reported

Ways == [async     : BOOLEAN,         \* async_read, or the blocking read
         newBuffer : BOOLEAN,         \* each read gets a buffer of its own
         consumes  : BOOLEAN,         \* the client's handler calls buffer.consume(rb) itself
         readsOn   : SUBSET BOOLEAN,  \* the handler calls async_read again: {TRUE}, {FALSE} or both
         whole     : BOOLEAN,         \* a read of the line returns all there is to return
         fails     : BOOLEAN]         \* a read of the line may fail

ASSUME ReaderAssumption ==
  /\ Zero = NUL
  /\ Messages \subseteq Seq(Char)
  /\ MaxSent \in Nat
  /\ Uses \subseteq Ways
  /\ {NewResponse, Lockstep} \subseteq BOOLEAN

VARIABLES
  use,    \* how the reader is used
  line,   \* bytes on their way from the modem, and in the tty
  sb,     \* the streambuf
  op,     \* the read in progress
  msg,    \* the response object
  sent,   \* history: the messages the modem has sent
  got     \* history: what the client was shown, one entry per completed read

vars == <<use, line, sb, op, msg, sent, got>>

SearchOn(b) ==
  \E s \in {Data(b)} : \E found \in {Search(b, s)} : sb' = found.sb /\ op' = found.op

-----------------------------------------------------------------------------
\* Intermediate buffers are bound with \E b \in {...}, which makes TLC compute
\* them once.

ModemSends(m) ==
  /\ Len(sent) < MaxSent
  /\ Lockstep => Len(got) = Len(sent) /\ op.st = "waiting"
  /\ line' = line \o m
  /\ sent' = Append(sent, m)
  /\ UNCHANGED <<use, sb, op, msg, got>>

\* The client calls read or async_read.
StartRead ==
  /\ op.st = "idle"
  /\ SearchOn(IF use.newBuffer THEN Fresh ELSE sb)
  /\ msg' = IF NewResponse THEN NoMessage ELSE msg
  /\ UNCHANGED <<use, line, sent, got>>

\* Mutated form: what was asked for is committed, not what was read.
ArriveAll(n) ==
  /\ op.st = "waiting"
  /\ n \in 1 .. Least(op.n, Len(line))
  /\ use.whole => n = Least(op.n, Len(line))
  /\ \E b \in {Commit(Fill(sb, op.at, SubSeq(line, 1, n)), op.n)} : SearchOn(b)
  /\ line' = SubSeq(line, n + 1, Len(line))
  /\ UNCHANGED <<use, msg, sent, got>>

\* The device hands over n bytes; read_until commits them and searches again.
Arrive(n) ==
  /\ op.st = "waiting"
  /\ n \in 1 .. Least(op.n, Len(line))
  /\ use.whole => n = Least(op.n, Len(line))
  /\ \E b \in {Commit(Fill(sb, op.at, SubSeq(line, 1, n)), n)} : SearchOn(b)
  /\ line' = SubSeq(line, n + 1, Len(line))
  /\ UNCHANGED <<use, msg, sent, got>>

\* The device reports an error: read_until returns 0 and nothing is parsed.
ReadFails ==
  /\ use.fails
  /\ op.st = "waiting"
  /\ op' = Idle
  /\ UNCHANGED <<use, line, sb, msg, sent, got>>

\* read(): commit the rb bytes once more, parse, consume them.
ReadReturns ==
  /\ ~use.async
  /\ op.st = "matched"
  /\ \E b \in {Commit(sb, op.rb)} : \E s \in {Data(b)} :
       /\ msg' = Populate(msg, s)
       /\ sb'  = Consume(b, op.rb)
  /\ op' = Idle
  /\ got' = Append(got, msg')
  /\ UNCHANGED <<use, line, sent>>

\* Mutated form: the handler reads on before it consumes.
HandlerReadsFirst(more) ==
  /\ use.async
  /\ op.st = "matched"
  /\ more \in use.readsOn
  /\ \E b \in {Commit(sb, op.rb)} : \E s \in {Data(b)} :
     \E found \in {IF more THEN Search(b, s) ELSE [sb |-> b, op |-> Idle]} :
       /\ msg' = Populate(msg, s)
       /\ op'  = found.op
       /\ sb'  = Consume(Consume(found.sb, op.rb), op.rb)
  /\ got' = Append(got, msg')
  /\ UNCHANGED <<use, line, sent>>

\* Mutated form: async_read leaves the buffer to the handler.
HandlerConsumesAlone(more) ==
  /\ use.async
  /\ op.st = "matched"
  /\ more \in use.readsOn
  /\ \E b \in {Commit(sb, op.rb)} : \E s \in {Data(b)} :
     \E seen \in {IF use.consumes THEN Consume(b, op.rb) ELSE b} : \E rest \in {Data(seen)} :
     \E found \in {IF more THEN Search(seen, rest) ELSE [sb |-> seen, op |-> Idle]} :
       /\ msg' = Populate(msg, s)
       /\ op'  = found.op
       /\ sb'  = found.sb
  /\ got' = Append(got, msg')
  /\ UNCHANGED <<use, line, sent>>

\* The completion handler of async_read: commit, parse, the client's handler,
\* consume.  The handler may call async_read again (more), which searches the
\* buffer before the last consume has run.
HandlerRuns(more) ==
  /\ use.async
  /\ op.st = "matched"
  /\ more \in use.readsOn
  /\ \E b \in {Commit(sb, op.rb)} : \E s \in {Data(b)} :
     \E seen \in {IF use.consumes THEN Consume(b, op.rb) ELSE b} : \E rest \in {Data(seen)} :
     \E found \in {IF more THEN Search(seen, rest) ELSE [sb |-> seen, op |-> Idle]} :
       /\ msg' = Populate(msg, s)
       /\ op'  = found.op
       /\ sb'  = Consume(found.sb, op.rb)
  /\ got' = Append(got, msg')
  /\ UNCHANGED <<use, line, sent>>

-----------------------------------------------------------------------------
Init ==
  /\ use \in Uses
  /\ line = <<>>
  /\ sb = Fresh
  /\ op = Idle
  /\ msg = NoMessage
  /\ sent = <<>>
  /\ got = <<>>

Next ==
  \/ \E m \in Messages : ModemSends(m)
  \/ StartRead
  \/ \E n \in 1 .. Len(line) : Arrive(n)
  \/ ReadFails
  \/ ReadReturns
  \/ \E more \in BOOLEAN : HandlerRuns(more)

Spec == Init /\ [][Next]_vars

\* The modem may fall silent and the line may stay up; the kernel hands over
\* bytes it has, and the client runs.
FairSpec ==
  /\ Spec
  /\ WF_vars(StartRead)
  /\ WF_vars(\E n \in 1 .. Len(line) : Arrive(n))
  /\ WF_vars(ReadReturns)
  /\ WF_vars(HandlerRuns(TRUE))

-----------------------------------------------------------------------------
\* Every variable has its type.  For the buffer this includes that the get
\* area stays inside the storage, whatever is committed and consumed.
TypeOK ==
  /\ use \in Uses
  /\ line \in Seq(Char)
  /\ sb \in Buffers(Char)
  /\ op \in [st : {"idle", "waiting", "matched"}, rb : Nat, at : Nat, n : Nat]
  /\ msg \in Response
  /\ sent \in Seq(Messages)
  /\ got \in Seq(Response)

\* While a read waits, the storage the device was told to write to
\* (prepare, inside read_until) is the put area of the buffer: what the
\* handler and async_read do to the buffer after they started the read moves
\* neither the write position nor the storage.
InFlight ==
  op.st = "waiting" => op.at = sb.p /\ op.n \in Window .. Room(sb)

\* The response a read reports is in the buffer, at its front, when the
\* completion handler asks populate_response_from_buffer for it.
MatchIsInBuffer ==
  op.st = "matched" => Matched(Data(sb)) /\ MatchLen(Data(sb)) = op.rb

\* As long as a read waits, bytes pass from the line to the buffer and none
\* is lost, repeated or reordered, however the line splits them.
NothingLostWhileReading ==
  [][op.st = "waiting" /\ op'.st # "idle" =>
       Data(sb') \o line' = Data(sb) \o line \o SubSeq(line', Len(line) + 1, Len(line'))]_vars

\* Bytes that do not start with a line terminator (an echoed command, the rest
\* of a response that was cut) keep every response behind them from being
\* seen: the search starts at the front of the buffer each time, and only an
\* error ends such a read.
OutOfStep == op.st = "waiting" /\ Size(sb) >= 2 /\ ~EolAt(Data(sb), 1)

NeverResynchronises == [][OutOfStep => OutOfStep' \/ op'.st = "idle"]_vars

\* The response object shown has the message m in front: a bare result code is
\* shown with its text and nothing else; of lines, the first is that of the
\* message, which is where the handlers look for their answer (body.front());
\* a prompt, which no terminator ends, may have other bytes behind it.
InFront(shown, m) ==
  LET first == Parse(m) IN
  /\ first.body = <<>> => shown = first
  /\ first.body # <<>> =>
       /\ shown.body # <<>>
       /\ IF HasPrompt(m) THEN shown.body[1][1] = PROMPT ELSE shown.body[1] = first.body[1]

\* What the first read shows has the message that came first in front, wherever
\* the line splits it, whatever the modem has already sent behind it, and
\* whatever bytes the second commit of the reader adds to the data.  (What a
\* read that fails has taken is lost to the next one.)
FirstIsShown == ~use.fails /\ got # <<>> /\ Matched(sent[1]) => InFront(got[1], sent[1])

\* When a read waits and the modem has nothing more to say, the buffer is
\* empty: what was committed twice was also consumed twice.
BufferDrained == op.st = "waiting" /\ Len(got) = Len(sent) => Data(sb) = <<>>

\* Every message the modem sends is reported in the end.
AllReported == \A k \in 1 .. MaxSent : Len(sent) >= k ~> Len(got) >= k

\* The reader implements the message stream.
Stream == INSTANCE MessageStream WITH
  Meaning   <- [m \in Messages |-> Parse(m)],
  Blank     <- NoMessage,
  outbox    <- SubSeq(sent, Len(got) + 1, Len(sent)),
  inbox     <- got

StreamSpec == Stream!Spec

-----------------------------------------------------------------------------
\* A message that no split can shorten: the reader sees it when it has all of
\* it, and not before.
Undivided(m) ==
  /\ Matched(m) /\ ~HasPrompt(m)
  /\ MatchLen(m) = Len(m)
  /\ \A k \in 1 .. Len(m) - 1 : ~Matched(SubSeq(m, 1, k))

\* "The entire message is read" (read.hpp:74): what a read reports is all of
\* the message it is reporting.
EntireMessage ==
  \A k \in DOMAIN got \cap DOMAIN sent :
    LET m == Parse(sent[k]) IN got[k].rc = m.rc /\ Len(got[k].body) >= Len(m.body)

\* "Waiting for another unsolicited message" (do_receive_sms.cpp:111): the
\* next message that is reported is one the modem has sent since.
AnotherMessage == Len(got) <= Len(sent)
=============================================================================
