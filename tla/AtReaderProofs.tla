---------------------------- MODULE AtReaderProofs ----------------------------
(***************************************************************************)
(* Theorems about the message reader, for every set of messages, every     *)
(* window and every kind of client: TypeOK and InFlight are invariants     *)
(* (their conjunction is inductive), nothing is lost while a read waits,   *)
(* a read that is out of step with the modem stays so, and the first read  *)
(* begins with the first message.  With a buffer for each read the reader  *)
(* implements the message stream.                                          *)
(***************************************************************************)
EXTENDS AtReader, ReadOpsProofs

Inv == TypeOK /\ InFlight

\* The bytes a buffer can hold: those of the line and those of new storage.
LEMMA Bytes ==
  NUL \in Char /\ PROMPT \in Char /\ Zero \in Char /\ Window \in Nat \ {0}
BY WindowAssumption, ReaderAssumption DEF Char

\* The device's bytes reach the end of the input sequence.
LEMMA ArriveProperties ==
  ASSUME TypeOK, InFlight, op.st = "waiting", NEW n \in 1 .. Least(op.n, Len(line))
  PROVE  LET b == Commit(Fill(sb, op.at, SubSeq(line, 1, n)), n) IN
         /\ b \in Buffers(Char)
         /\ Data(b) = Data(sb) \o SubSeq(line, 1, n)
         /\ Size(b) = Size(sb) + n
         /\ SubSeq(line, n + 1, Len(line)) \in Seq(Char)
         /\ SubSeq(line, 1, n) \in Seq(Char)
         /\ SubSeq(line, 1, n) \o SubSeq(line, n + 1, Len(line)) = line
<1>1. /\ line \in Seq(Char) /\ Len(line) \in Nat /\ sb \in Buffers(Char)
      /\ op.at = sb.p /\ op.n \in Nat /\ op.n <= Room(sb)
  BY Bytes DEF TypeOK, InFlight
<1>2. n \in 1 .. Len(line) /\ n <= Room(sb) /\ n \in Nat
  <2>1. n <= op.n /\ n <= Len(line)
    BY <1>1 DEF Least
  <2>2. Room(sb) \in Nat
    BY <1>1 DEF Room, Buffers
  <2>. QED BY <1>1, <2>1, <2>2
<1>3. SubSeq(line, 1, n) \in Seq(Char) /\ Len(SubSeq(line, 1, n)) = n
  <2>1. \A i \in 1 .. n : line[i] \in Char
    BY <1>1, <1>2, ElementOfSeq
  <2>. QED BY <1>2, <2>1, SubSeqProperties
<1>4. SubSeq(line, n + 1, Len(line)) \in Seq(Char)
  <2>1. \A i \in n + 1 .. Len(line) : line[i] \in Char
    BY <1>1, <1>2, ElementOfSeq
  <2>. QED BY <1>1, <1>2, <2>1, SubSeqProperties
<1>5. SubSeq(line, 1, n) \o SubSeq(line, n + 1, Len(line)) = line
  <2>1. 1 \in 1 .. Len(line) + 1 /\ n \in 0 .. Len(line) /\ Len(line) \in n .. Len(line)
    BY <1>1, <1>2
  <2>2. SubSeq(line, 1, n) \o SubSeq(line, n + 1, Len(line)) = SubSeq(line, 1, Len(line))
    BY <1>1, <2>1, ConcatAdjacentSubSeq
  <2>. QED BY <1>1, <2>2, SubSeqFull
<1>. DEFINE cs == SubSeq(line, 1, n)
<1>6. /\ Commit(Fill(sb, sb.p, cs), Len(cs)) \in Buffers(Char)
      /\ Data(Commit(Fill(sb, sb.p, cs), Len(cs))) = Data(sb) \o cs
      /\ Size(Commit(Fill(sb, sb.p, cs), Len(cs))) = Size(sb) + Len(cs)
  <2>1. cs \in Seq(Char) /\ Len(cs) <= Room(sb)
    BY <1>2, <1>3
  <2>. HIDE DEF cs
  <2>. QED BY <1>1, <2>1, FillCommitProperties
<1>. QED BY <1>1, <1>3, <1>4, <1>5, <1>6

-----------------------------------------------------------------------------
\* No read has started: the buffer has no storage yet.
LEMMA InitInv == Init => Inv
<1>1. SUFFICES ASSUME Init PROVE Inv
  OBVIOUS
<1>2. Fresh \in Buffers(Char)
  BY FreshProperties
<1>3. NoMessage \in Response /\ Idle \in OpType
  BY DEF NoMessage, Response, Idle, OpType
<1>4. TypeOK
  BY <1>1, <1>2, <1>3 DEF Init, TypeOK, OpType
<1>. QED BY <1>1, <1>4 DEF Inv, InFlight, Init, Idle

\* One step per action.  InFlight can only be disturbed by an action that
\* changes the buffer while a read waits, or that makes one wait.
LEMMA NextInv == Inv /\ [Next]_vars => Inv'
<1>1. SUFFICES ASSUME Inv, [Next]_vars PROVE Inv'
  OBVIOUS
<1>. USE <1>1 DEF Inv
<1>2. /\ line \in Seq(Char) /\ sb \in Buffers(Char) /\ op \in OpType
      /\ msg \in Response /\ sent \in Seq(Messages) /\ got \in Seq(Response)
  BY DEF TypeOK, OpType
<1>3. ASSUME NEW m \in Messages, ModemSends(m) PROVE Inv'
  <2>1. m \in Seq(Char)
    BY ReaderAssumption
  <2>2. line' \in Seq(Char) /\ sent' \in Seq(Messages)
    BY <1>2, <1>3, <2>1, ConcatProperties, AppendProperties DEF ModemSends
  <2>. QED BY <1>2, <1>3, <2>2 DEF ModemSends, TypeOK, InFlight, OpType
<1>4. CASE StartRead
  <2>. DEFINE b == IF use.newBuffer THEN Fresh ELSE sb
  <2>1. b \in Buffers(Char)
    BY <1>2, FreshProperties
  <2>2. sb' = Search(b, Data(b)).sb /\ op' = Search(b, Data(b)).op
    BY <1>4 DEF StartRead, SearchOn
  <2>3. msg' \in Response
    BY <1>2, <1>4 DEF StartRead, NoMessage, Response
  <2>. HIDE DEF b
  <2>4. TypeOK'
    BY <1>2, <1>4, <2>1, <2>2, <2>3, SearchProperties, Bytes DEF StartRead, TypeOK, OpType
  <2>5. InFlight'
    BY <2>1, <2>2, SearchProperties, Bytes DEF InFlight
  <2>. QED BY <2>4, <2>5
<1>5. ASSUME NEW n \in 1 .. Len(line), Arrive(n) PROVE Inv'
  <2>. DEFINE b == Commit(Fill(sb, op.at, SubSeq(line, 1, n)), n)
  <2>1. op.st = "waiting" /\ n \in 1 .. Least(op.n, Len(line))
    BY <1>5 DEF Arrive
  <2>2. b \in Buffers(Char) /\ SubSeq(line, n + 1, Len(line)) \in Seq(Char)
    BY <2>1, ArriveProperties
  <2>3. sb' = Search(b, Data(b)).sb /\ op' = Search(b, Data(b)).op
    BY <1>5 DEF Arrive, SearchOn
  <2>. HIDE DEF b
  <2>4. TypeOK'
    BY <1>2, <1>5, <2>2, <2>3, SearchProperties, Bytes DEF Arrive, TypeOK, OpType
  <2>5. InFlight'
    BY <2>2, <2>3, SearchProperties, Bytes DEF InFlight
  <2>. QED BY <2>4, <2>5
<1>6. CASE ReadFails
  <2>1. op' = Idle /\ Idle \in OpType
    BY <1>6 DEF ReadFails, Idle, OpType
  <2>. QED BY <1>2, <1>6, <2>1 DEF ReadFails, TypeOK, InFlight, Idle, OpType
<1>7. CASE ReadReturns
  <2>. DEFINE b == Commit(sb, op.rb)
  <2>1. op.rb \in Nat
    BY <1>2 DEF OpType
  <2>2. b \in Buffers(Char)
    BY <1>2, <2>1, CommitProperties
  <2>3. msg' = Populate(msg, Data(b)) /\ sb' = Consume(b, op.rb) /\ op' = Idle
    BY <1>7 DEF ReadReturns
  <2>. HIDE DEF b
  <2>4. msg' \in Response /\ sb' \in Buffers(Char) /\ op' \in OpType
    BY <1>2, <2>1, <2>2, <2>3, PopulateType, ConsumeProperties DEF Idle, OpType
  <2>5. got' \in Seq(Response)
    BY <1>2, <1>7, <2>4, AppendProperties DEF ReadReturns
  <2>. QED BY <1>2, <1>7, <2>3, <2>4, <2>5 DEF ReadReturns, TypeOK, InFlight, Idle, OpType
<1>8. ASSUME NEW more \in BOOLEAN, HandlerRuns(more) PROVE Inv'
  <2>. DEFINE b     == Commit(sb, op.rb)
              seen  == IF use.consumes THEN Consume(b, op.rb) ELSE b
              found == IF more THEN Search(seen, Data(seen)) ELSE [sb |-> seen, op |-> Idle]
  <2>1. op.rb \in Nat
    BY <1>2 DEF OpType
  <2>2. b \in Buffers(Char)
    BY <1>2, <2>1, CommitProperties
  <2>3. seen \in Buffers(Char)
    <3>. HIDE DEF b
    <3>. QED BY <2>1, <2>2, ConsumeProperties
  <2>4. msg' = Populate(msg, Data(b)) /\ op' = found.op /\ sb' = Consume(found.sb, op.rb)
    BY <1>8 DEF HandlerRuns
  <2>5. /\ found.sb \in Buffers(Char) /\ found.op \in OpType
        /\ found.op.st = "waiting" =>
             found.op.at = found.sb.p /\ found.op.n \in Window .. Room(found.sb)
    <3>. HIDE DEF seen
    <3>1. CASE more
      BY <2>3, <3>1, SearchProperties, Bytes
    <3>2. CASE ~more
      BY <2>3, <3>2 DEF Idle, OpType
    <3>. QED BY <3>1, <3>2
  <2>. HIDE DEF found, b
  <2>6. /\ sb' \in Buffers(Char) /\ sb'.mem = found.sb.mem /\ sb'.p = found.sb.p
    BY <2>1, <2>4, <2>5, ConsumeProperties
  <2>7. msg' \in Response
    BY <1>2, <2>2, <2>4, PopulateType
  <2>8. got' \in Seq(Response)
    BY <1>2, <1>8, <2>7, AppendProperties DEF HandlerRuns
  <2>9. TypeOK'
    BY <1>2, <1>8, <2>4, <2>5, <2>6, <2>7, <2>8 DEF HandlerRuns, TypeOK, OpType
  <2>10. InFlight'
    <3>1. Room(sb') = Room(found.sb)
      BY <2>6 DEF Room
    <3>. QED BY <2>4, <2>5, <2>6, <3>1 DEF InFlight
  <2>. QED BY <2>9, <2>10
<1>9. CASE UNCHANGED vars
  BY <1>2, <1>9 DEF vars, TypeOK, InFlight, OpType
<1>. QED BY <1>3, <1>4, <1>5, <1>6, <1>7, <1>8, <1>9 DEF Next

\* The reader's types hold, in particular the buffer's read and write
\* positions stay in its storage although read.hpp commits and consumes more
\* than it has.
THEOREM ReaderTypeOK == Spec => []TypeOK
<1>1. Inv => TypeOK
  BY DEF Inv
<1>. QED BY <1>1, InitInv, NextInv, PTL DEF Spec

\* While a read is in flight the storage handed to the device is the put area
\* of the buffer, also when the handler that started it and async_read go on
\* to consume from the buffer afterwards.
THEOREM ReaderInFlight == Spec => []InFlight
<1>1. Inv => InFlight
  BY DEF Inv
<1>. QED BY <1>1, InitInv, NextInv, PTL DEF Spec

-----------------------------------------------------------------------------
\* While a read waits only the modem, the device and an error can step.
LEMMA WaitingSteps ==
  ASSUME op.st = "waiting", Next
  PROVE  \/ \E m \in Messages : ModemSends(m)
         \/ \E n \in 1 .. Len(line) : Arrive(n)
         \/ ReadFails
BY DEF Next, StartRead, ReadReturns, HandlerRuns

\* What an arrival does, as far as the byte stream is concerned.
LEMMA ArriveKeepsBytes ==
  ASSUME Inv, op.st = "waiting", NEW n \in 1 .. Len(line), Arrive(n)
  PROVE  \E x \in Seq(Char) :
           /\ Data(sb') = Data(sb) \o x
           /\ line' \in Seq(Char) /\ x \o line' = line
           /\ Len(line') < Len(line)
           /\ op'.st = (IF Matched(Data(sb')) THEN "matched" ELSE "waiting")
           /\ sb' \in Buffers(Char)
<1>. DEFINE b == Commit(Fill(sb, op.at, SubSeq(line, 1, n)), n)
            x == SubSeq(line, 1, n)
<1>1. TypeOK /\ InFlight /\ n \in 1 .. Least(op.n, Len(line))
  BY DEF Inv, Arrive
<1>2. /\ b \in Buffers(Char) /\ Data(b) = Data(sb) \o x
      /\ x \in Seq(Char) /\ SubSeq(line, n + 1, Len(line)) \in Seq(Char)
      /\ x \o SubSeq(line, n + 1, Len(line)) = line
  BY <1>1, ArriveProperties
<1>3. sb' = Search(b, Data(b)).sb /\ op' = Search(b, Data(b)).op /\ line' = SubSeq(line, n + 1, Len(line))
  BY DEF Arrive, SearchOn
<1>4. Len(line') < Len(line)
  <2>1. line \in Seq(Char)
    BY <1>1 DEF TypeOK
  <2>2. \A i \in n + 1 .. Len(line) : line[i] \in Char
    BY <2>1, ElementOfSeq
  <2>. QED BY <1>3, <2>1, <2>2, SubSeqProperties
<1>. HIDE DEF b, x
<1>. QED BY <1>2, <1>3, <1>4, SearchProperties, Bytes

\* One step per action: NothingLostWhileReading, as a fact about one step.
LEMMA NextKeepsBytes ==
  Inv /\ [Next]_vars =>
    [op.st = "waiting" /\ op'.st # "idle" =>
       Data(sb') \o line' = Data(sb) \o line \o SubSeq(line', Len(line) + 1, Len(line'))]_vars
<1>1. SUFFICES ASSUME Inv, Next, op.st = "waiting", op'.st # "idle"
               PROVE  Data(sb') \o line' = (Data(sb) \o line) \o SubSeq(line', Len(line) + 1, Len(line'))
  OBVIOUS
<1>2. line \in Seq(Char) /\ sb \in Buffers(Char) /\ Data(sb) \in Seq(Char) /\ Len(line) \in Nat
  BY <1>1, DataProperties DEF Inv, TypeOK
<1>3. ASSUME NEW m \in Messages, ModemSends(m)
      PROVE  Data(sb') \o line' = (Data(sb) \o line) \o SubSeq(line', Len(line) + 1, Len(line'))
  <2>1. m \in Seq(Char) /\ Len(m) \in Nat
    BY ReaderAssumption
  <2>2. line' = line \o m /\ sb' = sb
    BY <1>3 DEF ModemSends
  <2>3. line' \in Seq(Char) /\ Len(line') = Len(line) + Len(m)
    BY <1>2, <2>1, <2>2, ConcatProperties
  <2>4. SubSeq(line', Len(line) + 1, Len(line')) = m
    <3>1. CASE Len(m) = 0
      <4>1. m = <<>>
        BY <2>1, <3>1, EmptySeq
      <4>2. SubSeq(line', Len(line) + 1, Len(line')) = <<>>
        BY <1>2, <2>3, <3>1, SubSeqEmpty
      <4>. QED BY <4>1, <4>2
    <3>2. CASE Len(m) # 0
      <4>1. /\ Len(line) + 1 \in Len(line) + 1 .. Len(line) + Len(m)
            /\ Len(line') \in Len(line) + 1 .. Len(line) + Len(m)
        BY <1>2, <2>1, <2>3, <3>2
      <4>2. SubSeq(line \o m, Len(line) + 1, Len(line'))
              = SubSeq(m, (Len(line) + 1) - Len(line), Len(line') - Len(line))
        BY <1>2, <2>1, <4>1, SubSeqOfConcat2
      <4>3. (Len(line) + 1) - Len(line) = 1 /\ Len(line') - Len(line) = Len(m)
        BY <1>2, <2>1, <2>3
      <4>. QED BY <2>1, <2>2, <4>2, <4>3, SubSeqFull
    <3>. QED BY <3>1, <3>2
  <2>5. (Data(sb) \o line) \o m = Data(sb) \o (line \o m)
    BY <1>2, <2>1, ConcatAssociative
  <2>. QED BY <2>2, <2>4, <2>5
<1>4. ASSUME NEW n \in 1 .. Len(line), Arrive(n)
      PROVE  Data(sb') \o line' = (Data(sb) \o line) \o SubSeq(line', Len(line) + 1, Len(line'))
  <2>1. PICK x \in Seq(Char) :
          /\ Data(sb') = Data(sb) \o x
          /\ line' \in Seq(Char) /\ x \o line' = line
          /\ Len(line') < Len(line)
    BY <1>1, <1>4, ArriveKeepsBytes
  <2>2. Data(sb') \o line' = Data(sb) \o line
    <3>. DEFINE d == Data(sb)
                l == line'
    <3>1. d \in Seq(Char) /\ l \in Seq(Char)
      BY <1>2, <2>1
    <3>2. (d \o x) \o l = d \o (x \o l)
      <4>. HIDE DEF d, l
      <4>. QED BY <3>1, ConcatAssociative
    <3>. QED BY <2>1, <3>2
  <2>3. Len(line') \in Nat /\ Len(line') < Len(line) + 1
    BY <1>2, <2>1
  <2>4. SubSeq(line', Len(line) + 1, Len(line')) = <<>>
    BY <1>2, <2>3, SubSeqEmpty
  <2>5. Data(sb) \o line \in Seq(Char)
    BY <1>2, ConcatProperties
  <2>. QED BY <2>2, <2>4, <2>5, ConcatEmptySeq
<1>5. ~ReadFails
  BY <1>1 DEF ReadFails, Idle
<1>. QED BY <1>1, <1>3, <1>4, <1>5, WaitingSteps

\* Bytes pass from the line to the buffer and none is lost, repeated or
\* reordered while a read waits, whatever the sizes of the pieces they arrive
\* in and of the storage, and wherever prepare moves them.
THEOREM ReaderLosesNothing == Spec => NothingLostWhileReading
BY InitInv, NextInv, NextKeepsBytes, PTL DEF Spec, NothingLostWhileReading

\* NeverResynchronises, as a fact about one step: bytes are only added at the
\* end, and a search that finds nothing removes none.
LEMMA NextStaysOutOfStep ==
  Inv /\ [Next]_vars => [OutOfStep => OutOfStep' \/ op'.st = "idle"]_vars
<1>1. SUFFICES ASSUME Inv, Next, OutOfStep, op'.st # "idle" PROVE OutOfStep'
  OBVIOUS
<1>2. op.st = "waiting" /\ Size(sb) >= 2 /\ ~EolAt(Data(sb), 1)
  BY <1>1 DEF OutOfStep
<1>3. sb \in Buffers(Char) /\ Data(sb) \in Seq(Char) /\ Len(Data(sb)) = Size(sb)
  BY <1>1, DataProperties DEF Inv, TypeOK
<1>4. ASSUME NEW m \in Messages, ModemSends(m) PROVE OutOfStep'
  BY <1>1, <1>4 DEF ModemSends, OutOfStep
<1>5. ASSUME NEW n \in 1 .. Len(line), Arrive(n) PROVE OutOfStep'
  <2>1. PICK x \in Seq(Char) :
          /\ Data(sb') = Data(sb) \o x
          /\ op'.st = (IF Matched(Data(sb')) THEN "matched" ELSE "waiting")
          /\ sb' \in Buffers(Char)
    BY <1>1, <1>2, <1>5, ArriveKeepsBytes
  <2>2. /\ Len(Data(sb')) = Size(sb) + Len(x) /\ Data(sb') \in Seq(Char)
        /\ \A i \in 1 .. Size(sb) : Data(sb')[i] = Data(sb)[i]
    <3>. DEFINE d == Data(sb)
    <3>1. /\ Len(d \o x) = Len(d) + Len(x) /\ d \o x \in Seq(Char)
          /\ \A i \in 1 .. Len(d) : (d \o x)[i] = d[i]
      <4>1. d \in Seq(Char)
        BY <1>3
      <4>. HIDE DEF d
      <4>. QED BY <4>1, PrefixLooksTheSame
    <3>. HIDE DEF d
    <3>2. Len(d) = Size(sb)
      BY <1>3 DEF d
    <3>3. Data(sb') = d \o x
      BY <2>1 DEF d
    <3>. QED BY <3>1, <3>2, <3>3 DEF d
  <2>3. ~EolAt(Data(sb'), 1)
    <3>1. SUFFICES ASSUME EolAt(Data(sb'), 1) PROVE FALSE
      OBVIOUS
    <3>2. 1 \in 1 .. Size(sb) /\ 2 \in 1 .. Size(sb) /\ DOMAIN Data(sb) = 1 .. Size(sb)
      BY <1>2, <1>3, LenProperties, DataProperties
    <3>3. Data(sb)[1] = CR /\ Data(sb)[2] = LF
      BY <2>2, <3>1, <3>2 DEF EolAt, At
    <3>. QED BY <1>2, <3>2, <3>3 DEF EolAt, At
  <2>4. ~Matched(Data(sb'))
    BY <2>2, <2>3, MatchedStartsWithEol
  <2>5. Size(sb') = Len(Data(sb')) /\ Len(x) \in Nat /\ Size(sb) \in Nat
    BY <1>3, <2>1, DataProperties
  <2>6. Size(sb') >= 2
    BY <1>2, <2>2, <2>5
  <2>. QED BY <2>1, <2>3, <2>4, <2>6 DEF OutOfStep
<1>6. ~ReadFails
  BY <1>1 DEF ReadFails, Idle
<1>. QED BY <1>1, <1>2, <1>4, <1>5, <1>6, WaitingSteps

\* Bytes in front of a response that are not its line terminator hide it and
\* every response behind it for good: the read ends with an error or never.
THEOREM ReaderNeverResynchronises == Spec => NeverResynchronises
BY InitInv, NextInv, NextStaysOutOfStep, PTL DEF Spec, NeverResynchronises

-----------------------------------------------------------------------------
(***************************************************************************)
(* What the reader promises when it is used as execute(), do_at_ok,        *)
(* do_ati and do_at_cops use it: a buffer for each read, the modem silent  *)
(* until its last message was reported, and messages that a split cannot   *)
(* shorten.  EntireMessage says what becomes of the others.                *)
(***************************************************************************)
OwnBuffers ==
  /\ \A u \in Uses : u.newBuffer /\ u.readsOn \subseteq {FALSE} /\ ~u.fails
  /\ Lockstep
  /\ \A m \in Messages : Undivided(m)

\* A message that no split can shorten is a bare result code or one line.
LEMMA UndividedShape ==
  ASSUME NEW m \in Seq(Char), Undivided(m), ~FinalAt(m, 1)
  PROVE  /\ HasLines(m) /\ EolAt(m, 1) /\ LineAt(m, 3)
         /\ TextEnd(m, 3) \in 4 .. Len(m) - 1 /\ TextEnd(m, 3) = Len(m) - 1
         /\ EolAt(m, Len(m) - 1)
<1>. DEFINE e == TextEnd(m, 3)
            p == SubSeq(m, 1, e + 1)
<1>1. HasLines(m) /\ EolAt(m, 1) /\ LineAt(m, 3) /\ Len(m) \in Nat
  BY DEF Undivided, Matched, HasLines
<1>2. 3 \in 1 .. Len(m) + 1
  BY <1>1, HasLinesProperties
<1>3. /\ e \in 4 .. Len(m) - 1 /\ EolAt(m, e)
      /\ \A k \in 3 .. e - 1 : m[k] # CR
  <2>1. TextEnd(m, 3) \in 3 + 1 .. Len(m) - 1 /\ EolAt(m, TextEnd(m, 3))
    BY <1>1, <1>2, LineProperties
  <2>. QED BY <1>2, <2>1, TextEndProperties
<1>4. SUFFICES ASSUME e + 1 < Len(m) PROVE FALSE
  <2>1. e + 1 >= Len(m) => e = Len(m) - 1
    <3>. HIDE DEF e
    <3>. QED BY <1>1, <1>3
  <2>2. e + 1 \in Int /\ (e + 1 < Len(m) \/ e + 1 >= Len(m))
    <3>. HIDE DEF e
    <3>. QED BY <1>1, <1>3
  <2>. QED BY <1>1, <1>3, <2>1, <2>2
<1>. HIDE DEF e
<1>5. /\ p \in Seq(Char) /\ Len(p) = e + 1
      /\ \A k \in 1 .. e + 1 : p[k] = m[k]
  <2>1. e + 1 \in 0 .. Len(m)
    BY <1>1, <1>3
  <2>. QED BY <2>1, PrefixProperties
<1>. HIDE DEF p
<1>6. DOMAIN p = 1 .. e + 1 /\ DOMAIN m = 1 .. Len(m)
  BY <1>5, LenProperties
<1>7. EolAt(p, 1) /\ EolAt(p, e)
  <2>1. {1, 1 + 1, e, e + 1} \subseteq 1 .. e + 1
    BY <1>3
  <2>. QED BY <1>1, <1>3, <1>5, <1>6, <2>1 DEF EolAt, At
<1>8. TextEnd(p, 3) = e
  <2>1. 3 \in 1 .. Len(p) + 1 /\ e \in 3 .. Len(p) + 1
    BY <1>3, <1>5
  <2>2. p[e] = CR
    BY <1>7 DEF EolAt, At
  <2>3. \A k \in 3 .. e - 1 : p[k] # CR
    BY <1>3, <1>5
  <2>. QED BY <1>5, <2>1, <2>2, <2>3, TextEndIs
<1>9. Matched(p)
  BY <1>3, <1>7, <1>8 DEF Matched, HasLines, LineAt
<1>10. e + 1 \in 1 .. Len(m) - 1
  BY <1>1, <1>3, <1>4
<1>. QED BY <1>9, <1>10 DEF Undivided, p

\* One line, with or without CR-free bytes behind it: where lines start in it
\* and where they stop.
LEMMA OneLine ==
  ASSUME NEW t \in Seq(Char), NEW L \in Nat, L <= Len(t), L >= 5,
         HasLines(t), TextEnd(t, 3) = L - 1,
         \A i \in L + 1 .. Len(t) : t[i] # CR
  PROVE  /\ LineStarts(t) = {3, L + 1} /\ BodyEnd(t) = L + 1
         /\ ~EolAt(t, L + 1)
         /\ TextEnd(t, L + 1) = Len(t) + 1
<1>1. EolAt(t, 1) /\ LineAt(t, 3) /\ Len(t) \in Nat /\ DOMAIN t = 1 .. Len(t)
  BY LenProperties DEF HasLines
<1>2. t[1] = CR /\ t[2] = LF /\ t[L - 1] = CR /\ t[L] = LF /\ EolAt(t, L - 1)
  <2>1. EolAt(t, L - 1)
    BY <1>1 DEF LineAt
  <2>2. 1 + 1 = 2 /\ L - 1 + 1 = L
    OBVIOUS
  <2>. QED BY <1>1, <2>1, <2>2 DEF EolAt, At
<1>3. \A k \in 3 .. L - 2 : t[k] # CR
  <2>1. 3 \in 1 .. Len(t) + 1
    BY <1>1
  <2>2. \A k \in 3 .. TextEnd(t, 3) - 1 : t[k] # CR
    BY <2>1, TextEndProperties
  <2>. QED BY <2>2
<1>4. ASSUME NEW j \in 4 .. Len(t) + 1, EolAt(t, j - 2) PROVE j = L + 1
  <2>1. j - 2 \in 1 .. Len(t) /\ t[j - 2] = CR
    BY <1>1, <1>4 DEF EolAt, At
  <2>2. j - 2 # 2 /\ j - 2 # L
    BY <1>2, <2>1 DEF CR, LF
  <2>3. ~(j - 2 \in L + 1 .. Len(t)) /\ ~(j - 2 \in 3 .. L - 2)
    BY <1>3, <2>1
  <2>. QED BY <1>1, <2>1, <2>2, <2>3
<1>5. LineStarts(t) = {3, L + 1}
  <2>1. ASSUME NEW j \in LineStarts(t) PROVE j \in {3, L + 1}
    <3>1. j \in 3 .. Len(t) + 1 /\ (j = 3 \/ EolAt(t, j - 2))
      BY DEF LineStarts
    <3>2. j = 3 \/ j \in 4 .. Len(t) + 1
      BY <1>1, <3>1
    <3>. QED BY <1>4, <3>1, <3>2
  <2>2. 3 \in LineStarts(t) /\ L + 1 \in LineStarts(t)
    <3>1. L + 1 \in 3 .. Len(t) + 1 /\ (L + 1) - 2 = L - 1 /\ 3 \in 3 .. Len(t) + 1
      BY <1>1
    <3>. QED BY <1>2, <3>1 DEF LineStarts
  <2>. QED BY <2>1, <2>2
<1>6. BodyEnd(t) = L + 1
  <2>1. Len(t) >= 2
    BY <1>1
  <2>2. BodyEnd(t) \in LineStarts(t) /\ ~LineAt(t, BodyEnd(t))
    BY <2>1, BodyEndProperties
  <2>. QED BY <1>1, <1>5, <2>2
<1>7. ~EolAt(t, L + 1)
  BY <1>1 DEF EolAt, At
<1>8. TextEnd(t, L + 1) = Len(t) + 1
  <2>1. L + 1 \in 1 .. Len(t) + 1 /\ Len(t) + 1 \in L + 1 .. Len(t) + 1
    BY <1>1
  <2>2. \A k \in L + 1 .. Len(t) + 1 - 1 : t[k] # CR
    BY <1>1
  <2>. QED BY <2>1, <2>2, TextEndIs
<1>. QED BY <1>5, <1>6, <1>7, <1>8

\* Parsing the whole buffer instead of the message it starts with adds lines
\* of bytes nobody read, and changes nothing else, if none of them is a CR.
LEMMA ParseWithTail ==
  ASSUME NEW m \in Seq(Char), Undivided(m), NEW u \in Seq(Char \ {CR})
  PROVE  /\ ParsedCode(m \o u) = ParsedCode(m) /\ ParsedText(m \o u) = ParsedText(m)
         /\ \E z \in Seq(Seq(Char)) : ParsedBody(m \o u) = ParsedBody(m) \o z
<1>. DEFINE t == m \o u
<1>0. /\ u \in Seq(Char) /\ t \in Seq(Char) /\ Len(m) \in Nat /\ Len(u) \in Nat
      /\ DOMAIN m = 1 .. Len(m) /\ DOMAIN t = 1 .. Len(t)
      /\ Len(t) = Len(m) + Len(u)
      /\ \A i \in 1 .. Len(m) : t[i] = m[i]
  <2>1. Char \ {CR} \subseteq Char
    OBVIOUS
  <2>2. u \in Seq(Char)
    BY <2>1, SeqMonotonic
  <2>. QED BY <2>2, PrefixLooksTheSame, LenProperties
<1>1. CASE FinalAt(m, 1)
  <2>1. Parse(t) = Parse(m)
    BY <1>0, <1>1, CodeParseIsStable
  <2>2. ParsedCode(t) = ParsedCode(m) /\ ParsedText(t) = ParsedText(m) /\ ParsedBody(t) = ParsedBody(m)
    <3>. HIDE DEF t
    <3>. QED BY <2>1 DEF Parse
  <2>3. ParsedBody(m) = <<>> /\ <<>> \o <<>> = <<>> /\ <<>> \in Seq(Seq(Char))
    BY <1>1, FinalHasNoBody
  <2>. QED BY <2>2, <2>3
<1>2. CASE ~FinalAt(m, 1)
  <2>. DEFINE L == Len(m)
  <2>1. /\ HasLines(m) /\ EolAt(m, 1) /\ LineAt(m, 3)
        /\ TextEnd(m, 3) \in 4 .. L - 1 /\ TextEnd(m, 3) = L - 1
    BY <1>2, UndividedShape
  <2>2. /\ HasLines(t) /\ ~FinalAt(t, 1)
        /\ CodeTried(t, 1) <=> CodeTried(m, 1)
        /\ TextTried(t, 1) <=> TextTried(m, 1)
        /\ TextTried(m, 1) => Run(t, 4) = Run(m, 4)
    BY <1>0, <1>2, <2>1, FirstLineDecides
  <2>3. TextEnd(t, 3) = L - 1 /\ Run(t, 3) = Run(m, 3)
    <3>1. 3 \in 1 .. Len(m) + 1 /\ EolAt(m, TextEnd(m, 3))
      BY <1>0, <2>1 DEF LineAt
    <3>. QED BY <1>0, <2>1, <3>1, ClosedRunIsStable, ClosedRunIsTheSame
  <2>4. \A i \in L + 1 .. Len(t) : t[i] # CR
    <3>1. SUFFICES ASSUME NEW i \in L + 1 .. Len(t) PROVE t[i] # CR
      OBVIOUS
    <3>2. i \in 1 .. Len(m) + Len(u) /\ ~(i <= Len(m)) /\ i - Len(m) \in 1 .. Len(u)
      <4>. HIDE DEF t
      <4>. QED BY <1>0, <3>1
    <3>3. t[i] = u[i - Len(m)]
      BY <1>0, <3>2, ConcatProperties
    <3>4. u[i - Len(m)] \in Char \ {CR}
      BY <3>2, ElementOfSeq
    <3>. QED BY <3>3, <3>4
  <2>. HIDE DEF t
  <2>5. L >= 5 /\ L <= Len(t) /\ L \in Nat
    BY <1>0, <2>1
  <2>6. LineStarts(t) = {3, L + 1} /\ BodyEnd(t) = L + 1 /\ ~EolAt(t, L + 1)
    BY <1>0, <2>2, <2>3, <2>4, <2>5, OneLine
  <2>7. /\ LineStarts(m) = {3, L + 1} /\ BodyEnd(m) = L + 1 /\ ~EolAt(m, L + 1)
        /\ TextEnd(m, L + 1) = L + 1
    <3>1. \A i \in L + 1 .. Len(m) : m[i] # CR
      BY <2>5
    <3>2. L <= Len(m)
      BY <2>5
    <3>. QED BY <2>1, <2>5, <3>1, <3>2, OneLine
  <2>8. Attempts(t) = <<1, L + 1>> /\ Attempts(m) = <<1, L + 1>>
    BY <1>2, <2>1, <2>2, <2>6, <2>7 DEF Attempts
  <2>9. ParsedCode(t) = ParsedCode(m) /\ ParsedText(t) = ParsedText(m)
    <3>1. DOMAIN <<1, L + 1>> = {1, 2} /\ <<1, L + 1>>[1] = 1 /\ <<1, L + 1>>[2] = L + 1
      OBVIOUS
    <3>2. t[1 + 2] = m[1 + 2] /\ 1 + 3 = 4
      <4>1. 1 + 2 \in 1 .. Len(m)
        BY <2>5
      <4>. QED BY <1>0, <4>1
    <3>3. ~CodeTried(t, L + 1) /\ ~CodeTried(m, L + 1) /\ ~TextTried(t, L + 1) /\ ~TextTried(m, L + 1)
      BY <2>6, <2>7 DEF CodeTried, TextTried
    <3>4. ASSUME NEW a \in DOMAIN Attempts(m) PROVE Attempts(m)[a] \in {1, L + 1}
      BY <2>8, <3>1
    <3>5. ASSUME NEW b \in {1, L + 1}
          PROVE  /\ CodeTried(t, b) <=> CodeTried(m, b)
                 /\ CodeTried(m, b) => t[b + 2] = m[b + 2]
                 /\ TextTried(t, b) <=> TextTried(m, b)
                 /\ TextTried(m, b) => Run(t, b + 3) = Run(m, b + 3)
      <4>1. CASE b = 1
        BY <2>2, <3>2, <4>1
      <4>2. CASE b = L + 1
        BY <3>3, <4>2
      <4>. QED BY <4>1, <4>2
    <3>. QED BY <2>8, <3>4, <3>5, ParsedCodeIsTheSame
  <2>10. ParsedBody(m) = <<Run(m, 3)>>
    <3>1. RunStarts(m) = {3}
      <4>1. \A j : (j \in {3, L + 1} /\ j <= L + 1 /\ TextEnd(m, j) > j) <=> j = 3
        BY <2>1, <2>5, <2>7
      <4>2. {j \in {3, L + 1} : j <= L + 1 /\ TextEnd(m, j) > j} = {3}
        BY <4>1
      <4>. QED BY <1>2, <2>1, <2>7, <4>2 DEF RunStarts
    <3>2. Cardinality({3}) = 1 /\ Kth({3}, 1) = 3
      <4>1. Cardinality({3}) = 1
        BY FS_Singleton
      <4>2. {3} \subseteq 0 .. 3 /\ 3 \in {3} /\ \A i \in {3} : 3 <= i
        OBVIOUS
      <4>3. \A T \in SUBSET (0 .. 3) : \A j \in T : (\A i \in T : j <= i) => Kth(T, 1) = j
        BY KthOne
      <4>. QED BY <4>1, <4>2, <4>3
    <3>3. [k \in 1 .. 1 |-> Run(m, Kth({3}, k))] = <<Run(m, 3)>>
      BY <3>2
    <3>4. <<Run(m, 3)>> \o <<>> = <<Run(m, 3)>>
      OBVIOUS
    <3>. QED BY <2>1, <3>1, <3>2, <3>3, <3>4 DEF ParsedBody
  <2>11. ParsedBody(t) # <<>> /\ ParsedBody(t)[1] = Run(m, 3) /\ ParsedBody(t) \in Seq(Seq(Char))
    <3>1. EolAt(t, 1) /\ TextEnd(t, 3) > 3
      BY <2>2, <2>3, <2>5 DEF HasLines
    <3>2. ParsedBody(t) # <<>> /\ ParsedBody(t)[1] = Run(t, 3)
      BY <1>0, <2>2, <3>1, FirstLine
    <3>. QED BY <1>0, <2>3, <3>2, ParsedBodyType
  <2>12. ParsedBody(t) = ParsedBody(m) \o Tail(ParsedBody(t)) /\ Tail(ParsedBody(t)) \in Seq(Seq(Char))
    <3>. DEFINE b == ParsedBody(t)
    <3>1. b # <<>> /\ b \in Seq(Seq(Char)) /\ b[1] = Run(m, 3)
      BY <2>11
    <3>. HIDE DEF b
    <3>2. Len(b) \in Nat \ {0} /\ Tail(b) \in Seq(Seq(Char)) /\ Tail(b) = SubSeq(b, 1 + 1, Len(b))
      BY <3>1, EmptySeq, HeadTailProperties, TailIsSubSeq
    <3>3. SubSeq(b, 1, Len(b)) = <<b[1]>> \o SubSeq(b, 1 + 1, Len(b))
      BY <3>1, <3>2, SubSeqRecursiveFirst
    <3>4. b = <<b[1]>> \o Tail(b)
      BY <3>1, <3>2, <3>3, SubSeqFull
    <3>. QED BY <2>10, <3>1, <3>2, <3>4 DEF b
  <2>. QED BY <2>9, <2>12 DEF t
<1>. QED BY <1>1, <1>2

-----------------------------------------------------------------------------
\* A buffer that nothing was consumed from, and that holds nothing yet behind
\* its data.
Clean(b) == b.g = 0 /\ \A i \in b.p + 1 .. Len(b.mem) : b.mem[i] = Zero

\* Searching keeps a buffer clean, ...
LEMMA CleanSearch ==
  ASSUME NEW b \in Buffers(Char), Clean(b)
  PROVE  Clean(Search(b, Data(b)).sb)
<1>. DEFINE n == ReadSize(b)
            L == Greatest(Len(b.mem), Size(b) + n)
            m == [i \in 1 .. L |-> IF i <= Size(b) THEN b.mem[b.g + i]
                                   ELSE IF i <= Len(b.mem) THEN b.mem[i] ELSE Zero]
<1>1. /\ b.g = 0 /\ b.p \in Nat /\ b.p <= Len(b.mem) /\ Len(b.mem) \in Nat
      /\ Size(b) = b.p /\ n \in Nat
  BY WindowAssumption DEF Buffers, Size, Clean, ReadSize, Greatest
<1>2. CASE Matched(Data(b)) \/ n <= Room(b)
  BY <1>2 DEF Search, Prepared, Prepare
<1>3. CASE ~Matched(Data(b)) /\ ~(n <= Room(b))
  <2>1. Search(b, Data(b)).sb = [mem |-> m, g |-> 0, p |-> b.p]
    BY <1>1, <1>3 DEF Search, Prepared, Prepare
  <2>2. L \in Nat
    BY <1>1 DEF Greatest
  <2>3. ASSUME NEW i \in b.p + 1 .. L PROVE m[i] = Zero
    <3>1. i \in 1 .. L /\ ~(i <= Size(b))
      BY <1>1, <2>2
    <3>2. i <= Len(b.mem) => b.mem[i] = Zero
      BY <1>1 DEF Clean
    <3>. HIDE DEF L
    <3>. QED BY <3>1, <3>2
  <2>4. Len(m) = L
    <3>. HIDE DEF L
    <3>. QED BY <2>2
  <2>. HIDE DEF m, L
  <2>. QED BY <2>1, <2>3, <2>4 DEF Clean
<1>. QED BY <1>2, <1>3

\* ... so does what arrives, ...
LEMMA CleanFill ==
  ASSUME NEW b \in Buffers(Char), Clean(b), NEW cs \in Seq(Char), Len(cs) <= Room(b)
  PROVE  Clean(Commit(Fill(b, b.p, cs), Len(cs)))
<1>. DEFINE L == Len(b.mem)
            m == [i \in 1 .. L |-> IF i > b.p /\ i <= b.p + Len(cs) THEN cs[i - b.p] ELSE b.mem[i]]
            f == Fill(b, b.p, cs)
<1>1. /\ b.g = 0 /\ b.p \in Nat /\ L \in Nat /\ Len(cs) \in Nat /\ b.p + Len(cs) <= L
  BY DEF Buffers, Room, Clean
<1>2. f.mem = m /\ f.g = b.g /\ f.p = b.p /\ f \in Buffers(Char)
  <2>1. f.mem = m /\ f.g = b.g /\ f.p = b.p
    BY DEF Fill, Buffers
  <2>2. f \in Buffers(Char)
    BY <1>1, FillCommitType
  <2>. QED BY <2>1, <2>2
<1>3. Len(m) = L
  <2>. HIDE DEF L
  <2>. QED BY <1>1
<1>4. ASSUME NEW i \in b.p + Len(cs) + 1 .. L PROVE m[i] = Zero
  <2>1. i \in 1 .. L /\ ~(i <= b.p + Len(cs)) /\ i \in b.p + 1 .. L
    BY <1>1
  <2>2. b.mem[i] = Zero
    BY <2>1 DEF Clean
  <2>. QED BY <2>1, <2>2
<1>. HIDE DEF m, L, f
<1>5. /\ Commit(f, Len(cs)).mem = m /\ Commit(f, Len(cs)).g = 0
      /\ Commit(f, Len(cs)).p = b.p + Len(cs)
  BY <1>1, <1>2, <1>3 DEF Commit, Least, Room, Buffers
<1>. QED BY <1>3, <1>4, <1>5 DEF Clean, f

\* ... and committing once more only adds bytes of new storage to the data.
LEMMA CleanCommit ==
  ASSUME NEW b \in Buffers(Char), Clean(b), NEW n \in Nat
  PROVE  \E u \in Seq(Char \ {CR}) : Data(Commit(b, n)) = Data(b) \o u
<1>. DEFINE k == Least(n, Room(b))
            u == SubSeq(b.mem, b.p + 1, b.p + k)
<1>1. /\ b.g = 0 /\ b.p \in Nat /\ Len(b.mem) \in Nat /\ b.mem \in Seq(Char)
      /\ b.p <= Len(b.mem) /\ k \in Nat /\ b.p + k <= Len(b.mem)
  BY DEF Buffers, Room, Clean, Least
<1>2. Commit(b, n).mem = b.mem /\ Commit(b, n).g = 0 /\ Commit(b, n).p = b.p + k
  BY <1>1 DEF Commit, Buffers
<1>. HIDE DEF k
<1>3. u \in Seq(Char \ {CR})
  <2>1. \A i \in b.p + 1 .. b.p + k : b.mem[i] \in Char \ {CR}
    BY <1>1, ReaderAssumption DEF Clean, Char, NUL, CR
  <2>2. b.p + 1 \in Int /\ b.p + k \in Int
    BY <1>1
  <2>. QED BY <2>1, <2>2, SubSeqProperties
<1>4. SubSeq(b.mem, 1, b.p) \o SubSeq(b.mem, b.p + 1, b.p + k) = SubSeq(b.mem, 1, b.p + k)
  <2>1. 1 \in 1 .. Len(b.mem) + 1 /\ b.p \in 1 - 1 .. Len(b.mem) /\ b.p + k \in b.p .. Len(b.mem)
    BY <1>1
  <2>. QED BY <1>1, <2>1, ConcatAdjacentSubSeq
<1>5. 0 + 1 = 1
  OBVIOUS
<1>. QED BY <1>1, <1>2, <1>3, <1>4, <1>5 DEF Data

-----------------------------------------------------------------------------
(***************************************************************************)
(* With a buffer for each read, at most one message is under way, and the  *)
(* read in progress holds a part of it, the line the rest.                 *)
(***************************************************************************)
Turn ==
  /\ op.st = "idle" => line = <<>> /\ Len(sent) = Len(got)
  /\ op.st = "waiting" =>
       /\ Clean(sb)
       /\ \/ Len(sent) = Len(got) /\ Data(sb) = <<>> /\ line = <<>>
          \/ Len(sent) = Len(got) + 1 /\ Data(sb) \o line = sent[Len(sent)]
  /\ op.st = "matched" =>
       /\ Clean(sb) /\ line = <<>>
       /\ Len(sent) = Len(got) + 1 /\ Data(sb) = sent[Len(sent)]
       /\ op.rb = Len(Data(sb))

\* What the response object holds when a message is added to it.
Held ==
  op.st # "idle" \/ ~NewResponse =>
    msg = IF NewResponse \/ got = <<>> THEN NoMessage ELSE got[Len(got)]

TurnInv == Inv /\ Turn /\ Held

LEMMA InitTurn == Init => TurnInv
BY InitInv DEF Init, TurnInv, Turn, Held, Idle

\* The next message is sent to a read that waits with an empty buffer.
LEMMA TurnModemSends ==
  ASSUME OwnBuffers, TurnInv, NEW m \in Messages, ModemSends(m)
  PROVE  Turn'
<1>1. op.st = "waiting" /\ Len(got) = Len(sent) /\ line' = line \o m /\ sent' = Append(sent, m) /\ UNCHANGED <<sb, op, got>>
  BY DEF OwnBuffers, ModemSends
<1>2. sent \in Seq(Messages) /\ Len(sent) \in Nat /\ got \in Seq(Response) /\ Len(got) \in Nat /\ m \in Seq(Char)
  BY ReaderAssumption DEF TurnInv, Inv, TypeOK
<1>3. Clean(sb) /\ Data(sb) = <<>> /\ line = <<>>
  BY <1>1, <1>2 DEF TurnInv, Turn
<1>4. Len(sent') = Len(sent) + 1 /\ sent'[Len(sent')] = m
  BY <1>1, <1>2, AppendProperties
<1>5. <<>> \o (<<>> \o m) = m
  BY <1>2, ConcatEmptySeq
<1>. QED BY <1>1, <1>2, <1>3, <1>4, <1>5 DEF Turn

\* A read starts on a buffer of its own, which holds nothing.
LEMMA TurnStartRead ==
  ASSUME OwnBuffers, TurnInv, StartRead
  PROVE  Turn'
<1>1. use.newBuffer
  BY DEF OwnBuffers, TurnInv, Inv, TypeOK
<1>2. /\ op.st = "idle" /\ UNCHANGED <<line, sent, got>>
      /\ sb' = Search(Fresh, Data(Fresh)).sb /\ op' = Search(Fresh, Data(Fresh)).op
  BY <1>1 DEF StartRead, SearchOn
<1>3. Fresh \in Buffers(Char) /\ Data(Fresh) = <<>>
  BY FreshProperties
<1>4. Clean(Fresh)
  BY DEF Clean, Fresh
<1>5. op'.st = "waiting" /\ Data(sb') = <<>> /\ Clean(sb')
  BY <1>2, <1>3, <1>4, NothingIsNoMatch, SearchProperties, CleanSearch, Bytes
<1>. QED BY <1>2, <1>5 DEF TurnInv, Turn

\* What arrives is the next part of the message; only all of it matches.
LEMMA TurnArrive ==
  ASSUME OwnBuffers, TurnInv, NEW n \in 1 .. Len(line), Arrive(n)
  PROVE  Turn'
<1>. DEFINE b == Commit(Fill(sb, op.at, SubSeq(line, 1, n)), n)
            x == SubSeq(line, 1, n)
            m == sent[Len(sent)]
<1>1. /\ op.st = "waiting" /\ n \in 1 .. Least(op.n, Len(line)) /\ UNCHANGED <<sent, got>>
      /\ sb' = Search(b, Data(b)).sb /\ op' = Search(b, Data(b)).op
      /\ line' = SubSeq(line, n + 1, Len(line))
  BY DEF Arrive, SearchOn
<1>2. /\ TypeOK /\ InFlight /\ sb \in Buffers(Char) /\ line \in Seq(Char) /\ op.at = sb.p
      /\ sent \in Seq(Messages) /\ Len(sent) \in Nat /\ Len(line) \in Nat
      /\ op.n <= Room(sb) /\ op.n \in Nat /\ Room(sb) \in Nat
  BY <1>1, Bytes DEF TurnInv, Inv, TypeOK, InFlight, Room, Buffers
<1>3. /\ b \in Buffers(Char) /\ Data(b) = Data(sb) \o x
      /\ x \in Seq(Char) /\ line' \in Seq(Char) /\ x \o line' = line
  BY <1>1, <1>2, ArriveProperties
<1>4. line # <<>>
  BY <1>2
<1>5. Clean(sb) /\ Len(sent) = Len(got) + 1 /\ Data(sb) \o line = m
  BY <1>1, <1>4 DEF TurnInv, Turn
<1>6. Clean(b)
  <2>1. Len(x) = n /\ n <= Room(sb)
    <3>1. n \in 0 .. Len(line) /\ n <= Room(sb)
      BY <1>1, <1>2 DEF Least
    <3>. QED BY <1>2, <3>1, PrefixProperties
  <2>2. Clean(Commit(Fill(sb, sb.p, x), Len(x)))
    <3>. HIDE DEF x
    <3>. QED BY <1>2, <1>3, <1>5, <2>1, CleanFill
  <2>. QED BY <1>2, <2>1, <2>2
<1>7. m \in Seq(Char) /\ Undivided(m) /\ Len(m) \in Nat
  <2>1. Len(got) \in Nat
    BY <1>2 DEF TypeOK
  <2>2. Len(sent) \in 1 .. Len(sent)
    BY <1>2, <1>5, <2>1
  <2>3. m \in Messages
    BY <1>2, <2>2, ElementOfSeq
  <2>. HIDE DEF m
  <2>. QED BY <2>3, ReaderAssumption DEF OwnBuffers
<1>8. Data(b) \o line' = m
  <2>1. Data(sb) \in Seq(Char)
    BY <1>2, DataProperties
  <2>2. (Data(sb) \o x) \o line' = Data(sb) \o (x \o line')
    BY <1>3, <2>1, ConcatAssociative
  <2>. QED BY <1>3, <1>5, <2>2
<1>9. Clean(sb') /\ Data(sb') = Data(b) /\ op'.st = IF Matched(Data(b)) THEN "matched" ELSE "waiting"
  BY <1>1, <1>3, <1>6, SearchProperties, CleanSearch, Bytes
<1>10. Matched(Data(b)) => op'.rb = MatchLen(Data(b))
  BY <1>1 DEF Search
<1>11. Data(b) \in Seq(Char)
  BY <1>3, DataProperties
<1>. HIDE DEF m, b, x
<1>12. ASSUME Matched(Data(b)) PROVE line' = <<>> /\ Data(b) = m
  <2>. DEFINE d == Data(b)
  <2>1. d \in Seq(Char) /\ Matched(d) /\ d \o line' = m /\ Len(d) \in Nat /\ Len(line') \in Nat
    BY <1>3, <1>8, <1>11, <1>12
  <2>. HIDE DEF d
  <2>2. Len(m) = Len(d) + Len(line') /\ Len(d) >= 3
    <3>1. MatchLen(d) \in 3 .. Len(d)
      BY <2>1, MatchLenProperties
    <3>. QED BY <1>3, <2>1, <3>1, ConcatProperties
  <2>3. SubSeq(m, 1, Len(d)) = d
    <3>1. 1 \in 1 .. Len(d) /\ Len(d) \in 1 .. Len(d)
      BY <2>1, <2>2
    <3>2. SubSeq(d \o line', 1, Len(d)) = SubSeq(d, 1, Len(d))
      BY <1>3, <2>1, <3>1, SubSeqOfConcat1
    <3>. QED BY <2>1, <3>2, SubSeqFull
  <2>4. ~(Len(d) \in 1 .. Len(m) - 1)
    BY <1>7, <2>1, <2>3 DEF Undivided
  <2>5. Len(line') = 0
    BY <2>1, <2>2, <2>4
  <2>6. line' = <<>>
    BY <1>3, <2>5, EmptySeq
  <2>7. d \o <<>> = d
    BY <2>1, ConcatEmptySeq
  <2>. QED BY <2>1, <2>6, <2>7 DEF d
<1>13. CASE Matched(Data(b))
  <2>1. op'.st = "matched" /\ line' = <<>> /\ Data(sb') = m /\ op'.rb = MatchLen(m) /\ MatchLen(m) = Len(m)
    BY <1>7, <1>9, <1>10, <1>12, <1>13 DEF Undivided
  <2>. QED BY <1>1, <1>5, <1>9, <2>1 DEF Turn, m
<1>14. CASE ~Matched(Data(b))
  BY <1>1, <1>5, <1>8, <1>9, <1>14 DEF Turn, m
<1>. QED BY <1>13, <1>14

\* The read that reports the message ends its turn.
LEMMA TurnEnds ==
  ASSUME OwnBuffers, TurnInv, ReadReturns \/ \E more \in BOOLEAN : HandlerRuns(more)
  PROVE  /\ Turn'
         /\ op.st = "matched" /\ got' = Append(got, msg') /\ UNCHANGED sent /\ op'.st = "idle"
         /\ msg' = Populate(msg, Data(Commit(sb, op.rb)))
<1>1. use \in Uses /\ (\A more \in use.readsOn : more = FALSE)
  BY DEF OwnBuffers, TurnInv, Inv, TypeOK
<1>2. /\ op.st = "matched" /\ got' = Append(got, msg') /\ UNCHANGED <<sent, line>> /\ op' = Idle
      /\ msg' = Populate(msg, Data(Commit(sb, op.rb)))
  <2>1. CASE ReadReturns
    BY <2>1 DEF ReadReturns
  <2>2. ASSUME NEW more \in BOOLEAN, HandlerRuns(more)
        PROVE  /\ op.st = "matched" /\ got' = Append(got, msg') /\ UNCHANGED <<sent, line>> /\ op' = Idle
               /\ msg' = Populate(msg, Data(Commit(sb, op.rb)))
    <3>1. more = FALSE
      BY <1>1, <2>2 DEF HandlerRuns
    <3>. QED BY <2>2, <3>1 DEF HandlerRuns
  <2>. QED BY <2>1, <2>2
<1>3. line = <<>> /\ Len(sent) = Len(got) + 1
  BY <1>2 DEF TurnInv, Turn
<1>4. Len(Append(got, msg')) = Len(got) + 1
  <2>1. got \in Seq(Response) /\ msg \in Response /\ sb \in Buffers(Char) /\ op.rb \in Nat
    BY DEF TurnInv, Inv, TypeOK
  <2>2. msg' \in Response
    BY <1>2, <2>1, CommitProperties, PopulateType
  <2>. QED BY <2>1, <2>2, AppendProperties
<1>. QED BY <1>2, <1>3, <1>4 DEF Turn, Idle

LEMMA NextTurn ==
  ASSUME OwnBuffers PROVE TurnInv /\ [Next]_vars => TurnInv'
<1>1. SUFFICES ASSUME TurnInv, [Next]_vars PROVE TurnInv'
  OBVIOUS
<1>2. Inv'
  BY <1>1, NextInv DEF TurnInv
<1>3. msg \in Response /\ got \in Seq(Response) /\ msg' \in Response
  BY <1>1, <1>2 DEF TurnInv, Inv, TypeOK
<1>4. ASSUME NEW m \in Messages, ModemSends(m) PROVE Turn' /\ Held'
  BY <1>1, <1>4, TurnModemSends DEF ModemSends, TurnInv, Held
<1>5. ASSUME StartRead PROVE Turn' /\ Held'
  BY <1>1, <1>5, TurnStartRead DEF StartRead, TurnInv, Held
<1>6. ASSUME NEW n \in 1 .. Len(line), Arrive(n) PROVE Turn' /\ Held'
  BY <1>1, <1>6, TurnArrive DEF Arrive, TurnInv, Held
<1>7. ~ReadFails
  BY <1>1 DEF ReadFails, OwnBuffers, TurnInv, Inv, TypeOK
<1>8. ASSUME ReadReturns \/ \E more \in BOOLEAN : HandlerRuns(more) PROVE Turn' /\ Held'
  <2>1. Turn' /\ got' = Append(got, msg') /\ op'.st = "idle"
    BY <1>1, <1>8, TurnEnds
  <2>2. got' # <<>> /\ got'[Len(got')] = msg'
    BY <1>3, <2>1, AppendProperties
  <2>. QED BY <2>1, <2>2 DEF Held
<1>9. ASSUME UNCHANGED vars PROVE Turn' /\ Held'
  BY <1>1, <1>9 DEF vars, TurnInv, Turn, Held
<1>. QED BY <1>1, <1>2, <1>4, <1>5, <1>6, <1>7, <1>8, <1>9 DEF Next, TurnInv

\* With a buffer for each read, a modem that has nothing more to say leaves
\* nothing in it.
THEOREM BufferIsDrained == OwnBuffers => (Spec => []BufferDrained)
<1>1. SUFFICES ASSUME OwnBuffers PROVE Spec => []BufferDrained
  OBVIOUS
<1>2. TurnInv => BufferDrained
  <2>1. SUFFICES ASSUME TurnInv, op.st = "waiting", Len(got) = Len(sent) PROVE Data(sb) = <<>>
    BY DEF BufferDrained
  <2>2. Len(got) \in Nat
    BY <2>1 DEF TurnInv, Inv, TypeOK
  <2>. QED BY <2>1, <2>2 DEF TurnInv, Turn
<1>. QED BY <1>1, <1>2, InitTurn, NextTurn, PTL DEF Spec

-----------------------------------------------------------------------------
\* A sequence starts with itself, and with its first part.
LEMMA StartsWithProperties ==
  ASSUME NEW S, NEW s \in Seq(S), NEW t \in Seq(S)
  PROVE  Stream!StartsWith(s \o t, s)
<1>1. Len(s) \in Nat /\ Len(t) \in Nat /\ Len(s \o t) = Len(s) + Len(t)
  BY ConcatProperties
<1>2. SubSeq(s \o t, 1, Len(s)) = s
  <2>1. CASE Len(s) = 0
    <3>1. s = <<>> /\ SubSeq(s \o t, 1, 0) = <<>>
      BY <2>1, EmptySeq, SubSeqEmpty
    <3>. QED BY <2>1, <3>1
  <2>2. CASE Len(s) # 0
    <3>1. 1 \in 1 .. Len(s) /\ Len(s) \in 1 .. Len(s)
      BY <1>1, <2>2
    <3>. QED BY <3>1, SubSeqOfConcat1, SubSeqFull
  <2>. QED BY <2>1, <2>2
<1>. QED BY <1>1, <1>2 DEF Stream!StartsWith

\* Lines that are added behind leave those before as they are.
LEMMA BodyGrows ==
  ASSUME NEW held \in Seq(Seq(Char)), NEW body \in Seq(Seq(Char)), NEW z \in Seq(Seq(Char))
  PROVE  Stream!StartsWith(held \o (body \o z), held \o body)
<1>. DEFINE V == Seq(Char)
            s == held \o body
<1>1. held \in Seq(V) /\ body \in Seq(V) /\ z \in Seq(V)
  OBVIOUS
<1>. HIDE DEF V
<1>2. (held \o body) \o z = held \o (body \o z)
  BY <1>1, ConcatAssociative
<1>3. s \in Seq(V)
  BY <1>1, ConcatProperties
<1>. HIDE DEF s
<1>4. Stream!StartsWith(s \o z, s)
  BY <1>1, <1>3, StartsWithProperties
<1>. QED BY <1>2, <1>4 DEF s

\* The message under way is shown: its code, its text and its lines, behind
\* those the response object held.
LEMMA ReportShows ==
  ASSUME Inv, Inv', Held, \A m \in Messages : Undivided(m),
         op.st = "matched", Len(sent) = Len(got) + 1, NEW u \in Seq(Char \ {CR}),
         Data(Commit(sb, op.rb)) = sent[Len(sent)] \o u,
         got' = Append(got, msg'), UNCHANGED sent,
         msg' = Populate(msg, Data(Commit(sb, op.rb)))
  PROVE  Stream!Show
<1>. DEFINE m == sent[Len(sent)]
            outbox == SubSeq(sent, Len(got) + 1, Len(sent))
<1>1. /\ sent \in Seq(Messages) /\ got \in Seq(Response)
      /\ Len(got) \in Nat /\ msg \in Response /\ msg' \in Response
  BY DEF Inv, TypeOK
<1>2. m \in Messages /\ m \in Seq(Char) /\ Undivided(m)
  <2>1. Len(sent) \in 1 .. Len(sent)
    BY <1>1
  <2>2. m \in Messages
    BY <1>1, <2>1, ElementOfSeq
  <2>. HIDE DEF m
  <2>. QED BY <2>2, ReaderAssumption
<1>3. Data(Commit(sb, op.rb)) = m \o u
  OBVIOUS
<1>4. /\ ParsedCode(m \o u) = ParsedCode(m) /\ ParsedText(m \o u) = ParsedText(m)
      /\ \E z \in Seq(Seq(Char)) : ParsedBody(m \o u) = ParsedBody(m) \o z
  <2>. HIDE DEF m
  <2>. QED BY <1>2, ParseWithTail
<1>5. PICK z \in Seq(Seq(Char)) : ParsedBody(m \o u) = ParsedBody(m) \o z
  BY <1>4
<1>6. /\ msg'.rc = ParsedCode(m) /\ msg'.text = msg.text \o ParsedText(m)
      /\ msg'.body = msg.body \o (ParsedBody(m) \o z)
  BY <1>3, <1>4, <1>5 DEF Populate, Parse
<1>7. /\ outbox = <<m>> /\ outbox' = <<>>
  <2>1. outbox = SubSeq(sent, Len(sent), Len(sent)) /\ outbox' = SubSeq(sent, Len(sent) + 1, Len(sent))
    BY <1>1, AppendProperties
  <2>2. SubSeq(sent, Len(sent), Len(sent)) = <<m>> \o SubSeq(sent, Len(sent) + 1, Len(sent))
    <3>1. Len(sent) \in 1 .. Len(sent) /\ Len(sent) \in Len(sent) .. Len(sent)
      BY <1>1
    <3>. QED BY <1>1, <3>1, SubSeqRecursiveFirst
  <2>3. SubSeq(sent, Len(sent) + 1, Len(sent)) = <<>>
    BY <1>1, SubSeqEmpty
  <2>4. <<m>> \o <<>> = <<m>>
    OBVIOUS
  <2>. QED BY <2>1, <2>2, <2>3, <2>4
<1>8. Stream!Previous = msg
  BY DEF Held, Stream!Previous
<1>. DEFINE held == msg.body
            body == ParsedBody(m)
<1>9. held \in Seq(Seq(Char)) /\ body \in Seq(Seq(Char))
  BY <1>1, <1>2, ParsedBodyType DEF Response
<1>10. Stream!StartsWith(msg'.body, held \o body)
  <2>1. msg'.body = held \o (body \o z)
    BY <1>6
  <2>. HIDE DEF held, body
  <2>. QED BY <1>9, <2>1, BodyGrows
<1>11. Stream!Shows(m, msg')
  <2>1. /\ [k \in Messages |-> Parse(k)][m].rc = ParsedCode(m)
        /\ [k \in Messages |-> Parse(k)][m].text = ParsedText(m)
        /\ [k \in Messages |-> Parse(k)][m].body = body
    <3>. HIDE DEF m
    <3>. QED BY <1>2 DEF Parse
  <2>2. msg'.rc = ParsedCode(m) /\ msg'.text = msg.text \o ParsedText(m)
    BY <1>6
  <2>3. Stream!StartsWith(msg'.body, msg.body \o body)
    BY <1>10
  <2>. HIDE DEF m, body
  <2>. QED BY <1>8, <2>1, <2>2, <2>3 DEF Stream!Shows
<1>12. /\ Len(got') = Len(got) + 1 /\ got'[Len(got) + 1] = msg'
       /\ Stream!StartsWith(got', got)
  <2>1. got' = got \o <<msg'>> /\ <<msg'>> \in Seq(Response)
    BY <1>1, AppendIsConcat
  <2>2. Stream!StartsWith(got \o <<msg'>>, got)
    BY <1>1, <2>1, StartsWithProperties
  <2>3. Stream!StartsWith(got', got)
    BY <2>1, <2>2
  <2>. QED BY <1>1, <2>3, AppendProperties
<1>. HIDE DEF m
<1>13. outbox # <<>> /\ outbox' = Tail(outbox) /\ Head(outbox) = m
  <2>1. <<m>> # <<>> /\ Tail(<<m>>) = <<>> /\ Head(<<m>>) = m
    OBVIOUS
  <2>. QED BY <1>7, <2>1
<1>. HIDE DEF outbox
<1>14. /\ Len(got') = Len(got) + 1 /\ Stream!StartsWith(got', got)
       /\ Stream!Shows(Head(outbox), got'[Len(got) + 1])
  BY <1>11, <1>12, <1>13
<1>. QED BY <1>13, <1>14 DEF Stream!Show, outbox

\* Sending is what it is in the stream.
LEMMA SendIsStream ==
  ASSUME Lockstep, Inv, NEW m \in Messages, ModemSends(m)
  PROVE  Stream!Send(m)
<1>1. op.st = "waiting" /\ Len(got) = Len(sent) /\ sent' = Append(sent, m) /\ UNCHANGED got
  BY DEF ModemSends
<1>2. sent \in Seq(Messages) /\ Len(sent) \in Nat
  BY DEF Inv, TypeOK
<1>3. SubSeq(sent, Len(got) + 1, Len(sent)) = <<>>
  BY <1>1, <1>2, SubSeqEmpty
<1>4. SubSeq(sent', Len(got') + 1, Len(sent')) = <<m>>
  <2>1. sent' \in Seq(Messages) /\ Len(sent') = Len(sent) + 1 /\ sent'[Len(sent')] = m
    BY <1>1, <1>2, AppendProperties
  <2>2. Len(sent') \in 1 .. Len(sent') /\ Len(sent') \in Len(sent') .. Len(sent')
    BY <1>2, <2>1
  <2>3. SubSeq(sent', Len(sent'), Len(sent')) = <<sent'[Len(sent')]>> \o SubSeq(sent', Len(sent') + 1, Len(sent'))
    BY <2>1, <2>2, SubSeqRecursiveFirst
  <2>4. SubSeq(sent', Len(sent') + 1, Len(sent')) = <<>> /\ <<m>> \o <<>> = <<m>>
    BY <1>2, <2>1, SubSeqEmpty
  <2>. QED BY <1>1, <2>1, <2>3, <2>4
<1>5. Append(<<>>, m) = <<m>>
  OBVIOUS
<1>. QED BY <1>1, <1>3, <1>4, <1>5 DEF Stream!Send

LEMMA InitStream == Init => Stream!Init
<1>1. SubSeq(<<>>, 0 + 1, 0) = <<>> /\ Len(<<>>) = 0
  BY SubSeqEmpty
<1>. QED BY <1>1 DEF Init, Stream!Init

\* Each step of the reader is one of the message stream, or stutters.
LEMMA NextIsStream ==
  ASSUME OwnBuffers, TurnInv, TurnInv', [Next]_vars
  PROVE  [Stream!Next]_(Stream!vars)
<1>1. ASSUME NEW m \in Messages, ModemSends(m) PROVE Stream!Send(m)
  BY <1>1, SendIsStream DEF OwnBuffers, TurnInv
<1>2. ASSUME UNCHANGED <<sent, got>> PROVE UNCHANGED Stream!vars
  BY <1>2 DEF Stream!vars
<1>3. ASSUME ReadReturns \/ \E more \in BOOLEAN : HandlerRuns(more) PROVE Stream!Show
  <2>1. /\ op.st = "matched" /\ got' = Append(got, msg') /\ UNCHANGED sent
        /\ msg' = Populate(msg, Data(Commit(sb, op.rb)))
    BY <1>3, TurnEnds
  <2>2. /\ Clean(sb) /\ Len(sent) = Len(got) + 1 /\ Data(sb) = sent[Len(sent)]
        /\ sb \in Buffers(Char) /\ op.rb \in Nat
    BY <2>1 DEF TurnInv, Turn, Inv, TypeOK
  <2>3. PICK u \in Seq(Char \ {CR}) : Data(Commit(sb, op.rb)) = sent[Len(sent)] \o u
    BY <2>2, CleanCommit
  <2>. QED BY <2>1, <2>2, <2>3, ReportShows DEF TurnInv, OwnBuffers
<1>4. StartRead \/ (\E n \in 1 .. Len(line) : Arrive(n)) \/ ReadFails \/ UNCHANGED vars => UNCHANGED <<sent, got>>
  BY DEF StartRead, Arrive, ReadFails, vars
<1>. QED BY <1>1, <1>2, <1>3, <1>4 DEF Next, Stream!Next

\* With a buffer for each read the reader implements the message stream: for
\* every message a split cannot shorten, every way the line splits it, and a
\* response object that is new or used again, each message is shown once, in
\* order, with its own code and text and its lines.
THEOREM ReaderImplementsStream == OwnBuffers => (Spec => StreamSpec)
<1>1. SUFFICES ASSUME OwnBuffers PROVE Spec => StreamSpec
  OBVIOUS
<1>2. TurnInv /\ TurnInv' /\ [Next]_vars => [Stream!Next]_(Stream!vars)
  BY <1>1, NextIsStream
<1>. QED BY <1>1, <1>2, InitStream, InitTurn, NextTurn, PTL DEF Spec, StreamSpec, Stream!Spec
-----------------------------------------------------------------------------
(***************************************************************************)
(* The first read, whoever its client is, however the messages are cut,    *)
(* and whatever their lengths: it begins with the message that came first. *)
(***************************************************************************)

\* Two beginnings of the same bytes that are both responses agree on what
\* stands in front, also when more bytes are parsed with one of them.
LEMMA SameFront ==
  ASSUME NEW d \in Seq(Char), NEW y \in Seq(Char), NEW m \in Seq(Char), NEW r \in Seq(Char),
         NEW u \in Seq(Char), d \o y = m \o r, Matched(d), Matched(m)
  PROVE  InFront(Parse(d \o u), m)
<1>. DEFINE x == d \o y
            t == d \o u
<1>1. /\ Len(d) \in Nat /\ Len(d) >= 3 /\ Len(m) \in Nat /\ Len(m) >= 3
      /\ EolAt(d, 1) /\ EolAt(m, 1)
  BY MatchLenProperties, MatchedStartsWithEol
<1>2. /\ t \in Seq(Char) /\ Len(t) \in Nat /\ Len(t) >= 3 /\ EolAt(t, 1)
      /\ t[3] = d[3] /\ d[3] = m[3]
  <2>1. t \in Seq(Char) /\ Len(t) >= 3 /\ EolAt(t, 1) /\ t[3] = d[3]
    <3>1. Len(u) \in Nat /\ 3 \in 1 .. Len(d)
      BY <1>1
    <3>. QED BY <1>1, <3>1, PrefixLooksTheSame
  <2>2. d[3] = m[3]
    <3>1. 3 \in 1 .. Len(d) /\ 3 \in 1 .. Len(m)
      BY <1>1
    <3>2. (d \o y)[3] = d[3] /\ (m \o r)[3] = m[3]
      BY <3>1, PrefixLooksTheSame
    <3>. QED BY <3>2
  <2>. HIDE DEF t
  <2>3. Len(t) \in Nat
    BY <2>1
  <2>. QED BY <2>1, <2>2, <2>3
<1>3. DOMAIN d = 1 .. Len(d) /\ DOMAIN m = 1 .. Len(m) /\ DOMAIN t = 1 .. Len(t)
  BY <1>2, LenProperties
<1>4. SUFFICES /\ ParsedBody(m) = <<>> => Parse(t) = Parse(m)
               /\ ParsedBody(m) # <<>> =>
                    /\ ParsedBody(t) # <<>>
                    /\ IF HasPrompt(m) THEN ParsedBody(t)[1][1] = PROMPT
                                       ELSE ParsedBody(t)[1] = ParsedBody(m)[1]
  BY DEF InFront, Parse
<1>5. CASE m[3] = PROMPT
  <2>. HIDE DEF t
  <2>1. HasPrompt(m)
    BY <1>1, <1>3, <1>5 DEF HasPrompt, At
  <2>2. ASSUME NEW s \in {t, m}
        PROVE  ParsedBody(s) # <<>> /\ ParsedBody(s)[1] = Run(s, 3) /\ Run(s, 3)[1] = s[3]
    <3>1. s \in Seq(Char) /\ Len(s) \in Nat /\ Len(s) >= 3 /\ EolAt(s, 1) /\ s[3] = PROMPT
      BY <1>1, <1>2, <1>5, <2>2
    <3>2. ~FinalAt(s, 1)
      <4>1. PROMPT \notin Codes
        BY DEF Codes, PlainCodes, ErrorCodes, PROMPT
      <4>2. s[1 + 2] = PROMPT
        BY <3>1
      <4>. QED BY <4>1, <4>2 DEF FinalAt, CodeTried, At
    <3>3. TextEnd(s, 3) \in 3 .. Len(s) + 1 /\ TextEnd(s, 3) # 3
      <4>1. 3 \in 1 .. Len(s) + 1 /\ s[3] # CR /\ Len(s) + 1 # 3
        <5>1. s[3] # CR
          BY <3>1 DEF PROMPT, CR
        <5>2. ASSUME NEW l \in Nat, l >= 3 PROVE 3 \in 1 .. l + 1 /\ l + 1 # 3
          BY <5>2
        <5>. QED BY <3>1, <5>1, <5>2
      <4>. QED BY <3>1, <4>1, TextEndProperties
    <3>4. ParsedBody(s) # <<>> /\ ParsedBody(s)[1] = Run(s, 3)
      <4>1. TextEnd(s, 3) > 3
        BY <3>1, <3>3
      <4>. QED BY <3>1, <3>2, <4>1, FirstLine
    <3>5. Run(s, 3)[1] = s[3]
      <4>. DEFINE e == TextEnd(s, 3)
      <4>1. e - 1 \in 3 .. Len(s)
        BY <3>1, <3>3
      <4>. HIDE DEF e
      <4>2. SubSeq(s, 3, e - 1)[1] = s[3]
        BY <3>1, <4>1
      <4>. QED BY <4>2 DEF Run, e
    <3>. QED BY <3>4, <3>5
  <2>. QED BY <1>2, <1>5, <2>1, <2>2
<1>6. CASE m[3] # PROMPT
  <2>1. ~HasPrompt(m) /\ ~HasPrompt(d)
    BY <1>2, <1>6 DEF HasPrompt, At
  <2>2. CASE FinalAt(d, 1)
    <3>1. FinalAt(d \o y, 1)
      <4>1. 1 \in Nat \ {0}
        OBVIOUS
      <4>. QED BY <2>2, <4>1, FinalIsStable
    <3>2. FinalAt(m, 1)
      <4>1. SUFFICES ASSUME HasLines(m) PROVE FinalAt(m, 1)
        BY <2>1 DEF Matched
      <4>2. FinalAt(m \o r, 1) <=> FinalAt(m, 1)
        BY <4>1, FirstLineDecides
      <4>. QED BY <3>1, <4>2
    <3>3. Parse(d \o u) = Parse(d) /\ Parse(d \o y) = Parse(d)
      BY <2>2, CodeParseIsStable
    <3>4. Parse(m \o r) = Parse(m)
      BY <3>2, CodeParseIsStable
    <3>5. ParsedBody(m) = <<>>
      BY <3>2, FinalHasNoBody
    <3>. QED BY <3>3, <3>4, <3>5
  <2>3. CASE ~FinalAt(d, 1)
    <3>1. HasLines(d)
      BY <2>1, <2>3 DEF Matched
    <3>2. ~FinalAt(x, 1) /\ ~FinalAt(t, 1)
      BY <2>3, <3>1, FirstLineDecides
    <3>3. ~FinalAt(m, 1)
      <4>1. FinalAt(m, 1) => FinalAt(m \o r, 1)
        BY FinalIsStable
      <4>. QED BY <3>2, <4>1
    <3>4. HasLines(m)
      BY <2>1, <3>3 DEF Matched
    <3>5. ASSUME NEW s \in {d, m}, NEW v \in Seq(Char)
          PROVE  Run(s \o v, 3) = Run(s, 3) /\ TextEnd(s \o v, 3) = TextEnd(s, 3) /\ TextEnd(s, 3) > 3
      <4>1. s \in Seq(Char) /\ 3 \in 1 .. Len(s) + 1 /\ LineAt(s, 3)
        BY <1>1, <3>1, <3>4, <3>5 DEF HasLines
      <4>2. EolAt(s, TextEnd(s, 3)) /\ TextEnd(s, 3) > 3
        BY <4>1 DEF LineAt
      <4>. QED BY <4>1, <4>2, ClosedRunIsStable, ClosedRunIsTheSame
    <3>6. Run(t, 3) = Run(m, 3) /\ TextEnd(t, 3) > 3 /\ TextEnd(m, 3) > 3
      <4>1. Run(d \o u, 3) = Run(d, 3) /\ TextEnd(d \o u, 3) = TextEnd(d, 3) /\ TextEnd(d, 3) > 3
        BY <3>5
      <4>2. Run(d \o y, 3) = Run(d, 3)
        BY <3>5
      <4>3. Run(m \o r, 3) = Run(m, 3) /\ TextEnd(m, 3) > 3
        BY <3>5
      <4>. QED BY <4>1, <4>2, <4>3
    <3>. HIDE DEF t
    <3>7. ParsedBody(t) # <<>> /\ ParsedBody(t)[1] = Run(t, 3)
      BY <1>2, <3>2, <3>6, FirstLine
    <3>8. ParsedBody(m) # <<>> /\ ParsedBody(m)[1] = Run(m, 3)
      BY <1>1, <3>3, <3>6, FirstLine
    <3>. QED BY <2>1, <3>6, <3>7, <3>8
  <2>. QED BY <2>2, <2>3
<1>. QED BY <1>5, <1>6

\* Committing once more adds whatever the storage holds behind the data.
LEMMA CommitAdds ==
  ASSUME NEW b \in Buffers(Char), NEW n \in Nat
  PROVE  \E u \in Seq(Char) : Data(Commit(b, n)) = Data(b) \o u
<1>. DEFINE k == Least(n, Room(b))
            u == SubSeq(b.mem, b.p + 1, b.p + k)
<1>1. /\ b.g \in Nat /\ b.p \in Nat /\ Len(b.mem) \in Nat /\ b.mem \in Seq(Char)
      /\ b.g <= b.p /\ b.p <= Len(b.mem) /\ k \in Nat /\ b.p + k <= Len(b.mem)
  BY DEF Buffers, Room, Least
<1>2. Commit(b, n).mem = b.mem /\ Commit(b, n).g = b.g /\ Commit(b, n).p = b.p + k
  BY <1>1 DEF Commit, Buffers
<1>. HIDE DEF k
<1>3. u \in Seq(Char)
  <2>1. \A i \in b.p + 1 .. b.p + k : b.mem[i] \in Char
    BY <1>1
  <2>2. b.p + 1 \in Int /\ b.p + k \in Int
    BY <1>1
  <2>. QED BY <2>1, <2>2, SubSeqProperties
<1>4. SubSeq(b.mem, b.g + 1, b.p) \o SubSeq(b.mem, b.p + 1, b.p + k) = SubSeq(b.mem, b.g + 1, b.p + k)
  <2>1. b.g + 1 \in 1 .. Len(b.mem) + 1 /\ b.p \in (b.g + 1) - 1 .. Len(b.mem) /\ b.p + k \in b.p .. Len(b.mem)
    BY <1>1
  <2>. QED BY <1>1, <2>1, ConcatAdjacentSubSeq
<1>. QED BY <1>1, <1>2, <1>3, <1>4 DEF Data

\* The bytes ahead of the first read begin with the first message.
Begins(bytes) ==
  /\ sent = <<>> => bytes = <<>>
  /\ sent # <<>> => \E r \in Seq(Char) : bytes = sent[1] \o r

\* Until the first read is over, no byte was taken out of the buffer and the
\* response object is empty.
FirstRead ==
  got = <<>> =>
    /\ msg = NoMessage
    /\ Begins(Data(sb) \o line)
    /\ op.st = "idle" => Data(sb) = <<>>
    /\ op.st = "matched" => Matched(Data(sb))

FirstInv ==
  /\ Inv
  /\ ~use.fails => FirstRead /\ (got # <<>> => sent # <<>>) /\ FirstIsShown

LEMMA InitFirst == Init => FirstInv
<1>1. SUFFICES ASSUME Init PROVE FirstInv
  OBVIOUS
<1>2. Data(Fresh) = <<>> /\ <<>> \o <<>> = <<>>
  BY FreshProperties
<1>. QED BY <1>1, <1>2, InitInv DEF Init, FirstInv, FirstRead, FirstIsShown, Begins, Idle

\* What the modem sends comes behind what it has sent.
LEMMA FirstModemSends ==
  ASSUME FirstInv, ~use.fails, NEW m \in Messages, ModemSends(m)
  PROVE  FirstRead' /\ (got' # <<>> => sent' # <<>>) /\ FirstIsShown'
<1>1. /\ sb \in Buffers(Char) /\ line \in Seq(Char) /\ m \in Seq(Char) /\ sent \in Seq(Messages)
      /\ Data(sb) \in Seq(Char)
  BY ReaderAssumption, DataProperties DEF FirstInv, Inv, TypeOK
<1>2. /\ line' = line \o m /\ sent' = Append(sent, m) /\ UNCHANGED <<sb, op, msg, got>>
  BY DEF ModemSends
<1>3. /\ sent' # <<>>
      /\ sent # <<>> => sent'[1] = sent[1]
      /\ sent = <<>> => sent'[1] = m
  <2>1. sent # <<>> => 1 \in 1 .. Len(sent)
    BY <1>1, EmptySeq
  <2>2. sent = <<>> => Len(sent) + 1 = 1
    OBVIOUS
  <2>. QED BY <1>1, <1>2, <2>1, <2>2, AppendProperties
<1>4. ASSUME Begins(Data(sb) \o line) PROVE \E r \in Seq(Char) : (Data(sb) \o line) \o m = sent'[1] \o r
  <2>1. CASE sent = <<>>
    <3>1. <<>> \o m = m /\ m \o <<>> = m /\ <<>> \in Seq(Char)
      BY <1>1, ConcatEmptySeq
    <3>. QED BY <1>3, <1>4, <2>1, <3>1 DEF Begins
  <2>2. CASE sent # <<>>
    <3>1. PICK r \in Seq(Char) : Data(sb) \o line = sent[1] \o r
      BY <1>4, <2>2 DEF Begins
    <3>2. sent[1] \in Seq(Char)
      <4>1. 1 \in 1 .. Len(sent)
        BY <1>1, <2>2, EmptySeq
      <4>. QED BY <1>1, <4>1, ElementOfSeq, ReaderAssumption
    <3>3. (sent[1] \o r) \o m = sent[1] \o (r \o m) /\ r \o m \in Seq(Char)
      <4>. DEFINE f == sent[1]
      <4>1. f \in Seq(Char) /\ m \in Seq(Char)
        BY <1>1, <3>2
      <4>. HIDE DEF f
      <4>2. (f \o r) \o m = f \o (r \o m)
        BY <4>1, ConcatAssociative
      <4>3. r \o m \in Seq(Char)
        BY <4>1, ConcatProperties
      <4>. QED BY <4>2, <4>3 DEF f
    <3>. QED BY <1>3, <2>2, <3>1, <3>3
  <2>. QED BY <2>1, <2>2
<1>5. (Data(sb) \o line) \o m = Data(sb) \o (line \o m)
  BY <1>1, ConcatAssociative
<1>6. Begins(Data(sb) \o line) => Begins(Data(sb) \o line)'
  BY <1>2, <1>3, <1>4, <1>5 DEF Begins
<1>7. FirstRead'
  BY <1>2, <1>6 DEF FirstInv, FirstRead
<1>. QED BY <1>2, <1>3, <1>7 DEF FirstInv, FirstIsShown

\* A read that starts finds nothing, one that goes on finds what has come.
LEMMA FirstArrives ==
  ASSUME FirstInv, ~use.fails, StartRead \/ (\E n \in 1 .. Len(line) : Arrive(n)) \/ ReadFails
  PROVE  FirstRead' /\ (got' # <<>> => sent' # <<>>) /\ FirstIsShown'
<1>1. /\ sb \in Buffers(Char) /\ line \in Seq(Char) /\ Data(sb) \in Seq(Char)
      /\ UNCHANGED <<use, sent, got>>
  BY DataProperties DEF FirstInv, Inv, TypeOK, StartRead, Arrive, ReadFails
<1>2. (got' # <<>> => sent' # <<>>) /\ FirstIsShown'
  BY <1>1 DEF FirstInv, FirstIsShown
<1>3. SUFFICES ASSUME got = <<>> PROVE FirstRead'
  BY <1>1, <1>2 DEF FirstRead
<1>4. CASE StartRead
  <2>. DEFINE b == IF use.newBuffer THEN Fresh ELSE sb
  <2>1. b \in Buffers(Char) /\ Data(b) = <<>> /\ Data(sb) = <<>>
    BY <1>1, <1>3, <1>4, FreshProperties DEF StartRead, FirstInv, FirstRead
  <2>2. sb' = Search(b, Data(b)).sb /\ op' = Search(b, Data(b)).op /\ line' = line
    BY <1>4 DEF StartRead, SearchOn
  <2>3. msg' = NoMessage
    BY <1>3, <1>4 DEF StartRead, FirstInv, FirstRead
  <2>. HIDE DEF b
  <2>4. Data(sb') = <<>> /\ op'.st = "waiting"
    BY <2>1, <2>2, SearchProperties, Bytes, NothingIsNoMatch
  <2>. QED BY <1>1, <1>3, <2>1, <2>2, <2>3, <2>4 DEF FirstInv, FirstRead, Begins
<1>5. ASSUME NEW n \in 1 .. Len(line), Arrive(n) PROVE FirstRead'
  <2>. DEFINE b == Commit(Fill(sb, op.at, SubSeq(line, 1, n)), n)
              x == SubSeq(line, 1, n)
  <2>1. op.st = "waiting" /\ n \in 1 .. Least(op.n, Len(line))
    BY <1>5 DEF Arrive
  <2>2. /\ b \in Buffers(Char) /\ Data(b) = Data(sb) \o x
        /\ x \in Seq(Char) /\ line' \in Seq(Char) /\ x \o line' = line
    BY <1>5, <2>1, ArriveProperties DEF FirstInv, Inv, Arrive
  <2>3. sb' = Search(b, Data(b)).sb /\ op' = Search(b, Data(b)).op /\ msg' = msg
    BY <1>5 DEF Arrive, SearchOn
  <2>. HIDE DEF b, x
  <2>4. Data(sb') = Data(b) /\ op'.st = IF Matched(Data(b)) THEN "matched" ELSE "waiting"
    BY <2>2, <2>3, SearchProperties, Bytes
  <2>5. Data(sb') \o line' = Data(sb) \o line
    <3>1. Data(sb) \in Seq(Char) /\ x \in Seq(Char) /\ line' \in Seq(Char)
      BY <1>1, <2>2
    <3>2. (Data(sb) \o x) \o line' = Data(sb) \o (x \o line')
      BY <3>1, ConcatAssociative
    <3>. QED BY <2>2, <2>4, <3>2
  <2>. QED BY <1>1, <1>3, <2>3, <2>4, <2>5 DEF FirstInv, FirstRead, Begins
<1>. QED BY <1>4, <1>5 DEF ReadFails

\* The completion of the first read shows what stands in front.
LEMMA FirstCompletes ==
  ASSUME FirstInv, ~use.fails, Inv', ReadReturns \/ \E more \in BOOLEAN : HandlerRuns(more)
  PROVE  FirstRead' /\ (got' # <<>> => sent' # <<>>) /\ FirstIsShown'
<1>1. /\ op.st = "matched" /\ got' = Append(got, msg') /\ UNCHANGED <<use, sent, line>>
      /\ msg' = Populate(msg, Data(Commit(sb, op.rb)))
  BY DEF ReadReturns, HandlerRuns
<1>2. /\ sb \in Buffers(Char) /\ line \in Seq(Char) /\ Data(sb) \in Seq(Char) /\ op.rb \in Nat
      /\ got \in Seq(Response) /\ msg' \in Response /\ sent \in Seq(Messages)
  BY DataProperties DEF FirstInv, Inv, TypeOK
<1>3. got' # <<>> /\ (got # <<>> => got'[1] = got[1]) /\ (got = <<>> => got'[1] = msg')
  <2>1. got # <<>> => 1 \in 1 .. Len(got)
    BY <1>2, EmptySeq
  <2>2. got = <<>> => Len(got) + 1 = 1
    OBVIOUS
  <2>. QED BY <1>1, <1>2, <2>1, <2>2, AppendProperties
<1>4. FirstRead'
  BY <1>3 DEF FirstRead
<1>5. CASE got # <<>>
  BY <1>1, <1>3, <1>4, <1>5 DEF FirstInv, FirstIsShown
<1>6. CASE got = <<>>
  <2>1. Matched(Data(sb)) /\ Begins(Data(sb) \o line) /\ msg = NoMessage
    BY <1>1, <1>6 DEF FirstInv, FirstRead
  <2>2. sent # <<>>
    <3>1. SUFFICES ASSUME Data(sb) \o line = <<>> PROVE FALSE
      BY <2>1 DEF Begins
    <3>2. Len(Data(sb)) \in Nat /\ Len(line) \in Nat /\ Len(Data(sb) \o line) = 0
      BY <1>2, <3>1
    <3>3. MatchLen(Data(sb)) \in 3 .. Len(Data(sb))
      BY <1>2, <2>1, MatchLenProperties
    <3>. QED BY <1>2, <3>2, <3>3, ConcatProperties
  <2>3. PICK r \in Seq(Char) : Data(sb) \o line = sent[1] \o r
    BY <2>1, <2>2 DEF Begins
  <2>4. sent[1] \in Seq(Char)
    <3>1. 1 \in 1 .. Len(sent)
      BY <1>2, <2>2, EmptySeq
    <3>. QED BY <1>2, <3>1, ElementOfSeq, ReaderAssumption
  <2>5. PICK u \in Seq(Char) : Data(Commit(sb, op.rb)) = Data(sb) \o u
    BY <1>2, CommitAdds
  <2>6. msg' = Parse(Data(sb) \o u)
    <3>1. Data(sb) \o u \in Seq(Char)
      BY <1>2, ConcatProperties
    <3>. DEFINE s == Data(sb) \o u
    <3>2. ParsedText(s) \in Seq(Char) /\ ParsedBody(s) \in Seq(Seq(Char))
      BY <3>1, ParsedTextType, ParsedBodyType
    <3>. HIDE DEF s
    <3>3. <<>> \o ParsedText(s) = ParsedText(s) /\ <<>> \o ParsedBody(s) = ParsedBody(s)
      BY <3>2, ConcatEmptySeq
    <3>4. Populate(NoMessage, s) = Parse(s)
      BY <3>3 DEF Populate, Parse, NoMessage
    <3>. QED BY <1>1, <2>1, <2>5, <3>4 DEF s
  <2>7. Matched(sent[1]) => InFront(msg', sent[1])
    BY <1>2, <2>1, <2>3, <2>4, <2>6, SameFront
  <2>. QED BY <1>1, <1>3, <1>4, <1>6, <2>2, <2>7 DEF FirstIsShown
<1>. QED BY <1>5, <1>6

\* What the first read shows has the first message in front, for every client,
\* all messages and every way the line cuts and joins them, if no read fails:
\* what a failed read has taken of a message is lost to the next one.
THEOREM FirstReadShows == Spec => []FirstIsShown
<1>1. FirstInv /\ [Next]_vars => FirstInv'
  <2>1. SUFFICES ASSUME FirstInv, [Next]_vars PROVE FirstInv'
    OBVIOUS
  <2>2. Inv' /\ use' = use
    BY <2>1, NextInv DEF FirstInv, Next, vars, ModemSends, StartRead, Arrive, ReadFails, ReadReturns, HandlerRuns
  <2>3. SUFFICES ASSUME ~use.fails PROVE FirstRead' /\ (got' # <<>> => sent' # <<>>) /\ FirstIsShown'
    BY <2>2 DEF FirstInv
  <2>4. ASSUME NEW m \in Messages, ModemSends(m) PROVE FirstRead' /\ (got' # <<>> => sent' # <<>>) /\ FirstIsShown'
    BY <2>1, <2>3, <2>4, FirstModemSends
  <2>5. CASE StartRead \/ (\E n \in 1 .. Len(line) : Arrive(n)) \/ ReadFails
    BY <2>1, <2>3, <2>5, FirstArrives
  <2>6. CASE ReadReturns \/ \E more \in BOOLEAN : HandlerRuns(more)
    BY <2>1, <2>2, <2>3, <2>6, FirstCompletes
  <2>7. CASE UNCHANGED vars
    BY <2>1, <2>3, <2>7 DEF vars, FirstInv, FirstRead, Begins, FirstIsShown
  <2>. QED BY <2>1, <2>4, <2>5, <2>6, <2>7 DEF Next
<1>2. FirstInv => FirstIsShown
  BY DEF FirstInv, FirstIsShown
<1>. QED BY <1>1, <1>2, InitFirst, PTL DEF Spec
=============================================================================
