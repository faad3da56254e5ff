---------------------------- MODULE ReadOpsProofs ----------------------------
(***************************************************************************)
(* Lemmas about the stream buffer and about one read of a response, for    *)
(* buffers over any set of bytes.  The operations keep a buffer a buffer;  *)
(* prepare, commit and consume do to the input sequence what their names   *)
(* say as long as nothing is clipped; searching keeps the data, and what   *)
(* is parsed is made of the data.  They serve the reader and the           *)
(* subcommands.                                                            *)
(***************************************************************************)
EXTENDS ReadOps, AtGrammarProofs

\* A function on an initial segment of the naturals is a sequence.
LEMMA FunctionIsSeq ==
  ASSUME NEW S, NEW n \in Nat, NEW f \in [1 .. n -> S]
  PROVE  f \in Seq(S) /\ Len(f) = n
OBVIOUS

\* The input sequence is made of bytes of the storage, in their order.
LEMMA DataProperties ==
  ASSUME NEW Bytes, NEW b \in Buffers(Bytes)
  PROVE  /\ Data(b) \in Seq(Bytes)
         /\ Size(b) \in Nat
         /\ Len(Data(b)) = Size(b)
         /\ \A i \in 1 .. Size(b) : Data(b)[i] = b.mem[b.g + i]
<1>1. b.g \in Nat /\ b.p \in Nat /\ b.g <= b.p /\ b.p <= Len(b.mem) /\ b.mem \in Seq(Bytes)
  BY DEF Buffers
<1>2. \A i \in b.g + 1 .. b.p : b.mem[i] \in Bytes
  BY <1>1, ElementOfSeq
<1>3. /\ Data(b) \in Seq(Bytes)
      /\ Len(Data(b)) = IF b.g + 1 <= b.p THEN b.p - (b.g + 1) + 1 ELSE 0
      /\ \A i \in 1 .. b.p - (b.g + 1) + 1 : Data(b)[i] = b.mem[b.g + 1 + i - 1]
  <2>1. b.g + 1 \in Int /\ b.p \in Int
    BY <1>1
  <2>. QED BY <1>2, <2>1, SubSeqProperties DEF Data
<1>4. Size(b) \in Nat /\ Len(Data(b)) = Size(b)
  BY <1>1, <1>3 DEF Size
<1>5. ASSUME NEW i \in 1 .. Size(b) PROVE Data(b)[i] = b.mem[b.g + i]
  <2>1. i \in 1 .. b.p - (b.g + 1) + 1 /\ b.g + 1 + i - 1 = b.g + i
    BY <1>1 DEF Size
  <2>. QED BY <1>3, <2>1
<1>. QED BY <1>3, <1>4, <1>5

\* A new buffer is a buffer, and empty.
LEMMA FreshProperties ==
  ASSUME NEW Bytes
  PROVE  Fresh \in Buffers(Bytes) /\ Data(Fresh) = <<>>
BY DEF Fresh, Buffers, Data

\* prepare makes room and keeps the input sequence, wherever it moves it.
LEMMA PrepareProperties ==
  ASSUME NEW Bytes, Zero \in Bytes, NEW b \in Buffers(Bytes), NEW n \in Nat
  PROVE  /\ Prepare(b, n) \in Buffers(Bytes)
         /\ Data(Prepare(b, n)) = Data(b)
         /\ Size(Prepare(b, n)) = Size(b)
         /\ n <= Room(Prepare(b, n))
<1>. DEFINE q == Prepare(b, n)
            L == Greatest(Len(b.mem), Size(b) + n)
            m == [i \in 1 .. L |-> IF i <= Size(b) THEN b.mem[b.g + i]
                                   ELSE IF i <= Len(b.mem) THEN b.mem[i] ELSE Zero]
<1>1. /\ b.g \in Nat /\ b.p \in Nat /\ b.g <= b.p /\ b.p <= Len(b.mem)
      /\ b.mem \in Seq(Bytes) /\ Len(b.mem) \in Nat
      /\ b = [mem |-> b.mem, g |-> b.g, p |-> b.p]
  BY DEF Buffers
<1>2. CASE n <= Room(b)
  BY <1>1, <1>2 DEF Prepare
<1>3. CASE ~(n <= Room(b))
  <2>1. q = [mem |-> m, g |-> 0, p |-> Size(b)]
    BY <1>3 DEF Prepare
  <2>2. L \in Nat /\ Size(b) \in Nat /\ Size(b) + n <= L
    BY <1>1 DEF Size, Greatest
  <2>3. \A i \in 1 .. L : m[i] \in Bytes
    <3>. SUFFICES ASSUME NEW i \in 1 .. L PROVE m[i] \in Bytes
      OBVIOUS
    <3>1. CASE i <= Size(b)
      <4>1. b.g + i \in 1 .. Len(b.mem)
        BY <1>1, <3>1 DEF Size
      <4>2. b.mem[b.g + i] \in Bytes
        BY <1>1, <4>1, ElementOfSeq
      <4>. QED BY <3>1, <4>2
    <3>2. CASE i > Size(b) /\ i <= Len(b.mem)
      <4>1. b.mem[i] \in Bytes
        BY <1>1, <3>2, <2>2, ElementOfSeq
      <4>2. ~(i <= Size(b))
        BY <3>2, <2>2
      <4>. QED BY <3>2, <4>1, <4>2
    <3>3. CASE ~(i <= Size(b)) /\ ~(i <= Len(b.mem))
      BY <3>3
    <3>4. ~(i <= Size(b)) => i > Size(b)
      BY <2>2
    <3>. QED BY <3>1, <3>2, <3>3, <3>4
  <2>4. m \in Seq(Bytes) /\ Len(m) = L
    <3>1. m \in [1 .. L -> Bytes]
      BY <2>3
    <3>. HIDE DEF m, L
    <3>. QED BY <3>1, <2>2, FunctionIsSeq
  <2>5. q \in Buffers(Bytes)
    BY <2>1, <2>2, <2>4 DEF Buffers
  <2>6. Size(q) = Size(b) /\ n <= Room(q)
    BY <2>1, <2>2, <2>4 DEF Size, Room
  <2>7. \A i \in 1 .. Size(b) : Data(q)[i] = Data(b)[i]
    <3>. SUFFICES ASSUME NEW i \in 1 .. Size(b) PROVE Data(q)[i] = Data(b)[i]
      OBVIOUS
    <3>1. Data(q)[i] = m[i]
      <4>1. Data(q)[i] = q.mem[q.g + i]
        BY <2>5, <2>6, DataProperties
      <4>. QED BY <2>1, <2>2, <4>1
    <3>2. m[i] = b.mem[b.g + i]
      BY <2>2
    <3>. QED BY <3>1, <3>2, DataProperties
  <2>8. Data(q) = Data(b)
    BY <2>5, <2>6, <2>7, DataProperties, SeqEqual
  <2>. QED BY <2>5, <2>6, <2>8
<1>. QED BY <1>2, <1>3

\* commit and consume move the ends of the input sequence and stay inside the
\* storage, whatever count they are given.
LEMMA CommitProperties ==
  ASSUME NEW Bytes, NEW b \in Buffers(Bytes), NEW n \in Nat
  PROVE  /\ Commit(b, n) \in Buffers(Bytes)
         /\ Commit(b, n).mem = b.mem /\ Commit(b, n).g = b.g
         /\ n <= Room(b) => Commit(b, n).p = b.p + n
BY DEF Commit, Buffers, Least, Room

\* consume moves the read position, at most to the write position.
LEMMA ConsumeProperties ==
  ASSUME NEW Bytes, NEW b \in Buffers(Bytes), NEW n \in Nat
  PROVE  /\ Consume(b, n) \in Buffers(Bytes)
         /\ Consume(b, n).mem = b.mem /\ Consume(b, n).p = b.p
         /\ n <= Size(b) => Consume(b, n).g = b.g + n
<1>1. /\ b.g \in Nat /\ b.p \in Nat /\ b.g <= b.p /\ b.p <= Len(b.mem)
      /\ b = [mem |-> b.mem, g |-> b.g, p |-> b.p] /\ b.mem \in Seq(Bytes)
  BY DEF Buffers
<1>2. /\ Least(n, Size(b)) \in Nat /\ b.g + Least(n, Size(b)) <= b.p
      /\ n <= Size(b) => Least(n, Size(b)) = n
  BY <1>1 DEF Least, Size
<1>3. Consume(b, n) = [mem |-> b.mem, g |-> b.g + Least(n, Size(b)), p |-> b.p]
  BY <1>1 DEF Consume
<1>. QED BY <1>1, <1>2, <1>3 DEF Buffers

\* A device that writes bytes cs where the input sequence ends, committed,
\* appends them to it.
LEMMA FillCommitProperties ==
  ASSUME NEW Bytes, NEW b \in Buffers(Bytes), NEW cs \in Seq(Bytes), Len(cs) <= Room(b)
  PROVE  LET c == Commit(Fill(b, b.p, cs), Len(cs)) IN
         /\ c \in Buffers(Bytes)
         /\ Data(c) = Data(b) \o cs
         /\ Size(c) = Size(b) + Len(cs)
<1>. DEFINE f == Fill(b, b.p, cs)
            c == Commit(f, Len(cs))
            L == Len(b.mem)
            m == [i \in 1 .. L |-> IF i > b.p /\ i <= b.p + Len(cs) THEN cs[i - b.p] ELSE b.mem[i]]
<1>1. /\ b.g \in Nat /\ b.p \in Nat /\ b.g <= b.p /\ b.p <= L
      /\ b.mem \in Seq(Bytes) /\ L \in Nat /\ Len(cs) \in Nat
  BY DEF Buffers
<1>2. \A i \in 1 .. L : m[i] \in Bytes
  <2>. SUFFICES ASSUME NEW i \in 1 .. L PROVE m[i] \in Bytes
    OBVIOUS
  <2>1. CASE i > b.p /\ i <= b.p + Len(cs)
    <3>1. i - b.p \in 1 .. Len(cs)
      BY <1>1, <2>1
    <3>2. cs[i - b.p] \in Bytes
      BY <3>1, ElementOfSeq
    <3>. QED BY <2>1, <3>2
  <2>2. CASE ~(i > b.p /\ i <= b.p + Len(cs))
    <3>1. b.mem[i] \in Bytes
      BY <1>1, ElementOfSeq
    <3>. QED BY <2>2, <3>1
  <2>. QED BY <2>1, <2>2
<1>3. m \in Seq(Bytes) /\ Len(m) = L
  <2>1. m \in [1 .. L -> Bytes]
    BY <1>2
  <2>. HIDE DEF m
  <2>. QED BY <1>1, <2>1, FunctionIsSeq
<1>4. f \in Buffers(Bytes) /\ f.mem = m /\ f.g = b.g /\ f.p = b.p
  BY <1>1, <1>3 DEF Fill, Buffers
<1>5. c \in Buffers(Bytes) /\ c.mem = m /\ c.g = b.g /\ c.p = b.p + Len(cs)
  <2>1. Len(cs) <= Room(f)
    BY <1>1, <1>3, <1>4 DEF Room
  <2>2. Len(cs) \in Nat
    BY <1>1
  <2>. HIDE DEF f, m
  <2>3. /\ Commit(f, Len(cs)) \in Buffers(Bytes)
        /\ Commit(f, Len(cs)).mem = f.mem /\ Commit(f, Len(cs)).g = f.g
        /\ Commit(f, Len(cs)).p = f.p + Len(cs)
    BY <1>4, <2>1, <2>2, CommitProperties
  <2>. QED BY <1>4, <2>3
<1>6. Size(c) = Size(b) + Len(cs)
  BY <1>1, <1>5 DEF Size
<1>7. Data(b) \o cs \in Seq(Bytes) /\ Len(Data(b) \o cs) = Size(c)
  <2>1. Data(b) \in Seq(Bytes) /\ Len(Data(b)) = Size(b)
    BY DataProperties
  <2>. HIDE DEF c
  <2>. QED BY <1>6, <2>1, ConcatProperties
<1>8. ASSUME NEW i \in 1 .. Size(c) PROVE Data(c)[i] = (Data(b) \o cs)[i]
  <2>1. Data(c)[i] = m[b.g + i]
    BY <1>5, DataProperties
  <2>2. b.g + i \in 1 .. L
    BY <1>1, <1>3, <1>5 DEF Size, Buffers
  <2>3. (Data(b) \o cs)[i] = IF i <= Size(b) THEN Data(b)[i] ELSE cs[i - Size(b)]
    <3>1. i \in 1 .. Len(Data(b)) + Len(cs)
      BY <1>6, DataProperties
    <3>. QED BY <3>1, DataProperties, ConcatProperties
  <2>4. CASE i <= Size(b)
    <3>1. m[b.g + i] = b.mem[b.g + i]
      BY <1>1, <2>2, <2>4 DEF Size
    <3>2. i \in 1 .. Size(b)
      BY <2>4, <1>1 DEF Size
    <3>. QED BY <2>1, <2>3, <2>4, <3>1, <3>2, DataProperties
  <2>5. CASE ~(i <= Size(b))
    <3>1. Size(c) = Size(b) + Len(cs) /\ Size(b) \in Nat
      BY <1>6, DataProperties
    <3>2. /\ b.g + i > b.p /\ b.g + i <= b.p + Len(cs)
          /\ (b.g + i) - b.p = i - Size(b)
      <4>. HIDE DEF c
      <4>. QED BY <1>1, <2>5, <3>1 DEF Size
    <3>3. m[b.g + i] = cs[i - Size(b)]
      <4>. DEFINE j == b.g + i
      <4>1. j \in 1 .. L /\ j > b.p /\ j <= b.p + Len(cs)
        BY <2>2, <3>2
      <4>2. m[j] = cs[j - b.p]
        <5>. HIDE DEF j
        <5>. QED BY <4>1
      <4>3. b.g + i = j /\ i - Size(b) = j - b.p
        <5>. HIDE DEF c
        <5>. QED BY <3>2, Zenon
      <4>. QED BY <4>2, <4>3, Zenon
    <3>. HIDE DEF c, m
    <3>. QED BY <2>1, <2>3, <2>5, <3>3
  <2>. QED BY <2>4, <2>5
<1>9. Data(c) = Data(b) \o cs
  <2>1. Data(c) \in Seq(Bytes) /\ Len(Data(c)) = Size(c)
    BY <1>5, DataProperties
  <2>. QED BY <1>7, <1>8, <2>1, SeqEqual
<1>. QED BY <1>5, <1>6, <1>9

-----------------------------------------------------------------------------
OpType == [st : {"idle", "waiting", "matched"}, rb : Nat, at : Nat, n : Nat]

\* Searching a buffer keeps its data; it either reports a response at the
\* front of the data or leaves a read waiting on room that is really there.
LEMMA SearchProperties ==
  ASSUME NEW S, Zero \in S, NEW b \in Buffers(S)
  PROVE  /\ Search(b, Data(b)).sb \in Buffers(S)
         /\ Data(Search(b, Data(b)).sb) = Data(b)
         /\ Search(b, Data(b)).op \in OpType
         /\ Search(b, Data(b)).op.st = (IF Matched(Data(b)) THEN "matched" ELSE "waiting")
         /\ Search(b, Data(b)).op.st = "waiting" =>
              Search(b, Data(b)).op.at = Search(b, Data(b)).sb.p /\ Search(b, Data(b)).op.n \in Window .. Room(Search(b, Data(b)).sb)
<1>1. CASE Matched(Data(b))
  <2>1. Search(b, Data(b)) = [sb |-> b, op |-> [st |-> "matched", rb |-> MatchLen(Data(b)), at |-> 0, n |-> 0]]
    BY <1>1 DEF Search
  <2>2. MatchLen(Data(b)) \in Nat
    BY <1>1, DataProperties, MatchLenProperties
  <2>. QED BY <1>1, <2>1, <2>2 DEF OpType
<1>2. CASE ~Matched(Data(b))
  <2>. DEFINE q == Prepare(b, ReadSize(b))
  <2>1. Search(b, Data(b)) = [sb |-> q, op |-> [st |-> "waiting", rb |-> 0, at |-> q.p, n |-> ReadSize(b)]]
    BY <1>2 DEF Search, Prepared
  <2>2. ReadSize(b) \in Nat /\ ReadSize(b) >= Window
    BY WindowAssumption, DataProperties DEF ReadSize, Greatest, Buffers
  <2>3. q \in Buffers(S) /\ Data(q) = Data(b) /\ ReadSize(b) <= Room(q)
    BY <2>2, PrepareProperties
  <2>4. q.p \in Nat /\ Room(q) \in Nat
    BY <2>3 DEF Buffers, Room
  <2>. HIDE DEF q
  <2>. QED BY <1>2, <2>1, <2>2, <2>3, <2>4, WindowAssumption DEF OpType
<1>. QED BY <1>1, <1>2

\* Whatever the buffer holds, what populate_response_from_buffer makes of it is
\* a response.
LEMMA PopulateType ==
  ASSUME NEW b \in Buffers(Char), NEW m \in Response
  PROVE  Populate(m, Data(b)) \in Response
<1>. DEFINE d == Data(b)
<1>1. d \in Seq(Char)
  BY DataProperties
<1>. HIDE DEF d
<1>2. ParsedCode(d) \in Codes \cup {None} /\ ParsedText(d) \in Seq(Char) /\ ParsedBody(d) \in Seq(Seq(Char))
  BY <1>1, ParsedCodeType, ParsedTextType, ParsedBodyType
<1>3. m.text \in Seq(Char) /\ m.body \in Seq(Seq(Char))
  BY DEF Response
<1>4. m.text \o ParsedText(d) \in Seq(Char) /\ m.body \o ParsedBody(d) \in Seq(Seq(Char))
  BY <1>2, <1>3, ConcatProperties
<1>. QED BY <1>2, <1>4 DEF Populate, Parse, Response, d

\* ... and its lines have no bytes but those of the buffer and of the lines
\* that were there.
LEMMA PopulateBody ==
  ASSUME NEW S, NEW b \in Buffers(S), NEW m, m.body \in Seq(Seq(S))
  PROVE  Populate(m, Data(b)).body \in Seq(Seq(S))
<1>. DEFINE d == Data(b)
<1>1. d \in Seq(S)
  BY DataProperties
<1>. HIDE DEF d
<1>2. ParsedBody(d) \in Seq(Seq(S))
  BY <1>1, ParsedBodyType
<1>3. m.body \o ParsedBody(d) \in Seq(Seq(S))
  BY <1>2, ConcatProperties
<1>. QED BY <1>3 DEF Populate, Parse, d

\* Committing bytes that were written anywhere into the storage, or were there.
LEMMA FillCommitType ==
  ASSUME NEW S, NEW b \in Buffers(S), NEW at \in Nat, NEW cs \in Seq(S), NEW n \in Nat
  PROVE  Fill(b, at, cs) \in Buffers(S) /\ Commit(Fill(b, at, cs), n) \in Buffers(S)
<1>. DEFINE L == Len(b.mem)
            m == [i \in 1 .. L |-> IF i > at /\ i <= at + Len(cs) THEN cs[i - at] ELSE b.mem[i]]
<1>1. /\ b.g \in Nat /\ b.p \in Nat /\ b.g <= b.p /\ b.p <= L
      /\ b.mem \in Seq(S) /\ L \in Nat /\ Len(cs) \in Nat
  BY DEF Buffers
<1>2. ASSUME NEW i \in 1 .. L PROVE m[i] \in S
  <2>1. CASE i > at /\ i <= at + Len(cs)
    <3>1. i - at \in 1 .. Len(cs)
      BY <1>1, <2>1
    <3>2. cs[i - at] \in S
      BY <3>1, ElementOfSeq
    <3>. QED BY <2>1, <3>2
  <2>2. CASE ~(i > at /\ i <= at + Len(cs))
    <3>1. b.mem[i] \in S
      BY <1>1, ElementOfSeq
    <3>. QED BY <2>2, <3>1
  <2>. QED BY <2>1, <2>2
<1>3. m \in Seq(S) /\ Len(m) = L
  <2>1. m \in [1 .. L -> S]
    BY <1>2
  <2>. HIDE DEF m
  <2>. QED BY <1>1, <2>1, FunctionIsSeq
<1>4. Fill(b, at, cs) \in Buffers(S)
  BY <1>1, <1>3 DEF Fill, Buffers
<1>. QED BY <1>4, CommitProperties
=============================================================================
