---------------------------- MODULE AtWriterProofs ----------------------------
(***************************************************************************)
(* Proofs about AtWriter: a write is safe as long as no byte is read from  *)
(* the string after the function that owns it has returned.                *)
(***************************************************************************)
EXTENDS AtWriter, TLAPS

\* No asynchronous write, or none the device does not take at once.
SafeUse == "async" \notin Ways \/ Roomy

Bytes == UNION {{string[i] : i \in DOMAIN string} : string \in Outgoing} \cup {Junk}

Completion == [ok : BOOLEAN, of : Seq(Bytes), bytes : Seq(Bytes)]

\* The inductive invariant: what was taken is a prefix of the string, and
\* while a write is in progress either the string exists or all was taken.
Inv ==
  /\ s \in Seq(Bytes)
  /\ alive \in BOOLEAN
  /\ taken \in Seq(Bytes)
  /\ st \in {"idle", "writing"}
  /\ report \in Seq(Completion)
  /\ Len(taken) <= Len(s)
  /\ taken = SubSeq(s, 1, Len(taken))
  /\ st = "writing" => alive \/ Len(taken) = Len(s)
  /\ OnlyTheRequest

\* A prefix grown by the bytes that follow it is a prefix.
LEMMA PrefixGrows ==
  ASSUME NEW S, NEW q \in Seq(S), NEW k \in 0 .. Len(q), NEW n \in 1 .. Len(q) - k
  PROVE  /\ SubSeq(q, 1, k) \o SubSeq(q, k + 1, k + n) = SubSeq(q, 1, k + n)
         /\ Len(SubSeq(q, 1, k + n)) = k + n
  OBVIOUS

\* A string to be written is a sequence of bytes.
LEMMA OutgoingType ==
  ASSUME NEW string \in Outgoing, Outgoing \subseteq Seq(Bytes)
  PROVE  string \in Seq(Bytes)
  OBVIOUS

\* One more completion keeps the history right if the completion is right.
LEMMA ReportGrows ==
  ASSUME report \in Seq(Completion), OnlyTheRequest,
         NEW r \in Completion, report' = Append(report, r),
         r.bytes = SubSeq(r.of, 1, Len(r.bytes)),
         r.ok => r.bytes = r.of
  PROVE  report' \in Seq(Completion) /\ OnlyTheRequest'
<1>1. report' \in Seq(Completion) OBVIOUS
<1>2. ASSUME NEW k \in DOMAIN report'
      PROVE  /\ report'[k].bytes = SubSeq(report'[k].of, 1, Len(report'[k].bytes))
             /\ report'[k].ok => report'[k].bytes = report'[k].of
  <2>1. CASE k = Len(report) + 1
    <3>1. report'[k] = r BY <2>1
    <3>. QED BY <3>1
  <2>2. CASE k \in DOMAIN report
    <3>1. report'[k] = report[k] BY <2>2
    <3>. QED BY <2>2, <3>1 DEF OnlyTheRequest
  <2>. QED BY <2>1, <2>2
<1>. QED BY <1>1, <1>2 DEF OnlyTheRequest

\* Every step keeps the invariant.
LEMMA NextInv ==
  ASSUME SafeUse, Outgoing \subseteq Seq(Bytes), Inv, [Next]_vars
  PROVE  Inv'
<1>1. ASSUME NEW string \in Outgoing, WriteStarts(string)
      PROVE  Inv'
  BY <1>1, OutgoingType DEF WriteStarts, Inv, OnlyTheRequest
<1>2. ASSUME NEW string \in Outgoing, AsyncWriteStarts(string)
      PROVE  Inv'
  <2>1. Roomy BY <1>2 DEF SafeUse, AsyncWriteStarts
  <2>2. string \in Seq(Bytes) BY OutgoingType
  <2>3. taken' = SubSeq(string, 1, Len(string)) /\ s' = string
    BY <1>2, <2>1 DEF AsyncWriteStarts
  <2>4. taken' = string BY <2>2, <2>3
  <2>5. taken' = SubSeq(s', 1, Len(taken')) /\ Len(taken') = Len(s')
    BY <2>2, <2>3, <2>4
  <2>6. OnlyTheRequest' BY <1>2 DEF AsyncWriteStarts, Inv, OnlyTheRequest
  <2>7. alive' = FALSE /\ st' = "writing" /\ report' = report
    BY <1>2 DEF AsyncWriteStarts
  <2>8. s' \in Seq(Bytes) /\ taken' \in Seq(Bytes) BY <2>2, <2>3, <2>4
  <2>9. Len(taken') <= Len(s') BY <2>8, <2>5
  <2>10. report' \in Seq(Completion) BY <2>7 DEF Inv
  <2>. QED BY <2>5, <2>6, <2>7, <2>8, <2>9, <2>10 DEF Inv
<1>3. ASSUME NEW n \in 1 .. Len(s), DeviceTakes(n)
      PROVE  Inv'
  <2>1. alive BY <1>3 DEF DeviceTakes, Inv
  <2>2. taken' = taken \o SubSeq(s, Len(taken) + 1, Len(taken) + n)
    BY <1>3, <2>1 DEF DeviceTakes, Memory
  <2>3. Len(taken) \in 0 .. Len(s) /\ n \in 1 .. Len(s) - Len(taken)
    BY <1>3 DEF DeviceTakes, Inv
  <2>4. taken' = SubSeq(s, 1, Len(taken) + n) /\ Len(taken') = Len(taken) + n
    BY <2>2, <2>3, PrefixGrows DEF Inv
  <2>. QED BY <1>3, <2>1, <2>3, <2>4 DEF DeviceTakes, Inv, OnlyTheRequest
<1>4. ASSUME NEW ok \in BOOLEAN, Completes(ok)
      PROVE  Inv'
  <2> DEFINE r == [ok |-> ok, of |-> s, bytes |-> taken]
  <2>1. r \in Completion /\ report' = Append(report, r)
    BY <1>4 DEF Completes, Inv, Completion
  <2>2. ok => taken = s BY <1>4 DEF Completes, Inv
  <2>3. report' \in Seq(Completion) /\ OnlyTheRequest'
    BY <2>1, <2>2, ReportGrows DEF Inv
  <2>. QED BY <1>4, <2>3 DEF Completes, Inv
<1>5. CASE UNCHANGED vars
  BY <1>5 DEF vars, Inv, OnlyTheRequest
<1>. QED BY <1>1, <1>2, <1>3, <1>4, <1>5 DEF Next

\* A write that completes without an error has put its request on the line,
\* provided the device takes an asynchronous write at once: the hazard of
\* write.hpp:209-212 is a device that has no room for all of it.
THEOREM WritesTheRequest ==
  ASSUME SafeUse, Outgoing \subseteq Seq(Bytes)
  PROVE  Spec => []OnlyTheRequest
<1>1. ASSUME Init PROVE Inv
  <2>1. s = <<>> /\ taken = <<>> /\ report = <<>> BY <1>1 DEF Init
  <2>2. taken = SubSeq(s, 1, Len(taken)) /\ Len(taken) <= Len(s) BY <2>1
  <2>3. s \in Seq(Bytes) /\ taken \in Seq(Bytes) /\ report \in Seq(Completion) BY <2>1
  <2>4. OnlyTheRequest
    <3>1. DOMAIN report = {} BY <2>1
    <3>. QED BY <3>1 DEF OnlyTheRequest
  <2>. QED BY <1>1, <2>2, <2>3, <2>4 DEF Init, Inv
<1>2. Inv /\ [Next]_vars => Inv' BY NextInv
<1>3. Inv => OnlyTheRequest BY DEF Inv
<1>. QED BY <1>1, <1>2, <1>3, PTL DEF Spec
=============================================================================
