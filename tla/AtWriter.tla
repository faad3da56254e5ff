------------------------------- MODULE AtWriter -------------------------------
(***************************************************************************)
(* The writer (lib/include/write.hpp): write, async_write and              *)
(* async_write_text turn their argument into a string of their own and     *)
(* hand asio a view of it.  The device takes the bytes piece by piece.     *)
(*                                                                         *)
(* write returns when all were taken.  The asynchronous functions return   *)
(* after the device took what it had room for, and the string dies with    *)
(* them: what the device takes after that is read from freed memory, which *)
(* may still hold the bytes or anything else (Junk).                       *)
(***************************************************************************)
EXTENDS Requests, Naturals

CONSTANTS
  Outgoing,     \* the strings a caller may have written
  MaxWrites,    \* bound: how many it has written
  Ways,         \* "sync": write, "async": async_write and async_write_text
  Roomy,        \* the device has room for all of a string when a write starts
  Junk,         \* a byte of reused memory
  Faults        \* the device may fail

ASSUME WriterAssumption ==
  MaxWrites \in Nat /\ Ways \subseteq {"sync", "async"} /\ {Roomy, Faults} \subseteq BOOLEAN

VARIABLES
  s,        \* the string, as it was when the write began
  alive,    \* whether it still exists
  taken,    \* what the device took of this write
  st,       \* "idle" or "writing"
  report    \* history: how each write completed, and what the device took

vars == <<s, alive, taken, st, report>>

Init ==
  /\ s = <<>>
  /\ alive = FALSE
  /\ taken = <<>>
  /\ st = "idle"
  /\ report = <<>>

\* What n bytes from offset k of the string's memory may be.
Memory(k, n) ==
  {SubSeq(s, k + 1, k + n)} \cup (IF alive THEN {} ELSE {[i \in 1 .. n |-> Junk]})

\* Mutated form: the string is gone when the device takes it.
WriteStartsFreed(string) ==
  /\ "sync" \in Ways
  /\ st = "idle"
  /\ Len(report) < MaxWrites
  /\ s' = string
  /\ alive' = FALSE
  /\ taken' = <<>>
  /\ st' = "writing"
  /\ UNCHANGED report

WriteStarts(string) ==
  /\ "sync" \in Ways
  /\ st = "idle"
  /\ Len(report) < MaxWrites
  /\ s' = string
  /\ alive' = TRUE
  /\ taken' = <<>>
  /\ st' = "writing"
  /\ UNCHANGED report

\* The first piece is taken before async_write returns and s is destroyed.
AsyncWriteStarts(string) ==
  /\ "async" \in Ways
  /\ st = "idle"
  /\ Len(report) < MaxWrites
  /\ s' = string
  /\ alive' = FALSE
  /\ \E n \in 0 .. Len(string) :
       (Roomy => n = Len(string)) /\ taken' = SubSeq(string, 1, n)
  /\ st' = "writing"
  /\ UNCHANGED report

DeviceTakes(n) ==
  /\ st = "writing"
  /\ n \in 1 .. Len(s) - Len(taken)
  /\ \E bytes \in Memory(Len(taken), n) : taken' = taken \o bytes
  /\ UNCHANGED <<s, alive, st, report>>

\* The error code and bytes_transferred reach the caller or the handler.
Completes(ok) ==
  /\ st = "writing"
  /\ IF ok THEN Len(taken) = Len(s) ELSE Faults /\ Len(taken) < Len(s)
  /\ report' = Append(report, [ok |-> ok, of |-> s, bytes |-> taken])
  /\ alive' = FALSE
  /\ st' = "idle"
  /\ UNCHANGED <<s, taken>>

Next ==
  \/ \E string \in Outgoing : WriteStarts(string) \/ AsyncWriteStarts(string)
  \/ \E n \in 1 .. Len(s) : DeviceTakes(n)
  \/ \E ok \in BOOLEAN : Completes(ok)

Spec == Init /\ [][Next]_vars

-----------------------------------------------------------------------------
\* "All of the data in the supplied request has been written" (write.hpp:167,
\* :224): a write that completes without an error has put the bytes of its
\* request on the line, those and no others; one that fails, some of them.
OnlyTheRequest ==
  \A k \in DOMAIN report :
    /\ report[k].bytes = SubSeq(report[k].of, 1, Len(report[k].bytes))
    /\ report[k].ok => report[k].bytes = report[k].of
=============================================================================
