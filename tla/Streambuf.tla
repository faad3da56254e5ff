------------------------------ MODULE Streambuf ------------------------------
(***************************************************************************)
(* boost::asio::streambuf, as read.hpp uses it (external: Boost is not     *)
(* part of the repository).  A buffer is a record: mem is its storage, the *)
(* get area ("input sequence") is mem[g+1..p], the put area is what lies   *)
(* after p.  Its hazards are kept: commit takes in whatever the put area   *)
(* holds, consume and commit clip silently, prepare slides the get area to *)
(* the front and leaves old bytes behind it.                               *)
(***************************************************************************)
EXTENDS Naturals, Sequences

CONSTANTS Window,    \* least number of bytes a read asks for (512 in asio)
          Zero       \* the byte new storage is filled with

ASSUME WindowAssumption == Window \in Nat \ {0}

\* A buffer nothing was read into yet; its first prepare grows the storage.
Fresh == [mem |-> <<>>, g |-> 0, p |-> 0]

\* Every buffer over the bytes in Bytes.
Buffers(Bytes) ==
  {b \in [mem : Seq(Bytes), g : Nat, p : Nat] : b.g <= b.p /\ b.p <= Len(b.mem)}

Data(b) == SubSeq(b.mem, b.g + 1, b.p)
Size(b) == b.p - b.g
Room(b) == Len(b.mem) - b.p

Least(m, n)    == IF m <= n THEN m ELSE n
Greatest(m, n) == IF m >= n THEN m ELSE n

\* read_size_helper: how much room read_until asks for.
ReadSize(b) == Greatest(Window, Len(b.mem) - Size(b))

Prepare(b, n) ==
  IF n <= Room(b) THEN b
  ELSE [mem |-> [i \in 1 .. Greatest(Len(b.mem), Size(b) + n) |->
                   IF i <= Size(b) THEN b.mem[b.g + i]
                   ELSE IF i <= Len(b.mem) THEN b.mem[i] ELSE Zero],
        g   |-> 0,
        p   |-> Size(b)]

\* A device writes cs into the storage from offset at on.
Fill(b, at, cs) ==
  [b EXCEPT !.mem = [i \in 1 .. Len(b.mem) |->
                       IF i > at /\ i <= at + Len(cs) THEN cs[i - at] ELSE b.mem[i]]]

\* Mutated form: a consume that is not clipped.
ConsumeUnclipped(b, n) == [b EXCEPT !.g = @ + n]

Commit(b, n)  == [b EXCEPT !.p = @ + Least(n, Room(b))]
Consume(b, n) == [b EXCEPT !.g = @ + Least(n, Size(b))]
=============================================================================
