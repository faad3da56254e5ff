------------------------------- MODULE ReadOps -------------------------------
(***************************************************************************)
(* What one read of a response does to the buffer and to the response      *)
(* object (lib/include/read.hpp), as operators: the reader and every       *)
(* subcommand of the program are built from these.  The data of a buffer   *)
(* is a parameter of its own, s = Data(b).                                 *)
(***************************************************************************)
EXTENDS AtGrammar, Streambuf

Response  == [rc : Codes \cup {None}, text : Seq(Char), body : Seq(Seq(Char))]
NoMessage == [rc |-> None, text |-> <<>>, body |-> <<>>]
\* A read: its state, the length of the response it found, and where and how
\* much the device may write while it waits.
Idle      == [st |-> "idle", rb |-> 0, at |-> 0, n |-> 0]

-----------------------------------------------------------------------------
(***************************************************************************)
(* read_until, one turn of its loop: search what the buffer holds and      *)
(* either report a response or ask for room to read more.  While a read    *)
(* waits, the device may write n bytes from offset at of the storage.      *)
(***************************************************************************)
Prepared(b) == Prepare(b, ReadSize(b))

\* Mutated form: the place to write to is taken before prepare.
SearchUnslid(b, s) ==
  IF Matched(s)
  THEN [sb |-> b,
        op |-> [st |-> "matched", rb |-> MatchLen(s), at |-> 0, n |-> 0]]
  ELSE [sb |-> Prepared(b),
        op |-> [st |-> "waiting", rb |-> 0, at |-> b.p, n |-> ReadSize(b)]]

Search(b, s) ==
  IF Matched(s)
  THEN [sb |-> b,
        op |-> [st |-> "matched", rb |-> MatchLen(s), at |-> 0, n |-> 0]]
  ELSE [sb |-> Prepared(b),
        op |-> [st |-> "waiting", rb |-> 0, at |-> Prepared(b).p, n |-> ReadSize(b)]]

\* Mutated form: the code is only written when there is one.
PopulateKeepsCode(m, s) ==
  LET r == Parse(s) IN
  [rc |-> IF r.rc = None THEN m.rc ELSE r.rc, text |-> m.text \o r.text, body |-> m.body \o r.body]

\* populate_response_from_buffer: the code is overwritten, text and lines are
\* added to what the object holds.  ALL the buffer's data is parsed.
Populate(m, s) ==
  LET r == Parse(s) IN
  [rc |-> r.rc, text |-> m.text \o r.text, body |-> m.body \o r.body]
=============================================================================
