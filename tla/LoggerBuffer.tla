---------------------------- MODULE LoggerBuffer ----------------------------
(***************************************************************************)
(* LoggerBuffer of src/cpp/util/src/tc_logger.cpp: the std::streambuf     *)
(* behind one log statement.  It collects the statement's characters in a *)
(* put area of _buffer_len bytes; when the area is full overflow() either *)
(* doubles it (reserve, at most MAX_BUFFER_LENGTH) or, at the limit,      *)
(* hands what it holds to _roll->write() (sync) and starts again.  The    *)
(* destructor syncs the rest.  Each sync is one write(), so one line of   *)
(* the roll's queue (see Logger).                                         *)
(*                                                                        *)
(* One statement runs on one thread, so a buffer is a value, not state:   *)
(* the operators below compute what the code does to it.  A character is  *)
(* its position in the statement; the put area [pbase, pptr) is the       *)
(* sequence buf, its capacity len.                                        *)
(***************************************************************************)
EXTENDS Naturals, Sequences, SequencesExt

CONSTANTS
  MAX_BUFFER_LENGTH,  \* the limit reserve() clamps to (tc_logger.h)
  BufferLens,         \* buffer_len values a roll hands the constructor
  MaxPut              \* bound: characters in one operator<< of a statement

ASSUME MAX_BUFFER_LENGTH \in Nat \ {0} /\ BufferLens \subseteq Nat \ {0}

\* LoggerBuffer(roll, buffer_len): the put area is allocated only with a
\* roll; without one it is empty and _buffer_len is 0.
NewLoggerBuffer(roll, buffer_len) ==
  [roll |-> roll, len |-> IF roll THEN buffer_len ELSE 0,
   buf |-> <<>>, writes |-> <<>>]

\* sync(): with data in the put area, write it to the roll and reset pptr.
Sync(b) ==
  IF Len(b.buf) > 0
  THEN [b EXCEPT !.writes = IF b.roll THEN Append(@, b.buf) ELSE @,
                 !.buf = <<>>]
  ELSE b

\* Mutant: reserve without the clamp to MAX_BUFFER_LENGTH.
ReserveNoClamp(b, n) == IF n <= b.len THEN b ELSE [b EXCEPT !.len = n]

\* reserve(n): grow to n, clamped to MAX_BUFFER_LENGTH, keeping the
\* characters already put (memcpy of pptr - pbase, then pbump).
Reserve(b, n) ==
  IF n <= b.len THEN b
  ELSE [b EXCEPT !.len = IF n > MAX_BUFFER_LENGTH THEN MAX_BUFFER_LENGTH
                                                  ELSE n]

\* overflow(c), up to the sputc(c) it ends with: sync at the limit,
\* otherwise double the area.
Overflow(b) ==
  IF b.len >= MAX_BUFFER_LENGTH THEN Sync(b) ELSE Reserve(b, b.len * 2)

\* sputc(c): store c if the put area has room, else call overflow(c),
\* whose own sputc(c) stores it.
RECURSIVE SputC(_, _)
SputC(b, c) ==
  IF Len(b.buf) < b.len THEN [b EXCEPT !.buf = Append(@, c)]
  ELSE SputC(Overflow(b), c)

\* xsputn(s, n): without a roll the characters are dropped; otherwise the
\* base class puts them one by one, calling overflow when the area is full.
RECURSIVE PutAll(_, _)
PutAll(b, s) == IF s = <<>> THEN b ELSE PutAll(SputC(b, Head(s)), Tail(s))

Xsputn(b, s) == IF b.roll THEN PutAll(b, s) ELSE b

\* Characters put by the first i pieces.
PrefixLen(lens) ==
  LET P[i \in 0 .. Len(lens)] == IF i = 0 THEN 0 ELSE P[i - 1] + lens[i]
  IN  P

Pieces(lens) ==
  [i \in DOMAIN lens |-> [k \in 1 .. lens[i] |-> PrefixLen(lens)[i - 1] + k]]

RECURSIVE PutPieces(_, _)
PutPieces(b, ps) ==
  IF ps = <<>> THEN b ELSE PutPieces(Xsputn(b, Head(ps)), Tail(ps))

\* One statement: LoggerBuffer(roll, buffer_len), one xsputn per
\* operator<< (piece i holds the next lens[i] characters), then the
\* destructor's sync().  The result is the sequence of write() calls.
StatementWrites(roll, buffer_len, lens) ==
  Sync(PutPieces(NewLoggerBuffer(roll, buffer_len), Pieces(lens))).writes

-----------------------------------------------------------------------------
(* Reference: with a roll, the statement's n characters reach the roll in *)
(* order, in writes of exactly C characters but the last, where C is the  *)
(* larger of buffer_len and the limit; none is empty.  Without a roll     *)
(* nothing is written.                                                    *)
ChunkLen(buffer_len) ==
  IF buffer_len >= MAX_BUFFER_LENGTH THEN buffer_len ELSE MAX_BUFFER_LENGTH

ExpectedWrites(roll, buffer_len, n) ==
  LET C == ChunkLen(buffer_len)
  IN  IF roll
      THEN [i \in 1 .. (n + C - 1) \div C |->
              [k \in 1 .. IF i * C <= n THEN C ELSE n % C |-> (i - 1) * C + k]]
      ELSE <<>>

\* Every statement of the bounded inputs gives the write() calls of the
\* reference.  A formula of constants only: TLC evaluates it once.
StatementsCutAtLimit ==
  \A roll \in BOOLEAN, bl \in BufferLens, lens \in BoundedSeq(0 .. MaxPut, 2) :
    StatementWrites(roll, bl, lens) = ExpectedWrites(roll, bl, PrefixLen(lens)[Len(lens)])

=============================================================================
