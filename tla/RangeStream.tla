------------------------------ MODULE RangeStream ------------------------------
(***************************************************************************)
(* Direct play: app/services/range_stream.py, the answer to a request for  *)
(* a part of a media file.                                                 *)
(*                                                                         *)
(* The header is parsed against the size the file has when the request     *)
(* arrives; the body is read later, block by block, from a file that may   *)
(* be replaced meanwhile.  A byte is its offset; a header is the pair of   *)
(* numbers in "bytes=start-end", NoNumber where one is left out.           *)
(***************************************************************************)
EXTENDS Integers

CONSTANTS
  NoNumber,     \* a number the header leaves out
  MaxSize,      \* bound: bytes of the file
  ChunkSize     \* _CHUNK_SIZE, in bytes

ASSUME RangeBounds == MaxSize \in Nat /\ ChunkSize \in Nat \ {0}
ASSUME NoNumberIsNoNumber == NoNumber \notin Int

VARIABLES
  size,       \* bytes of the file now
  answer,     \* the answer under way: [status, from, to, size], "none" before
  sent,       \* bytes of the body sent so far
  header,     \* the header it answers
  done,       \* the body has ended
  lowest      \* history: the fewest bytes the file has had since the answer

rangeVars == <<size, answer, sent, header, done, lowest>>

Numbers == 0..MaxSize + 1
Headers == [start : Numbers \cup {NoNumber}, end : Numbers \cup {NoNumber}]
NoRange == [start |-> NoNumber, end |-> NoNumber]

-----------------------------------------------------------------------------
Lesser(a, b) == IF a < b THEN a ELSE b
Greater(a, b) == IF a < b THEN b ELSE a

FirstByte(h, n) == IF h.start = NoNumber THEN Greater(0, n - h.end) ELSE h.start
LastByte(h, n) == IF h.start = NoNumber \/ h.end = NoNumber THEN n - 1 ELSE h.end

\* The checks of _parse_range, as they stand there.
Unsatisfiable(h, n) ==
  \/ h.start = NoNumber /\ h.end = 0
  \/ FirstByte(h, n) >= n
  \/ LastByte(h, n) < FirstByte(h, n)

\* A bug the checks must notice: the end of the range is taken as it was asked.
ParsedUnclamped(h, n) == [from |-> FirstByte(h, n), to |-> LastByte(h, n)]

\* _parse_range of a satisfiable header.
Parsed(h, n) == [from |-> FirstByte(h, n), to |-> Lesser(LastByte(h, n), n - 1)]

\* build_range_response, If-None-Match included.
RangeAnswer(h, n, unmodified) ==
  IF unmodified THEN [status |-> 304, from |-> 0, to |-> -1, size |-> n]
  ELSE IF h = NoRange THEN [status |-> 200, from |-> 0, to |-> n - 1, size |-> n]
  ELSE IF Unsatisfiable(h, n) THEN [status |-> 416, from |-> 0, to |-> -1, size |-> n]
  ELSE [status |-> 206, from |-> Parsed(h, n).from, to |-> Parsed(h, n).to, size |-> n]

Promised == answer.to - answer.from + 1

Ask(h, unmodified) ==
  /\ answer.status = 0
  /\ header' = h
  /\ answer' = RangeAnswer(h, size, unmodified)
  /\ lowest' = size
  /\ UNCHANGED <<size, sent, done>>

\* _iter_file_chunks: the next block, as far as the file goes now.
SendBlock ==
  LET at == answer.from + sent
      block == Lesser(Lesser(ChunkSize, Promised - sent), Greater(0, size - at))
  IN /\ answer.status \in {200, 206} /\ ~done /\ sent < Promised
     /\ block > 0
     /\ sent' = sent + block
     /\ UNCHANGED <<size, answer, header, done, lowest>>

\* A bug the checks must notice: a rest shorter than a block is not sent.
EndEarly ==
  /\ answer.status # 0 /\ ~done
  /\ Promised - sent < ChunkSize \/ answer.from + sent >= size
  /\ done' = TRUE
  /\ UNCHANGED <<size, answer, sent, header, lowest>>

\* Nothing is left to send, or to read: "if not chunk: break".
End ==
  /\ answer.status # 0 /\ ~done
  /\ sent = Promised \/ answer.from + sent >= size
  /\ done' = TRUE
  /\ UNCHANGED <<size, answer, sent, header, lowest>>

\* The file is cut, grows or is replaced.
Resize(n) ==
  /\ n # size
  /\ size' = n
  /\ lowest' = Lesser(lowest, n)
  /\ UNCHANGED <<answer, sent, header, done>>

RangeInit ==
  /\ size \in 0..MaxSize
  /\ answer = [status |-> 0, from |-> 0, to |-> -1, size |-> 0]
  /\ header = NoRange /\ sent = 0 /\ done = FALSE /\ lowest = size

RangeNext ==
  \/ \E h \in Headers, unmodified \in BOOLEAN : Ask(h, unmodified)
  \/ SendBlock \/ End
  \/ \E n \in 0..MaxSize : Resize(n)

RangeSpec == RangeInit /\ [][RangeNext]_rangeVars

-----------------------------------------------------------------------------
(***************************************************************************)
(* Properties.                                                             *)
(***************************************************************************)

RangeTypeOK ==
  /\ size \in 0..MaxSize /\ sent \in 0..MaxSize + 1 /\ done \in BOOLEAN
  /\ header \in Headers /\ lowest \in 0..MaxSize
  /\ answer \in [status : {0, 200, 206, 304, 416}, from : 0..MaxSize + 1,
                 to : -1..MaxSize, size : 0..MaxSize]

\* The reference: the bytes of an n-byte file that a header asks for, read off
\* the grammar of the header rather than off the code.
Asked(h, n) ==
  {b \in 0..n - 1 :
     IF h.start = NoNumber THEN h.end = NoNumber \/ b >= n - h.end
     ELSE b >= h.start /\ (h.end # NoNumber => b <= h.end)}

Announced == {b \in 0..MaxSize : answer.from <= b /\ b <= answer.to}

\* The answer announces exactly the bytes asked for that the file had: 416
\* when there are none, and 206 otherwise, with Content-Range inside the file.
\* The body never runs past it, and when it has ended it was sent whole, unless
\* it stopped where a file that had become shorter meanwhile ended.
AnswersAreWhatWasAsked ==
  /\ answer.status \in {200, 206} => Announced = Asked(header, answer.size)
  /\ answer.status = 206 => answer.from <= answer.to /\ answer.to < answer.size
  /\ answer.status = 416 => Asked(header, answer.size) = {}
  /\ answer.status \in {200, 206} => sent <= Promised
  /\ answer.status \in {200, 206} /\ done =>
       sent = Promised \/ (lowest < answer.size /\ answer.from + sent >= lowest)

================================================================================
