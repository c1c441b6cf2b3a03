----------------------------- MODULE WriteBuffer -----------------------------
(***************************************************************************)
(* The write half of proto/http1/io.rs: WriteBuf, which collects heads and *)
(* body buffers (proto/http1/buf.rs), and poll_flush, which hands them to  *)
(* a socket that takes as much as it likes.  Bytes are numbered in the     *)
(* order they are given.                                                   *)
(***************************************************************************)
EXTENDS Naturals, Sequences, FiniteSetsExt, SequencesExt

CONSTANTS
  MaxBuf,      \* max_buf_size
  MaxBufs,     \* MAX_BUF_LIST_BUFFERS
  InitCap,     \* capacity of the headers vector at first
  HeadLens,    \* lengths of serialized heads
  FrameLens,   \* lengths of encoded body frames
  EndLen,      \* length of an encoded end of body
  MaxSlices,   \* slices of one vectored write; 1: not vectored
  MaxBytes     \* bound: bytes given in all

ASSUME WriteAssumption ==
  /\ MaxBuf \in Nat \ {0} /\ MaxBufs \in Nat \ {0} /\ InitCap \in Nat \ {0}
  /\ HeadLens \subseteq Nat \ {0} /\ FrameLens \subseteq Nat \ {0}
  /\ EndLen \in Nat \ {0} /\ MaxSlices \in Nat \ {0} /\ MaxBytes \in Nat
  /\ \E m \in FrameLens : \A n \in FrameLens : n <= m

VARIABLES
  flatten,  \* strategy
  bytes,    \* headers.bytes
  pos,      \* headers.pos
  cap,      \* capacity of headers.bytes
  bufs,     \* queue.bufs
  qrem,     \* queue.remaining
  mid,      \* a message body is being written
  failed,   \* WriteZero
  ahead,    \* ghost: bytes of the heads since body was buffered, or all written
  given,    \* ghost: number of bytes given
  taken      \* ghost: what the socket took

wvars == <<flatten, bytes, pos, cap, bufs, qrem, mid, failed, ahead, given, taken>>

\* WriteBuf::new and set_strategy.
WInit ==
  /\ flatten \in BOOLEAN /\ bytes = <<>> /\ pos = 0 /\ cap = InitCap
  /\ bufs = <<>> /\ qrem = 0 /\ mid = FALSE /\ failed = FALSE
  /\ ahead = 0 /\ given = 0 /\ taken = <<>>

-----------------------------------------------------------------------------
(* Giving.                                                                 *)

Larger(m, n) == IF m < n THEN n ELSE m
Fresh(n) == [i \in 1 .. n |-> given + i]
HeadRem == Len(bytes) - pos
Remaining == HeadRem + qrem

\* Vec: grows to what is needed, at least by doubling.
Grown(need) == IF need <= cap THEN cap ELSE Larger(2 * cap, need)

\* Mutant of Unshift: what was written stays in the vector.
UnshiftNever(n) == [bytes |-> bytes, pos |-> pos]

\* Cursor::maybe_unshift.
Unshift(n) ==
  IF pos = 0 \/ cap - Len(bytes) >= n THEN [bytes |-> bytes, pos |-> pos]
  ELSE [bytes |-> SubSeq(bytes, pos + 1, Len(bytes)), pos |-> 0]

\* Mutant of WriteHead: it does not wait for the queue.
WriteHeadEarly(n) ==
  /\ ~failed /\ ~mid /\ given + n <= MaxBytes
  /\ bytes' = bytes \o Fresh(n) /\ cap' = Grown(Len(bytes'))
  /\ mid' \in BOOLEAN /\ given' = given + n /\ ahead' = ahead + n
  /\ UNCHANGED <<flatten, pos, bufs, qrem, failed, taken>>

\* Conn::can_write_head, Buffered::headers_buf: a head goes to the headers,
\* which precede the queue; a body follows or not.  Nothing asks how much is
\* in the headers already: of a server that answers without reading, the
\* next head may come while the last one waits.
WriteHead(n) ==
  /\ ~failed /\ ~mid /\ given + n <= MaxBytes
  /\ qrem = 0
  /\ bytes' = bytes \o Fresh(n) /\ cap' = Grown(Len(bytes'))
  /\ mid' \in BOOLEAN /\ given' = given + n /\ ahead' = ahead + n
  /\ UNCHANGED <<flatten, pos, bufs, qrem, failed, taken>>

\* WriteBuf::buffer.
Buffer(n) ==
  /\ IF flatten
     THEN LET u == Unshift(n)
          IN  /\ bytes' = u.bytes \o Fresh(n) /\ pos' = u.pos /\ cap' = Grown(Len(bytes'))
              /\ UNCHANGED <<bufs, qrem>>
     ELSE /\ bufs' = Append(bufs, Fresh(n)) /\ qrem' = qrem + n
          /\ UNCHANGED <<bytes, pos, cap>>
  /\ given' = given + n /\ ahead' = 0
  /\ UNCHANGED <<flatten, failed, taken>>

\* WriteBuf::can_buffer.
CanBuffer == Remaining < MaxBuf /\ (flatten \/ Len(bufs) < MaxBufs)

\* Conn::write_body, write_body_and_end, end_body and write_trailers; the
\* dispatcher flushes first unless can_buffer_body.
WriteBody(n) ==
  /\ ~failed /\ mid /\ CanBuffer /\ given + n <= MaxBytes
  /\ Buffer(n) /\ UNCHANGED mid

WriteBodyAndEnd(n) ==
  /\ ~failed /\ mid /\ CanBuffer /\ given + n + EndLen <= MaxBytes
  /\ Buffer(n + EndLen) /\ mid' = FALSE

EndBody ==
  /\ ~failed /\ mid /\ CanBuffer /\ given + EndLen <= MaxBytes
  /\ Buffer(EndLen) /\ mid' = FALSE

-----------------------------------------------------------------------------
(* Flushing.                                                               *)

Total(s) == Len(FlattenSeq(s))
First(s, k) == SubSeq(s, 1, IF k < Len(s) THEN k ELSE Len(s))

\* chunks_vectored: the slices one write is shown.
Chunks ==
  LET head == IF HeadRem > 0 THEN <<SubSeq(bytes, pos + 1, Len(bytes))>> ELSE <<>>
  IN  First(head \o bufs, IF flatten THEN 1 ELSE MaxSlices)

\* BufList::advance.
Dropped(n) ==
  LET k == Max({i \in 0 .. Len(bufs) : Total(First(bufs, i)) <= n})
      part == n - Total(First(bufs, k))
  IN  IF k = Len(bufs) THEN <<>>
      ELSE <<SubSeq(bufs[k + 1], part + 1, Len(bufs[k + 1]))>> \o SubSeq(bufs, k + 2, Len(bufs))

\* WriteBuf::advance: the headers first, the rest off the queue.
Advance(n) ==
  IF n < HeadRem THEN pos' = pos + n /\ UNCHANGED <<bytes, bufs, qrem>>
  ELSE bytes' = <<>> /\ pos' = 0 /\ bufs' = Dropped(n - HeadRem) /\ qrem' = qrem - (n - HeadRem)

\* One write of poll_flush or poll_flush_flattened.
FlushWrite(n) ==
  /\ ~failed /\ Remaining > 0 /\ n \in 1 .. Total(Chunks)
  /\ Advance(n)
  /\ taken' = taken \o SubSeq(FlattenSeq(Chunks), 1, n)
  /\ ahead' = IF n = Remaining THEN 0 ELSE ahead
  /\ UNCHANGED <<flatten, cap, mid, failed, given>>

\* The socket takes nothing: WriteZero.
FlushZero ==
  /\ ~failed /\ Remaining > 0 /\ failed' = TRUE
  /\ UNCHANGED <<flatten, bytes, pos, cap, bufs, qrem, mid, ahead, given, taken>>

WNext ==
  \/ \E n \in HeadLens : WriteHead(n)
  \/ \E n \in FrameLens : WriteBody(n) \/ WriteBodyAndEnd(n)
  \/ EndBody \/ FlushZero
  \/ \E n \in 1 .. MaxBytes : FlushWrite(n)

WSpec == WInit /\ [][WNext]_wvars

-----------------------------------------------------------------------------
(* Properties.                                                             *)

\* Code: headers_mut ("debug_assert!(!self.queue.has_remaining())"),
\* advance, BufList.  The socket gets every byte once and in the order it
\* was given, through any partial or vectored writes, a head behind a body
\* included, and the counters agree with the buffers.
OrderKept ==
  /\ taken \o SubSeq(bytes, pos + 1, Len(bytes)) \o FlattenSeq(bufs) = [i \in 1 .. given |-> i]
  /\ qrem = Total(bufs) /\ \A i \in DOMAIN bufs : bufs[i] # <<>>
  /\ flatten => bufs = <<>>

\* The most a body lets wait: the last buffer that was let in below the
\* limit, a frame with its end.
BodyMost == MaxBuf - 1 + Max(FrameLens) + EndLen

\* Code: can_buffer, MAX_BUF_LIST_BUFFERS ("forces a flush if the queue gets
\* this big").  A slow socket holds back the body: whatever waits already,
\* heads included, one frame goes beyond the limit and no more, over any
\* number of requests.  Only heads behind the last body add to that, and
\* nothing bounds them but the server, which has to answer each before the
\* next is written.
BufferBounded == Len(bufs) <= MaxBufs /\ Remaining <= BodyMost + ahead

\* Code: maybe_unshift.  However the socket dribbles, a body makes the
\* vector grow only when what is still unwritten does not fit in it.  (A
\* head is appended without unshifting, and may.)
GrowsForUnwritten == [][cap' # cap /\ mid => Remaining' > cap]_wvars

\* Code: WriteBuf.  Everything is written once and in order, and what waits
\* to be written is bounded but for heads.
WriteExact == OrderKept /\ BufferBounded
=============================================================================
