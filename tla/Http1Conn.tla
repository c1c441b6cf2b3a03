------------------------------ MODULE Http1Conn ------------------------------
(***************************************************************************)
(* proto/http1/conn.rs with the buffers of io.rs and the framing of        *)
(* decode.rs and encode.rs: what each method of `Conn` does to the         *)
(* connection.  No variables: a connection is a record and every method an *)
(* operator from records to records (or to a set of them where the socket  *)
(* chooses), so that the dispatcher's actions are built from them.         *)
(*                                                                         *)
(* Bytes are tokens: a response head of some kind, or a piece of a body.   *)
(***************************************************************************)
EXTENDS Naturals, Sequences

CONSTANTS
  BodyLen,    \* Content-Length of the "len" response, in tokens
  ReqLen,     \* Content-Length of a sized request body, in units
  MaxBuf,     \* max_buf_size of the write buffer, in units
  Flatten     \* WriteStrategy: Flatten or Queue

ASSUME ConnAssumption ==
  /\ BodyLen \in Nat \ {0} /\ ReqLen \in Nat \ {0} /\ MaxBuf \in Nat \ {0}
  /\ Flatten \in BOOLEAN

\* Response heads: 1xx; empty body; empty body and Connection: close;
\* Content-Length; chunked; close-delimited; 101; HTTP/1.0 keep-alive, empty.
Heads == {"info", "zero", "close", "len", "chunk", "eofb", "up", "old"}
Pieces == {"data", "end", "trail"}
Tokens == Heads \cup Pieces

\* What Client::parse says of a head.
Decoder(t) == CASE t = "len" -> "length" [] t = "chunk" -> "chunked"
                [] t = "eofb" -> "eof" [] OTHER -> "none"
KeepAlive(t) == t \notin {"close", "up"}

\* Conn::new on a fresh socket.  Ghosts: out is how far the current request
\* is serialized, said is whether the server announced the end of the
\* connection.
NewConn ==
  [reading |-> "Init", dec |-> "none", left |-> 0,
   writing |-> "Init", enc |-> "none", wleft |-> 0,
   ka |-> "Busy", notify |-> FALSE, error |-> FALSE, version |-> 11, upgrade |-> FALSE,
   rbuf |-> <<>>, blocked |-> FALSE, wh |-> 0, wq |-> 0,
   in |-> <<>>, peer |-> "open", full |-> FALSE, armed |-> {},
   out |-> "none", said |-> FALSE]

Least(m, n) == IF m < n THEN m ELSE n
Arm(c, w) == [c EXCEPT !.armed = @ \cup {w}]

-----------------------------------------------------------------------------
(* State.                                                                  *)

CloseRead(c) == [c EXCEPT !.reading = "Closed", !.dec = "none", !.left = 0, !.ka = "Disabled"]
CloseWrite(c) == [c EXCEPT !.writing = "Closed", !.enc = "none", !.wleft = 0, !.ka = "Disabled"]
Close(c) == CloseWrite(CloseRead(c))

Busy(c) == IF c.ka = "Disabled" THEN c ELSE [c EXCEPT !.ka = "Busy"]
\* Mutant of Idle: the poll loop is not asked to go round once more.
IdleSilent(c) == [c EXCEPT !.ka = "Idle", !.reading = "Init", !.writing = "Init"]
Idle(c) == [c EXCEPT !.ka = "Idle", !.reading = "Init", !.writing = "Init", !.notify = TRUE]

StateTryKeepAlive(c) ==
  LET both == <<c.reading, c.writing>>
  IN  CASE both = <<"KeepAlive", "KeepAlive">> -> IF c.ka = "Busy" THEN Idle(c) ELSE Close(c)
        [] both = <<"Closed", "KeepAlive">>    -> Close(c)
        [] both = <<"KeepAlive", "Closed">>    -> Close(c)
        [] OTHER                               -> c

CanReadHead(c) == c.reading = "Init" /\ c.writing # "Init"
CanReadBody(c) == c.reading = "Body"
IsMidMessage(c) == ~(c.reading = "Init" /\ c.writing = "Init")
CanWriteHead(c) == c.reading # "Closed" /\ c.writing = "Init" /\ c.wq = 0
CanWriteBody(c) == c.writing = "Body"

\* can_buffer: of its two limits the one on bytes.  The other, on the number
\* of queued buffers, is in WriteBuffer!CanBuffer; either of them makes the
\* dispatcher flush first, and nothing else.
CanBufferBody(c) == c.wh + c.wq < MaxBuf

-----------------------------------------------------------------------------
(* Reading.                                                                *)

\* Buffered::poll_read_from_io.
ReadIo(c) ==
  CASE c.in # <<>>        -> [how |-> "some", c |-> [c EXCEPT !.rbuf = @ \o c.in, !.in = <<>>, !.blocked = FALSE]]
    [] c.in = <<>> /\ c.peer = "open" ->
                             [how |-> "pending", c |-> Arm([c EXCEPT !.blocked = TRUE], "read")]
    [] c.in = <<>> /\ c.peer = "eof" -> [how |-> "zero", c |-> [c EXCEPT !.blocked = FALSE]]
    [] c.in = <<>> /\ c.peer = "reset" -> [how |-> "err", c |-> [c EXCEPT !.blocked = FALSE]]

MaybeNotify(c) ==
  LET io == ReadIo(c)
  IN  CASE c.reading # "Init" \/ c.writing = "Body" \/ c.blocked -> c
        [] OTHER ->
             CASE c.rbuf # <<>>      -> [c EXCEPT !.notify = TRUE]
               [] c.rbuf = <<>> ->
                  CASE io.how = "some"    -> [io.c EXCEPT !.notify = TRUE]
                    [] io.how = "pending" -> io.c
                    [] io.how = "zero"    -> IF c.ka = "Idle" THEN Close(io.c) ELSE CloseRead(io.c)
                    [] io.how = "err"     -> [Close(io.c) EXCEPT !.error = TRUE, !.notify = TRUE]

TryKeepAlive(c) == MaybeNotify(StateTryKeepAlive(c))

\* Buffered::parse up to the first head that is not informational.
SkipInfo(c) ==
  LET n == CHOOSE n \in 0..Len(c.rbuf) :
             /\ \A i \in 1..n : c.rbuf[i] = "info"
             /\ n < Len(c.rbuf) => c.rbuf[n + 1] # "info"
  IN  [c EXCEPT !.rbuf = SubSeq(@, n + 1, Len(@))]
FillHead(c) ==
  LET s == SkipInfo(c)
  IN  IF s.rbuf = <<>> THEN ReadIo(s) ELSE [how |-> "some", c |-> s]
ParseHead(c) == LET a == FillHead(c) IN IF a.how = "some" THEN FillHead(a.c) ELSE a

\* Mutant of AcceptHead: the response's keep-alive is not folded in.
AcceptHeadKeeps(c, t) ==
  LET k == [Busy(c) EXCEPT !.version = IF t = "old" THEN 10 ELSE 11,
                           !.upgrade = @ \/ t = "up",
                           !.said = @ \/ ~KeepAlive(t),
                           !.rbuf = Tail(@)]
  IN  IF Decoder(t) = "none"
      THEN TryKeepAlive([k EXCEPT !.reading = "KeepAlive"])
      ELSE [k EXCEPT !.reading = "Body", !.dec = Decoder(t),
                     !.left = IF t = "len" THEN BodyLen ELSE 0]

\* The rest of Conn::poll_read_head, with t the head parsed off the buffer.
AcceptHead(c, t) ==
  LET b == Busy(c)
      k == [b EXCEPT !.ka = IF KeepAlive(t) THEN @ ELSE "Disabled",
                     !.version = IF t = "old" THEN 10 ELSE 11,
                     !.upgrade = @ \/ t = "up",
                     !.said = @ \/ ~KeepAlive(t),
                     !.rbuf = Tail(@)]
  IN  IF Decoder(t) = "none"
      THEN TryKeepAlive([k EXCEPT !.reading = "KeepAlive"])
      ELSE [k EXCEPT !.reading = "Body", !.dec = Decoder(t),
                     !.left = IF t = "len" THEN BodyLen ELSE 0]

\* Decoder::decode on Buffered::read_mem.
Decode(c) ==
  LET a == IF c.rbuf = <<>> THEN ReadIo(c) ELSE [how |-> "some", c |-> c]
      n == IF c.dec = "length" THEN Least(c.left, Len(a.c.rbuf))
           ELSE IF c.dec = "eof" THEN Len(a.c.rbuf) ELSE 1
      b == [a.c EXCEPT !.rbuf = SubSeq(@, n + 1, Len(@)),
                       !.left = IF c.dec = "length" THEN @ - n ELSE @]
  IN  CASE a.how \in {"pending", "err"} -> a
        [] a.how = "zero" -> [how |-> IF c.dec = "eof" THEN "end" ELSE "err", c |-> a.c]
        [] a.how = "some" ->
             CASE c.dec # "chunked" \/ a.c.rbuf[1] = "data" -> [how |-> "data", c |-> b]
               [] c.dec = "chunked" /\ a.c.rbuf[1] = "end"  -> [how |-> "end", c |-> b]
               [] c.dec = "chunked" /\ a.c.rbuf[1] = "trail" -> [how |-> "trail", c |-> b]
               [] OTHER -> [how |-> "err", c |-> a.c]

\* Conn::poll_read_body; fin when the decoder reached the end of the body.
PollReadBody(c) ==
  LET d   == Decode(c)
      fin == \/ d.how \in {"end", "trail"}
             \/ d.how = "data" /\ c.dec = "length" /\ d.c.left = 0
  IN  [how |-> d.how, fin |-> fin,
       c |-> CASE fin -> TryKeepAlive([d.c EXCEPT !.reading = "KeepAlive", !.dec = "none"])
               [] d.how = "err" -> TryKeepAlive([d.c EXCEPT !.reading = "Closed", !.dec = "none", !.left = 0])
               [] OTHER -> d.c]

\* Mutant of DrainOrCloseRead: drain, never close.
DrainOnly(c) == PollReadBody(c).c

\* Conn::poll_drain_or_close_read.
DrainOrCloseRead(c) ==
  LET d == PollReadBody(c).c
  IN  IF d.reading \in {"Init", "KeepAlive"} THEN d ELSE CloseRead(d)

\* Conn::mid_message_detect_eof: only an end or an error of the stream.
MidMessageDetectEof(c) ==
  LET io == ReadIo(c)
  IN  CASE c.rbuf # <<>> -> [how |-> "ok", c |-> c]
        [] OTHER -> CASE io.how \in {"some", "pending"} -> [how |-> "ok", c |-> io.c]
                      [] io.how = "zero" -> [how |-> "err", c |-> CloseRead(io.c)]
                      [] io.how = "err"  -> [how |-> "err", c |-> Close(io.c)]

\* Conn::require_empty_read: an idle connection must not receive anything.
RequireEmptyRead(c) ==
  LET io == ReadIo(c)
  IN  CASE c.rbuf # <<>> -> [how |-> "err", c |-> c]
        [] OTHER -> CASE io.how = "some"    -> [how |-> "err", c |-> io.c]
                      [] io.how = "pending" -> [how |-> "ok", c |-> io.c]
                      [] io.how = "zero"    -> [how |-> IF c.ka = "Idle" THEN "ok" ELSE "err", c |-> CloseRead(io.c)]
                      [] io.how = "err"     -> [how |-> "err", c |-> Close(io.c)]

PollReadKeepAlive(c) ==
  CASE c.reading = "Closed" -> [how |-> "ok", c |-> c]
    [] c.reading # "Closed" /\ IsMidMessage(c) -> MidMessageDetectEof(c)
    [] OTHER -> RequireEmptyRead(c)

-----------------------------------------------------------------------------
(* Writing.                                                                *)

\* WriteBuf::buffer.
Buffer(c, n) == IF Flatten THEN [c EXCEPT !.wh = @ + n] ELSE [c EXCEPT !.wq = @ + n]

\* The request is complete: Writing::KeepAlive.
Finished(c) == [c EXCEPT !.writing = "KeepAlive", !.enc = "none", !.wleft = 0, !.out = "whole"]

\* Conn::write_head with an encoder e; a head is two units, so that the
\* socket may take part of it.  An HTTP/1.0 peer gets a request that
\* may lack Connection: keep-alive (enforce_version, fix_keep_alive).
WriteHead(c, e) ==
  LET b == [Busy(c) EXCEPT !.wh = @ + 2]
      w == IF e = [enc |-> "length", len |-> 0] THEN Finished(b)
           ELSE [b EXCEPT !.writing = "Body", !.enc = e.enc, !.wleft = e.len, !.out = "part"]
  IN  {w} \cup {[w EXCEPT !.ka = "Disabled"] : v \in {c.version} \cap {10}}

\* How many of n units Encoder::encode keeps.
Kept(c, n) == IF c.enc = "length" THEN Least(n, c.wleft) ELSE n

WriteBody(c, n) ==
  LET b == Buffer(c, Kept(c, n))
  IN  CASE c.enc = "length" /\ n >= c.wleft -> Finished(b)
        [] c.enc = "length" /\ n < c.wleft  -> [b EXCEPT !.wleft = @ - n]
        [] c.enc = "chunked"                -> b

\* Mutant of WriteBodyAndEnd: a body that ends short keeps the connection.
WriteBodyShort(c, n) ==
  LET b == Buffer(c, Kept(c, n))
  IN  IF c.enc = "length" /\ n < c.wleft
      THEN [b EXCEPT !.writing = "KeepAlive", !.enc = "none", !.wleft = 0]
      ELSE Finished(b)

WriteBodyAndEnd(c, n) ==
  LET b == Buffer(c, Kept(c, n))
  IN  IF c.enc = "length" /\ n < c.wleft
      THEN [b EXCEPT !.writing = "Closed", !.enc = "none", !.wleft = 0]
      ELSE Finished(b)

\* Conn::write_trailers: nothing happens unless a trailer is allowed.
WriteTrailers(c) == {c} \cup {Finished(Buffer(c, 1)) : e \in {c.enc} \cap {"chunked"}}

\* Conn::end_body; a Content-Length not reached is an error.
EndBody(c) ==
  IF c.enc = "chunked" THEN [how |-> "ok", c |-> Finished(Buffer(c, 1))]
  ELSE [how |-> "err", c |-> [c EXCEPT !.writing = "Closed", !.enc = "none", !.wleft = 0]]

\* Conn::poll_flush: the socket takes everything, or something and m units
\* stay behind.  The poll_flush of the socket itself, once all is written, is
\* taken to be ready.
PollFlush(c) ==
  LET w == c.wh + c.wq
  IN  CASE w = 0 -> {[how |-> "ready", c |-> TryKeepAlive(c)]}
        [] w > 0 /\ c.peer = "reset" -> {[how |-> "err", c |-> c]}
        [] w > 0 /\ c.peer # "reset" /\ c.full -> {[how |-> "pending", c |-> Arm(c, "write")]}
        [] OTHER ->
             {[how |-> "ready", c |-> TryKeepAlive([c EXCEPT !.wh = 0, !.wq = 0])]}
             \cup {[how |-> "pending",
                    c |-> Arm([c EXCEPT !.wq = Least(m, c.wq), !.wh = m - Least(m, c.wq), !.full = TRUE], "write")] :
                      m \in 1..(w - 1)}
=============================================================================
