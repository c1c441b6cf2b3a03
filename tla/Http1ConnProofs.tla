--------------------------- MODULE Http1ConnProofs ---------------------------
(***************************************************************************)
(* What the methods of `Conn` (proto/http1/conn.rs) keep true of the       *)
(* connection, for every buffer size, body length and input.  One lemma    *)
(* per method; the dispatcher's proofs are put together from them.         *)
(***************************************************************************)
EXTENDS Http1Conn, SequenceLemmas

\* The wakers the task may leave behind, and the states of a half.
Wakers == {"read", "write", "recv", "cancel", "slot", "closed", "frame"}
Halves == {"Init", "Body", "KeepAlive", "Closed"}

\* The type of a connection.
ConnRec ==
  [reading : Halves, dec : {"none", "length", "chunked", "eof"}, left : Nat,
   writing : Halves, enc : {"none", "length", "chunked"}, wleft : Nat,
   ka : {"Idle", "Busy", "Disabled"}, notify : BOOLEAN, error : BOOLEAN,
   version : {10, 11}, upgrade : BOOLEAN,
   rbuf : Seq(Tokens), blocked : BOOLEAN, wh : Nat, wq : Nat,
   in : Seq(Tokens), peer : {"open", "eof", "reset"}, full : BOOLEAN, armed : SUBSET Wakers,
   out : {"none", "part", "whole"}, said : BOOLEAN]

\* A decoder and an encoder exist exactly in the Body states; the writing
\* half is free only behind a whole request and with nothing half read; a
\* connection that the server ends is not kept alive, and one that is not kept
\* alive takes no request; an idle one is in its initial state.
ConnOK(c) ==
  /\ c \in ConnRec
  /\ c.reading = "Body" <=> c.dec # "none"
  /\ c.writing = "Body" <=> c.enc # "none"
  /\ c.writing = "KeepAlive" => c.out = "whole"
  /\ c.writing = "Init" => c.out # "part" /\ c.reading \in {"Init", "Closed"}
  /\ c.said => c.ka = "Disabled"
  /\ c.ka = "Disabled" => c.writing # "Init" \/ c.reading = "Closed"
  /\ c.ka = "Idle" => c.reading = "Init" /\ c.writing = "Init"

\* d differs from c in its buffers and its socket only.
SameState(c, d) ==
  /\ d.reading = c.reading /\ d.dec = c.dec /\ d.left = c.left
  /\ d.writing = c.writing /\ d.enc = c.enc /\ d.wleft = c.wleft
  /\ d.ka = c.ka /\ d.out = c.out /\ d.said = c.said /\ d.version = c.version

\* From c to d no body begins or ends, no response becomes awaited, one that
\* is awaited stays so unless the read half closes, and a closed read half
\* stays closed.
Settles(c, d) ==
  /\ d.reading = "Body" <=> c.reading = "Body"
  /\ d.reading = "Init" => c.reading = "Init" \/ d.writing = "Init"
  /\ d.reading = "Init" /\ d.writing # "Init" => c.writing # "Init"
  /\ c.reading = "Closed" => d.reading = "Closed"
  /\ c.reading = "Init" /\ c.writing # "Init" =>
       d.reading = "Closed" \/ (d.reading = "Init" /\ d.writing # "Init")

\* Buffers and wakers are not part of what ConnOK says.
LEMMA SameStateOK ==
  ASSUME NEW c, ConnOK(c), NEW d \in ConnRec, SameState(c, d)
  PROVE  ConnOK(d)
BY DEF ConnOK, SameState

\* Conn::new.
LEMMA NewConnOK == ConnOK(NewConn)
<1>1. <<>> \in Seq(Tokens)
  OBVIOUS
<1>2. NewConn \in ConnRec
  BY <1>1 DEF NewConn, ConnRec, Halves
<1> QED  BY <1>2 DEF NewConn, ConnOK

\* Leaving a waker behind.
LEMMA ArmOK ==
  ASSUME NEW c, ConnOK(c), NEW w \in Wakers
  PROVE  ConnOK(Arm(c, w)) /\ SameState(c, Arm(c, w)) /\ Arm(c, w).rbuf = c.rbuf
<1> PICK a : a = c.armed \cup {w}
  OBVIOUS
<1>0. c \in ConnRec /\ a \in SUBSET Wakers
  BY DEF ConnOK, ConnRec
<1> PICK d : d = [c EXCEPT !.armed = a]
  OBVIOUS
<1>1. Arm(c, w) = d
  BY DEF Arm
<1>2. d \in ConnRec /\ SameState(c, d) /\ d.rbuf = c.rbuf
  BY <1>0 DEF ConnRec, SameState
<1> QED  BY <1>1, <1>2, SameStateOK

\* State::close_read, State::close.
LEMMA CloseReadOK ==
  ASSUME NEW c, ConnOK(c)
  PROVE  /\ ConnOK(CloseRead(c)) /\ CloseRead(c).reading = "Closed"
         /\ CloseRead(c).writing = c.writing
<1>0. c \in ConnRec
  BY DEF ConnOK
<1> PICK d : d = CloseRead(c)
  OBVIOUS
<1>1. /\ d \in ConnRec /\ d.reading = "Closed" /\ d.dec = "none" /\ d.ka = "Disabled"
      /\ d.writing = c.writing /\ d.enc = c.enc /\ d.out = c.out /\ d.said = c.said
  BY <1>0, ZenonT(90) DEF CloseRead, ConnRec, Halves
<1> QED  BY <1>1 DEF ConnOK

\* State::close_write.
LEMMA CloseWriteOK ==
  ASSUME NEW c, ConnOK(c)
  PROVE  /\ ConnOK(CloseWrite(c)) /\ CloseWrite(c).writing = "Closed"
         /\ CloseWrite(c).reading = c.reading
<1>0. c \in ConnRec
  BY DEF ConnOK
<1> PICK d : d = CloseWrite(c)
  OBVIOUS
<1>1. /\ d \in ConnRec /\ d.writing = "Closed" /\ d.enc = "none" /\ d.ka = "Disabled"
      /\ d.reading = c.reading /\ d.dec = c.dec /\ d.out = c.out /\ d.said = c.said
  BY <1>0, ZenonT(90) DEF CloseWrite, ConnRec, Halves
<1> QED  BY <1>1 DEF ConnOK

\* State::close.
LEMMA CloseOK ==
  ASSUME NEW c, ConnOK(c)
  PROVE  ConnOK(Close(c)) /\ Close(c).reading = "Closed" /\ Close(c).writing = "Closed"
BY CloseReadOK, CloseWriteOK DEF Close

-----------------------------------------------------------------------------
(* Reading.                                                                *)

\* Buffered::poll_read_from_io moves bytes and leaves wakers; bytes read are
\* in the buffer.
LEMMA ReadIoOK ==
  ASSUME NEW c, ConnOK(c)
  PROVE  LET io == ReadIo(c)
         IN  /\ io.how \in {"some", "pending", "zero", "err"}
             /\ ConnOK(io.c) /\ SameState(c, io.c)
             /\ io.how = "some" => io.c.rbuf # <<>>
             /\ io.how # "some" => io.c.rbuf = c.rbuf
<1>0. c \in ConnRec /\ c.in \in Seq(Tokens) /\ c.rbuf \in Seq(Tokens)
  BY DEF ConnOK, ConnRec
<1>1. CASE c.in # <<>>
  <2> PICK b : b = c.rbuf \o c.in
    OBVIOUS
  <2>1. b \in Seq(Tokens) /\ b # <<>> /\ <<>> \in Seq(Tokens)
    BY <1>0, <1>1
  <2> PICK d : d = [c EXCEPT !.rbuf = b, !.in = <<>>, !.blocked = FALSE]
    OBVIOUS
  <2>2. ReadIo(c).how = "some" /\ ReadIo(c).c = d
    BY <1>1 DEF ReadIo
  <2>3. d \in ConnRec /\ SameState(c, d) /\ d.rbuf = b
    BY <1>0, <2>1 DEF ConnRec, SameState
  <2>4. ConnOK(d)
    BY <2>3, SameStateOK
  <2> QED  BY <2>1, <2>2, <2>3, <2>4
<1>2. CASE c.in = <<>> /\ c.peer = "open"
  <2> PICK b : b = [c EXCEPT !.blocked = TRUE]
    OBVIOUS
  <2>1. b \in ConnRec /\ SameState(c, b) /\ b.rbuf = c.rbuf
    BY <1>0 DEF ConnRec, SameState
  <2> PICK d : d = Arm(b, "read")
    OBVIOUS
  <2>2. ReadIo(c).how = "pending" /\ ReadIo(c).c = d
    BY <1>2 DEF ReadIo
  <2>3. ConnOK(b) /\ "read" \in Wakers
    BY <2>1, SameStateOK DEF Wakers
  <2>4. ConnOK(d) /\ SameState(b, d) /\ d.rbuf = b.rbuf
    BY <2>3, ArmOK
  <2>5. SameState(c, d)
    BY <2>1, <2>4 DEF SameState
  <2> QED  BY <2>1, <2>2, <2>4, <2>5
<1>3. CASE c.in = <<>> /\ c.peer # "open"
  <2> PICK d : d = [c EXCEPT !.blocked = FALSE]
    OBVIOUS
  <2>1. d \in ConnRec /\ SameState(c, d) /\ d.rbuf = c.rbuf
    BY <1>0 DEF ConnRec, SameState
  <2>2. ConnOK(d)
    BY <2>1, SameStateOK
  <2>3. c.peer \in {"eof", "reset"}
    BY <1>0, <1>3 DEF ConnRec
  <2>4. ReadIo(c).how \in {"zero", "err"} /\ ReadIo(c).c = d
    BY <1>3, <2>3 DEF ReadIo
  <2> QED  BY <2>1, <2>2, <2>4
<1> QED  BY <1>1, <1>2, <1>3

\* State::try_keep_alive: both halves done, the connection is idle or closed.
LEMMA StateTryKeepAliveOK ==
  ASSUME NEW c, ConnOK(c)
  PROVE  ConnOK(StateTryKeepAlive(c)) /\ Settles(c, StateTryKeepAlive(c))
<1>1. CASE c.reading = "KeepAlive" /\ c.writing = "KeepAlive" /\ c.ka = "Busy"
  <2>0. c \in ConnRec /\ ~c.said /\ c.out = "whole" /\ c.dec = "none" /\ c.enc = "none"
    BY <1>1 DEF ConnOK
  <2> PICK d : d = Idle(c)
    OBVIOUS
  <2>1. StateTryKeepAlive(c) = d
    BY <1>1 DEF StateTryKeepAlive
  <2>2. /\ d \in ConnRec /\ d.reading = "Init" /\ d.writing = "Init" /\ d.ka = "Idle"
        /\ d.dec = c.dec /\ d.enc = c.enc /\ d.out = c.out /\ d.said = c.said
    BY <2>0 DEF Idle, ConnRec, Halves
  <2>3. ConnOK(d)
    BY <2>0, <2>2 DEF ConnOK
  <2> QED  BY <1>1, <2>1, <2>2, <2>3 DEF Settles
<1>2. CASE /\ c.reading \in {"KeepAlive", "Closed"} /\ c.writing \in {"KeepAlive", "Closed"}
           /\ ~(c.reading = "KeepAlive" /\ c.writing = "KeepAlive" /\ c.ka = "Busy")
           /\ ~(c.reading = "Closed" /\ c.writing = "Closed")
  <2>1. StateTryKeepAlive(c) = Close(c)
    BY <1>2 DEF StateTryKeepAlive
  <2> QED  BY <1>2, <2>1, CloseOK DEF Settles
<1>3. CASE ~(/\ c.reading \in {"KeepAlive", "Closed"} /\ c.writing \in {"KeepAlive", "Closed"}
             /\ ~(c.reading = "Closed" /\ c.writing = "Closed"))
  <2>1. StateTryKeepAlive(c) = c
    BY <1>3 DEF StateTryKeepAlive
  <2> QED  BY <2>1 DEF Settles
<1> QED  BY <1>1, <1>2, <1>3

\* Conn::maybe_notify looks at the socket only between messages.
LEMMA MaybeNotifyOK ==
  ASSUME NEW c, ConnOK(c)
  PROVE  ConnOK(MaybeNotify(c)) /\ Settles(c, MaybeNotify(c))
<1>0. c \in ConnRec
  BY DEF ConnOK
<1>1. CASE c.reading # "Init" \/ c.writing = "Body" \/ c.blocked
  <2>1. MaybeNotify(c) = c
    BY <1>1 DEF MaybeNotify
  <2> QED  BY <2>1 DEF Settles
<1>2. CASE ~(c.reading # "Init" \/ c.writing = "Body" \/ c.blocked) /\ c.rbuf # <<>>
  <2> PICK d : d = [c EXCEPT !.notify = TRUE]
    OBVIOUS
  <2>1. MaybeNotify(c) = d
    BY <1>2 DEF MaybeNotify
  <2>2. d \in ConnRec /\ SameState(c, d)
    BY <1>0 DEF ConnRec, SameState
  <2>3. ConnOK(d)
    BY <2>2, SameStateOK
  <2> QED  BY <2>1, <2>2, <2>3 DEF Settles, SameState
<1>3. CASE ~(c.reading # "Init" \/ c.writing = "Body" \/ c.blocked) /\ c.rbuf = <<>>
  <2> PICK io : io = ReadIo(c)
    OBVIOUS
  <2>1. /\ io.how \in {"some", "pending", "zero", "err"}
        /\ ConnOK(io.c) /\ SameState(c, io.c) /\ io.c \in ConnRec
    BY ReadIoOK DEF ConnOK
  <2>2. CASE io.how = "some"
    <3> PICK d : d = [io.c EXCEPT !.notify = TRUE]
      OBVIOUS
    <3>1. MaybeNotify(c) = d
      BY <1>3, <2>2 DEF MaybeNotify
    <3>2. d \in ConnRec /\ SameState(io.c, d)
      BY <2>1, ZenonT(90) DEF ConnRec, SameState
    <3>3. ConnOK(d)
      BY <2>1, <3>2, SameStateOK
    <3> QED  BY <2>1, <3>1, <3>2, <3>3 DEF Settles, SameState
  <2>3. CASE io.how = "pending"
    <3>1. MaybeNotify(c) = io.c
      BY <1>3, <2>3 DEF MaybeNotify
    <3> QED  BY <2>1, <3>1 DEF Settles, SameState
  <2>4. CASE io.how = "zero"
    <3>1. MaybeNotify(c) = IF c.ka = "Idle" THEN Close(io.c) ELSE CloseRead(io.c)
      BY <1>3, <2>4 DEF MaybeNotify
    <3>2. ConnOK(MaybeNotify(c)) /\ MaybeNotify(c).reading = "Closed"
      BY <2>1, <3>1, CloseOK, CloseReadOK
    <3> QED  BY <1>3, <3>2 DEF Settles
  <2>5. CASE io.how = "err"
    <3> PICK k : k = Close(io.c)
      OBVIOUS
    <3>1. ConnOK(k) /\ k.reading = "Closed" /\ k \in ConnRec
      BY <2>1, CloseOK DEF ConnOK
    <3> PICK d : d = [k EXCEPT !.error = TRUE, !.notify = TRUE]
      OBVIOUS
    <3>2. MaybeNotify(c) = d
      BY <1>3, <2>5 DEF MaybeNotify
    <3>3. d \in ConnRec /\ SameState(k, d)
      BY <3>1, ZenonT(90) DEF ConnRec, SameState
    <3>4. ConnOK(d)
      BY <3>1, <3>3, SameStateOK
    <3> QED  BY <1>3, <3>1, <3>2, <3>3, <3>4 DEF Settles, SameState
  <2> QED  BY <2>1, <2>2, <2>3, <2>4, <2>5
<1> QED  BY <1>1, <1>2, <1>3

\* Conn::try_keep_alive.
LEMMA TryKeepAliveOK ==
  ASSUME NEW c, ConnOK(c)
  PROVE  ConnOK(TryKeepAlive(c)) /\ Settles(c, TryKeepAlive(c))
<1> PICK k : k = StateTryKeepAlive(c)
  OBVIOUS
<1> PICK d : d = MaybeNotify(k)
  OBVIOUS
<1>1. ConnOK(k) /\ Settles(c, k)
  BY StateTryKeepAliveOK
<1>2. ConnOK(d) /\ Settles(k, d)
  BY <1>1, MaybeNotifyOK
<1>3. Settles(c, d)
  BY <1>1, <1>2 DEF Settles
<1> QED  BY <1>2, <1>3 DEF TryKeepAlive

\* Buffered::parse takes informational heads off the buffer, nothing else.
LEMMA SkipInfoOK ==
  ASSUME NEW c, ConnOK(c)
  PROVE  ConnOK(SkipInfo(c)) /\ SameState(c, SkipInfo(c))
<1>0. c \in ConnRec /\ c.rbuf \in Seq(Tokens)
  BY DEF ConnOK, ConnRec
<1> DEFINE P(n) == /\ \A i \in 1..n : c.rbuf[i] = "info"
                   /\ n < Len(c.rbuf) => c.rbuf[n + 1] # "info"
           n == CHOOSE n \in 0..Len(c.rbuf) : P(n)
<1>1. \E m \in 0..Len(c.rbuf) : P(m)
  BY <1>0, LongestPrefix, ZenonT(90)
<1>2. n \in 0..Len(c.rbuf)
  <2> HIDE DEF P
  <2> QED  BY <1>1
<1> PICK b : b = SubSeq(c.rbuf, n + 1, Len(c.rbuf))
  OBVIOUS
<1>3. b \in Seq(Tokens)
  <2> HIDE DEF n
  <2> QED  BY <1>0, <1>2, WithoutFirst
<1> PICK d : d = [c EXCEPT !.rbuf = b]
  OBVIOUS
<1>4. SkipInfo(c) = d
  BY DEF SkipInfo
<1> HIDE DEF n
<1>5. d \in ConnRec /\ SameState(c, d)
  BY <1>0, <1>3 DEF ConnRec, SameState
<1> QED  BY <1>4, <1>5, SameStateOK

\* One round of Buffered::parse: skip, and read when nothing is left.
LEMMA FillHeadOK ==
  ASSUME NEW c, ConnOK(c)
  PROVE  LET a == FillHead(c)
         IN  /\ a.how \in {"some", "pending", "zero", "err"}
             /\ ConnOK(a.c) /\ SameState(c, a.c)
             /\ a.how = "some" => a.c.rbuf # <<>>
<1> PICK s : s = SkipInfo(c)
  OBVIOUS
<1>1. ConnOK(s) /\ SameState(c, s)
  BY SkipInfoOK
<1>2. CASE s.rbuf = <<>>
  <2> PICK io : io = ReadIo(s)
    OBVIOUS
  <2>1. FillHead(c) = io
    BY <1>2 DEF FillHead
  <2>2. /\ io.how \in {"some", "pending", "zero", "err"}
        /\ ConnOK(io.c) /\ SameState(s, io.c)
        /\ io.how = "some" => io.c.rbuf # <<>>
    BY <1>1, ReadIoOK
  <2>3. SameState(c, io.c)
    BY <1>1, <2>2 DEF SameState
  <2> QED  BY <2>1, <2>2, <2>3
<1>3. CASE s.rbuf # <<>>
  <2>1. FillHead(c).how = "some" /\ FillHead(c).c = s
    BY <1>3 DEF FillHead
  <2> QED  BY <1>1, <1>3, <2>1
<1> QED  BY <1>2, <1>3

\* Conn::poll_read_head up to the parsed head.
LEMMA ParseHeadOK ==
  ASSUME NEW c, ConnOK(c)
  PROVE  LET p == ParseHead(c)
         IN  /\ p.how \in {"some", "pending", "zero", "err"}
             /\ ConnOK(p.c) /\ SameState(c, p.c)
             /\ p.how = "some" => p.c.rbuf # <<>>
<1> PICK a : a = FillHead(c)
  OBVIOUS
<1>1. /\ a.how \in {"some", "pending", "zero", "err"}
      /\ ConnOK(a.c) /\ SameState(c, a.c)
      /\ a.how = "some" => a.c.rbuf # <<>>
  BY FillHeadOK
<1> PICK b : b = FillHead(a.c)
  OBVIOUS
<1>2. /\ b.how \in {"some", "pending", "zero", "err"}
      /\ ConnOK(b.c) /\ SameState(a.c, b.c)
      /\ b.how = "some" => b.c.rbuf # <<>>
  BY <1>1, FillHeadOK
<1>3. SameState(c, b.c)
  BY <1>1, <1>2 DEF SameState
<1>4. ParseHead(c) = IF a.how = "some" THEN b ELSE a
  BY DEF ParseHead
<1> QED  BY <1>1, <1>2, <1>3, <1>4

\* What Conn::poll_read_head makes of a parsed head, but for the reading half.
WithHead(c, t) ==
  [c EXCEPT !.ka = IF KeepAlive(t) THEN @ ELSE "Disabled",
            !.version = IF t = "old" THEN 10 ELSE 11,
            !.upgrade = @ \/ t = "up",
            !.said = @ \/ ~KeepAlive(t),
            !.rbuf = Tail(@)]

\* A head that announces the end of the connection disables keep-alive.
LEMMA WithHeadOK ==
  ASSUME NEW c, ConnOK(c), c.reading = "Init", c.writing # "Init", c.rbuf # <<>>, NEW t \in Heads
  PROVE  /\ ConnOK(WithHead(c, t)) /\ WithHead(c, t).reading = "Init"
         /\ WithHead(c, t).writing = c.writing
<1>0. /\ c \in ConnRec /\ c.rbuf \in Seq(Tokens) /\ c.ka \in {"Busy", "Disabled"}
      /\ c.upgrade \in BOOLEAN /\ c.said \in BOOLEAN
  BY DEF ConnOK, ConnRec
<1> DEFINE v == IF t = "old" THEN 10 ELSE 11
           u == c.upgrade \/ t = "up"
           q == c.said \/ ~KeepAlive(t)
           b == Tail(c.rbuf)
           e == IF KeepAlive(t) THEN c.ka ELSE "Disabled"
           k == [c EXCEPT !.ka = e, !.version = v, !.upgrade = u, !.said = q, !.rbuf = b]
<1>1. /\ v \in {10, 11} /\ u \in BOOLEAN /\ q \in BOOLEAN /\ b \in Seq(Tokens)
      /\ e \in {"Busy", "Disabled"}
  BY <1>0
<1>2. q => e = "Disabled"
  BY DEF ConnOK
<1>3. WithHead(c, t) = k
  BY DEF WithHead
<1> HIDE DEF v, u, q, b, e
<1>4. /\ k \in ConnRec /\ k.reading = c.reading /\ k.writing = c.writing /\ k.dec = c.dec
      /\ k.enc = c.enc /\ k.out = c.out /\ k.ka = e /\ k.said = q
  BY <1>0, <1>1, ZenonT(90) DEF ConnRec
<1> HIDE DEF k
<1>5. ConnOK(k)
  BY <1>1, <1>2, <1>4 DEF ConnOK
<1> QED  BY <1>3, <1>4, <1>5

\* A body with decoder f begins.
BeginBody(c, f, m) == [c EXCEPT !.reading = "Body", !.dec = f, !.left = m]

\* ... which only a connection that wrote a request may do.
LEMMA BeginBodyOK ==
  ASSUME NEW c, ConnOK(c), c.writing # "Init", c.reading = "Init",
         NEW f \in {"length", "chunked", "eof"}, NEW m \in Nat
  PROVE  ConnOK(BeginBody(c, f, m)) /\ BeginBody(c, f, m).reading = "Body"
<1>0. c \in ConnRec
  BY DEF ConnOK
<1> DEFINE x == BeginBody(c, f, m)
<1>1. /\ x \in ConnRec /\ x.reading = "Body" /\ x.writing = c.writing /\ x.dec = f /\ x.enc = c.enc
      /\ x.out = c.out /\ x.ka = c.ka /\ x.said = c.said
  BY <1>0 DEF BeginBody, ConnRec, Halves
<1> HIDE DEF x
<1>2. ConnOK(x)
  BY <1>1 DEF ConnOK
<1> QED  BY <1>1, <1>2 DEF x

\* The rest of Conn::poll_read_head: a body begins, or the response is over.
\* Either way no response is awaited any more.
LEMMA AcceptHeadOK ==
  ASSUME NEW c, ConnOK(c), c.reading = "Init", c.writing # "Init", c.rbuf # <<>>, NEW t \in Heads
  PROVE  /\ ConnOK(AcceptHead(c, t))
         /\ AcceptHead(c, t).reading = "Body" <=> Decoder(t) # "none"
         /\ AcceptHead(c, t).reading = "Init" => AcceptHead(c, t).writing = "Init"
<1>0. c \in ConnRec /\ c.ka \in {"Busy", "Disabled"} /\ BodyLen \in Nat
  BY ConnAssumption DEF ConnOK, ConnRec
<1>1. Busy(c) = c
  <2>1. CASE c.ka = "Disabled"
    BY <2>1 DEF Busy
  <2>2. CASE c.ka = "Busy"
    <3>1. c = [c EXCEPT !.ka = "Busy"]
      BY <1>0, <2>2 DEF ConnRec
    <3> QED  BY <2>2, <3>1 DEF Busy
  <2> QED  BY <1>0, <2>1, <2>2
<1> PICK k : k = WithHead(c, t)
  OBVIOUS
<1>2. ConnOK(k) /\ k.reading = "Init" /\ k.writing = c.writing /\ k \in ConnRec
  BY WithHeadOK DEF ConnOK
<1>3. AcceptHead(c, t) = IF Decoder(t) = "none"
                         THEN TryKeepAlive([k EXCEPT !.reading = "KeepAlive"])
                         ELSE [k EXCEPT !.reading = "Body", !.dec = Decoder(t),
                                        !.left = IF t = "len" THEN BodyLen ELSE 0]
  BY <1>1 DEF AcceptHead, WithHead
<1>4. CASE Decoder(t) = "none"
  <2> PICK x : x = [k EXCEPT !.reading = "KeepAlive"]
    OBVIOUS
  <2>1. /\ x \in ConnRec /\ x.reading = "KeepAlive" /\ x.writing = k.writing /\ x.dec = k.dec /\ x.enc = k.enc
        /\ x.out = k.out /\ x.ka = k.ka /\ x.said = k.said
    BY <1>2, ZenonT(90) DEF ConnRec, Halves
  <2>2. ConnOK(x)
    BY <1>2, <2>1 DEF ConnOK
  <2>3. ConnOK(TryKeepAlive(x)) /\ Settles(x, TryKeepAlive(x))
    BY <2>2, TryKeepAliveOK
  <2>4. AcceptHead(c, t) = TryKeepAlive(x)
    BY <1>3, <1>4
  <2> QED  BY <1>4, <2>1, <2>3, <2>4 DEF Settles
<1>5. CASE Decoder(t) # "none"
  <2> PICK f, m : f = Decoder(t) /\ m = IF t = "len" THEN BodyLen ELSE 0
    OBVIOUS
  <2>1. m \in Nat /\ f \in {"length", "chunked", "eof"}
    BY <1>0, <1>5 DEF Decoder, Heads
  <2>2. ConnOK(BeginBody(k, f, m)) /\ BeginBody(k, f, m).reading = "Body"
    BY <1>2, <2>1, BeginBodyOK
  <2>3. AcceptHead(c, t) = BeginBody(k, f, m)
    BY <1>3, <1>5 DEF BeginBody
  <2> QED  BY <1>5, <2>2, <2>3
<1> QED  BY <1>4, <1>5

\* Taking a piece of the body off the buffer.
TakePiece(c, q, m) == [c EXCEPT !.rbuf = q, !.left = m]

\* The two halves do not depend on how much of the body is left.
LEMMA TakePieceOK ==
  ASSUME NEW c, ConnOK(c), NEW q \in Seq(Tokens), NEW m \in Nat
  PROVE  /\ ConnOK(TakePiece(c, q, m)) /\ TakePiece(c, q, m).reading = c.reading
         /\ TakePiece(c, q, m).writing = c.writing
<1>0. c \in ConnRec
  BY DEF ConnOK
<1> DEFINE x == TakePiece(c, q, m)
<1>1. /\ x \in ConnRec /\ x.reading = c.reading /\ x.writing = c.writing /\ x.dec = c.dec /\ x.enc = c.enc
      /\ x.out = c.out /\ x.ka = c.ka /\ x.said = c.said
  BY <1>0 DEF TakePiece, ConnRec
<1> HIDE DEF x
<1>2. ConnOK(x)
  BY <1>1 DEF ConnOK
<1> QED  BY <1>1, <1>2 DEF x

\* Decoder::decode consumes what is buffered and leaves the two halves alone.
LEMMA DecodeOK ==
  ASSUME NEW c, ConnOK(c), c.reading = "Body"
  PROVE  /\ Decode(c).how \in {"pending", "data", "trail", "end", "err"}
         /\ ConnOK(Decode(c).c)
         /\ Decode(c).c.reading = "Body" /\ Decode(c).c.writing = c.writing
<1> DEFINE a == IF c.rbuf = <<>> THEN ReadIo(c) ELSE [how |-> "some", c |-> c]
<1>1. /\ a.how \in {"some", "pending", "zero", "err"}
      /\ ConnOK(a.c) /\ SameState(c, a.c)
      /\ a.how = "some" => a.c.rbuf # <<>>
  <2>1. CASE c.rbuf = <<>>
    BY <2>1, ReadIoOK
  <2>2. CASE c.rbuf # <<>>
    <3>1. a.how = "some" /\ a.c = c
      BY <2>2
    <3>2. SameState(c, c)
      BY DEF SameState
    <3> QED  BY <2>2, <3>1, <3>2
  <2> QED  BY <2>1, <2>2
<1> DEFINE n == IF c.dec = "length" THEN Least(c.left, Len(a.c.rbuf))
                ELSE IF c.dec = "eof" THEN Len(a.c.rbuf) ELSE 1
           q == SubSeq(a.c.rbuf, n + 1, Len(a.c.rbuf))
           m == IF c.dec = "length" THEN a.c.left - n ELSE a.c.left
           b == TakePiece(a.c, q, m)
<1>2. Decode(c) = CASE a.how \in {"pending", "err"} -> a
        [] a.how = "zero" -> [how |-> IF c.dec = "eof" THEN "end" ELSE "err", c |-> a.c]
        [] a.how = "some" ->
             CASE c.dec # "chunked" \/ a.c.rbuf[1] = "data" -> [how |-> "data", c |-> b]
               [] c.dec = "chunked" /\ a.c.rbuf[1] = "end"  -> [how |-> "end", c |-> b]
               [] c.dec = "chunked" /\ a.c.rbuf[1] = "trail" -> [how |-> "trail", c |-> b]
               [] OTHER -> [how |-> "err", c |-> a.c]
  BY DEF Decode, TakePiece
<1>3. /\ a.c.rbuf \in Seq(Tokens) /\ a.c.left \in Nat /\ a.c.left = c.left
      /\ a.c.reading = "Body" /\ a.c.writing = c.writing
  BY <1>1 DEF ConnOK, ConnRec, SameState
<1> HIDE DEF a
<1>4. a.how = "some" => n \in 0..Len(a.c.rbuf) /\ m \in Nat
  <2> PICK l, r : l = Len(a.c.rbuf) /\ r = c.left
    OBVIOUS
  <2>1. l \in Nat /\ r \in Nat /\ (a.how = "some" => l > 0)
    BY <1>1, <1>3
  <2>2. Least(r, l) \in 0..l /\ r - Least(r, l) \in Nat
    BY <2>1 DEF Least
  <2> QED  BY <1>3, <2>1, <2>2
<1>5. a.how = "some" => q \in Seq(Tokens)
  <2> HIDE DEF n
  <2> QED  BY <1>3, <1>4, WithoutFirst
<1> HIDE DEF n, q, m
<1>6. a.how = "some" => ConnOK(b) /\ b.reading = "Body" /\ b.writing = c.writing
  BY <1>1, <1>3, <1>4, <1>5, TakePieceOK
<1> HIDE DEF b
<1>7. CASE a.how \in {"pending", "err"}
  BY <1>1, <1>2, <1>3, <1>7
<1>8. CASE a.how = "zero"
  BY <1>1, <1>2, <1>3, <1>8
<1>9. CASE a.how = "some"
  BY <1>1, <1>2, <1>3, <1>6, <1>9
<1> QED  BY <1>1, <1>7, <1>8, <1>9

\* The reading half leaves the body, for KeepAlive or Closed; what a decoder
\* has left does not matter then.
LeaveBody(c, r) == [c EXCEPT !.reading = r, !.dec = "none"]
CloseBody(c) == [c EXCEPT !.reading = "Closed", !.dec = "none", !.left = 0]

\* A body ends: a request was written, so the writing half is not free.
LEMMA LeaveBodyOK ==
  ASSUME NEW c, ConnOK(c), c.reading = "Body"
  PROVE  /\ ConnOK(LeaveBody(c, "KeepAlive")) /\ LeaveBody(c, "KeepAlive").reading = "KeepAlive"
         /\ LeaveBody(c, "KeepAlive").writing = c.writing
<1>0. c \in ConnRec /\ c.writing # "Init"
  BY DEF ConnOK
<1> DEFINE x == LeaveBody(c, "KeepAlive")
<1>1. /\ x \in ConnRec /\ x.reading = "KeepAlive" /\ x.writing = c.writing /\ x.dec = "none" /\ x.enc = c.enc
      /\ x.out = c.out /\ x.ka = c.ka /\ x.said = c.said
  BY <1>0 DEF LeaveBody, ConnRec, Halves
<1> HIDE DEF x
<1>2. ConnOK(x)
  BY <1>0, <1>1 DEF ConnOK
<1> QED  BY <1>1, <1>2 DEF x

\* A body fails.
LEMMA CloseBodyOK ==
  ASSUME NEW c, ConnOK(c), c.reading = "Body"
  PROVE  /\ ConnOK(CloseBody(c)) /\ CloseBody(c).reading = "Closed"
         /\ CloseBody(c).writing = c.writing
<1>0. c \in ConnRec /\ c.writing # "Init"
  BY DEF ConnOK
<1> DEFINE x == CloseBody(c)
<1>1. /\ x \in ConnRec /\ x.reading = "Closed" /\ x.writing = c.writing /\ x.dec = "none" /\ x.enc = c.enc
      /\ x.out = c.out /\ x.ka = c.ka /\ x.said = c.said
  BY <1>0 DEF CloseBody, ConnRec, Halves
<1> HIDE DEF x
<1>2. ConnOK(x)
  BY <1>0, <1>1 DEF ConnOK
<1> QED  BY <1>1, <1>2 DEF x

\* Conn::poll_read_body: the body is left exactly at its end or on an error,
\* and a response that is over is awaited by nobody.
LEMMA PollReadBodyOK ==
  ASSUME NEW c, ConnOK(c), c.reading = "Body"
  PROVE  /\ PollReadBody(c).how \in {"pending", "data", "trail", "end", "err"}
         /\ PollReadBody(c).fin \in BOOLEAN
         /\ PollReadBody(c).how \in {"end", "trail"} => PollReadBody(c).fin
         /\ PollReadBody(c).fin => PollReadBody(c).how \in {"data", "end", "trail"}
         /\ ConnOK(PollReadBody(c).c)
         /\ PollReadBody(c).c.reading = "Body" <=> ~PollReadBody(c).fin /\ PollReadBody(c).how # "err"
         /\ PollReadBody(c).c.reading = "Init" => PollReadBody(c).c.writing = "Init"
<1> PICK d : d = Decode(c)
  OBVIOUS
<1> DEFINE fin == \/ d.how \in {"end", "trail"}
                  \/ d.how = "data" /\ c.dec = "length" /\ d.c.left = 0
           e == CASE fin -> TryKeepAlive(LeaveBody(d.c, "KeepAlive"))
                  [] d.how = "err" -> TryKeepAlive(CloseBody(d.c))
                  [] OTHER -> d.c
<1>1. /\ d.how \in {"pending", "data", "trail", "end", "err"}
      /\ ConnOK(d.c) /\ d.c.reading = "Body"
  BY DecodeOK
<1>2. /\ PollReadBody(c).how = d.how /\ PollReadBody(c).fin = fin /\ PollReadBody(c).c = e
  BY DEF PollReadBody, LeaveBody, CloseBody
<1>3. fin \in BOOLEAN /\ (d.how \in {"end", "trail"} => fin) /\ (fin => d.how \in {"data", "end", "trail"})
  OBVIOUS
<1> HIDE DEF fin
<1>4. CASE fin
  <2> PICK x : x = LeaveBody(d.c, "KeepAlive")
    OBVIOUS
  <2>1. ConnOK(x) /\ x.reading = "KeepAlive"
    BY <1>1, LeaveBodyOK
  <2>2. ConnOK(TryKeepAlive(x)) /\ Settles(x, TryKeepAlive(x))
    BY <2>1, TryKeepAliveOK
  <2>3. e = TryKeepAlive(x)
    BY <1>3, <1>4
  <2> HIDE DEF e
  <2>4. ConnOK(e) /\ e.reading # "Body" /\ (e.reading = "Init" => e.writing = "Init")
    BY <2>1, <2>2, <2>3 DEF Settles
  <2> QED  BY <1>1, <1>2, <1>3, <1>4, <2>4
<1>5. CASE ~fin /\ d.how = "err"
  <2> PICK x : x = CloseBody(d.c)
    OBVIOUS
  <2>1. ConnOK(x) /\ x.reading = "Closed"
    BY <1>1, CloseBodyOK
  <2>2. ConnOK(TryKeepAlive(x)) /\ Settles(x, TryKeepAlive(x))
    BY <2>1, TryKeepAliveOK
  <2>3. e = TryKeepAlive(x)
    BY <1>5
  <2> HIDE DEF e
  <2>4. ConnOK(e) /\ e.reading # "Body" /\ (e.reading = "Init" => e.writing = "Init")
    BY <2>1, <2>2, <2>3 DEF Settles
  <2> QED  BY <1>1, <1>2, <1>3, <1>5, <2>4
<1>6. CASE ~fin /\ d.how # "err"
  <2>1. e = d.c
    BY <1>6
  <2> HIDE DEF e
  <2> QED  BY <1>1, <1>2, <1>3, <1>6, <2>1
<1> QED  BY <1>4, <1>5, <1>6

\* Conn::poll_drain_or_close_read: a body nobody reads is over.
LEMMA DrainOrCloseReadOK ==
  ASSUME NEW c, ConnOK(c), c.reading = "Body"
  PROVE  /\ ConnOK(DrainOrCloseRead(c)) /\ DrainOrCloseRead(c).reading # "Body"
         /\ DrainOrCloseRead(c).reading = "Init" => DrainOrCloseRead(c).writing = "Init"
<1> PICK d : d = PollReadBody(c).c
  OBVIOUS
<1>1. ConnOK(d) /\ (d.reading = "Init" => d.writing = "Init")
  BY PollReadBodyOK
<1>2. DrainOrCloseRead(c) = IF d.reading \in {"Init", "KeepAlive"} THEN d ELSE CloseRead(d)
  BY DEF DrainOrCloseRead
<1> QED  BY <1>1, <1>2, CloseReadOK

\* Conn::poll_read_keep_alive: it may close the connection, nothing else.
LEMMA PollReadKeepAliveOK ==
  ASSUME NEW c, ConnOK(c)
  PROVE  /\ PollReadKeepAlive(c).how \in {"ok", "err"}
         /\ ConnOK(PollReadKeepAlive(c).c)
         /\ \/ PollReadKeepAlive(c).c.reading = "Closed"
            \/ SameState(c, PollReadKeepAlive(c).c)
<1> PICK io : io = ReadIo(c)
  OBVIOUS
<1>1. io.how \in {"some", "pending", "zero", "err"} /\ ConnOK(io.c) /\ SameState(c, io.c)
  BY ReadIoOK
<1>2. SameState(c, c)
  BY DEF SameState
<1>3. /\ ConnOK(CloseRead(io.c)) /\ CloseRead(io.c).reading = "Closed"
      /\ ConnOK(Close(io.c)) /\ Close(io.c).reading = "Closed"
  BY <1>1, CloseReadOK, CloseOK
<1> DEFINE Good(p) == /\ p.how \in {"ok", "err"} /\ ConnOK(p.c)
                      /\ p.c.reading = "Closed" \/ SameState(c, p.c)
<1>4. Good(MidMessageDetectEof(c))
  BY <1>1, <1>2, <1>3 DEF MidMessageDetectEof
<1>5. Good(RequireEmptyRead(c))
  BY <1>1, <1>2, <1>3 DEF RequireEmptyRead
<1>6. CASE c.reading = "Closed"
  <2>1. PollReadKeepAlive(c).how = "ok" /\ PollReadKeepAlive(c).c = c
    BY <1>6 DEF PollReadKeepAlive
  <2> QED  BY <1>6, <2>1
<1>7. CASE c.reading # "Closed"
  <2>1. PollReadKeepAlive(c) = IF IsMidMessage(c) THEN MidMessageDetectEof(c) ELSE RequireEmptyRead(c)
    BY <1>7 DEF PollReadKeepAlive
  <2> QED  BY <2>1, <1>4, <1>5
<1> QED  BY <1>6, <1>7

-----------------------------------------------------------------------------
(* Writing.                                                                *)

\* WriteBuf::buffer adds to one of the two buffers.
LEMMA BufferOK ==
  ASSUME NEW c, ConnOK(c), NEW n \in Nat
  PROVE  /\ ConnOK(Buffer(c, n)) /\ SameState(c, Buffer(c, n))
<1>0. c \in ConnRec /\ c.wh \in Nat /\ c.wq \in Nat
  BY DEF ConnOK, ConnRec
<1> DEFINE m == c.wh + n
           k == c.wq + n
           x == [c EXCEPT !.wh = m]
           y == [c EXCEPT !.wq = k]
<1>1. m \in Nat /\ k \in Nat
  BY <1>0
<1>2. Buffer(c, n) = IF Flatten THEN x ELSE y
  BY DEF Buffer
<1> HIDE DEF m, k
<1>3. x \in ConnRec /\ SameState(c, x)
  BY <1>0, <1>1 DEF ConnRec, SameState
<1>4. y \in ConnRec /\ SameState(c, y)
  BY <1>0, <1>1 DEF ConnRec, SameState
<1> HIDE DEF x, y
<1>5. ConnOK(x) /\ ConnOK(y)
  BY <1>3, <1>4, SameStateOK
<1> QED  BY <1>2, <1>3, <1>4, <1>5

\* The request is complete: only now may the writing half be reused.
LEMMA FinishedOK ==
  ASSUME NEW c, ConnOK(c), c.ka # "Idle"
  PROVE  /\ ConnOK(Finished(c)) /\ Finished(c).writing = "KeepAlive"
         /\ Finished(c).reading = c.reading
<1>0. c \in ConnRec
  BY DEF ConnOK
<1> PICK x : x = Finished(c)
  OBVIOUS
<1>3. x \in ConnRec
  <2> "KeepAlive" \in Halves
    BY DEF Halves
  <2> QED  BY <1>0, ZenonT(90) DEF Finished, ConnRec
<1>1. /\ x.reading = c.reading /\ x.writing = "KeepAlive" /\ x.dec = c.dec /\ x.enc = "none"
      /\ x.out = "whole" /\ x.ka = c.ka /\ x.said = c.said
  BY <1>0 DEF Finished, ConnRec, Halves
<1>2. ConnOK(x)
  BY <1>1, <1>3 DEF ConnOK
<1> QED  BY <1>1, <1>2

\* A request body that breaks off closes the writing half.
BreakOff(c) == [c EXCEPT !.writing = "Closed", !.enc = "none", !.wleft = 0]

\* The rest of the connection is as it was.
LEMMA BreakOffOK ==
  ASSUME NEW c, ConnOK(c), c.ka # "Idle"
  PROVE  ConnOK(BreakOff(c)) /\ BreakOff(c).writing = "Closed" /\ BreakOff(c).reading = c.reading
<1>0. c \in ConnRec
  BY DEF ConnOK
<1> DEFINE x == BreakOff(c)
<1>1. /\ x \in ConnRec /\ x.reading = c.reading /\ x.writing = "Closed" /\ x.dec = c.dec /\ x.enc = "none"
      /\ x.out = c.out /\ x.ka = c.ka /\ x.said = c.said
  BY <1>0 DEF BreakOff, ConnRec, Halves
<1> HIDE DEF x
<1>2. ConnOK(x)
  BY <1>1 DEF ConnOK
<1> QED  BY <1>1, <1>2 DEF x

\* What every step of a request body keeps: the reading half, and a writing
\* half that is not free.
Writes(c, d) == ConnOK(d) /\ d.reading = c.reading /\ d.writing # "Init"

\* Conn::write_body_and_end.
LEMMA WriteBodyAndEndOK ==
  ASSUME NEW c, ConnOK(c), c.writing = "Body", NEW n \in Nat
  PROVE  Writes(c, WriteBodyAndEnd(c, n))
<1>0. c.wleft \in Nat /\ c.ka # "Idle"
  BY DEF ConnOK, ConnRec
<1>1. Kept(c, n) \in Nat
  BY <1>0 DEF Kept, Least
<1> PICK b : b = Buffer(c, Kept(c, n))
  OBVIOUS
<1>2. ConnOK(b) /\ SameState(c, b)
  BY <1>1, BufferOK
<1>3. b.ka # "Idle" /\ b.reading = c.reading
  BY <1>0, <1>2 DEF SameState
<1>4. WriteBodyAndEnd(c, n) = IF c.enc = "length" /\ n < c.wleft THEN BreakOff(b) ELSE Finished(b)
  BY DEF WriteBodyAndEnd, BreakOff
<1>5. Writes(c, BreakOff(b)) /\ Writes(c, Finished(b))
  BY <1>2, <1>3, BreakOffOK, FinishedOK DEF Writes
<1> QED  BY <1>4, <1>5

\* Conn::write_body.
LEMMA WriteBodyOK ==
  ASSUME NEW c, ConnOK(c), c.writing = "Body", NEW n \in Nat
  PROVE  Writes(c, WriteBody(c, n))
<1>0. c.wleft \in Nat /\ c.ka # "Idle" /\ c.enc \in {"length", "chunked"}
  BY DEF ConnOK, ConnRec
<1>1. Kept(c, n) \in Nat
  BY <1>0 DEF Kept, Least
<1> PICK b : b = Buffer(c, Kept(c, n))
  OBVIOUS
<1>2. ConnOK(b) /\ SameState(c, b)
  BY <1>1, BufferOK
<1>3. b.ka # "Idle" /\ b.reading = c.reading /\ b.writing = c.writing /\ b.wleft = c.wleft /\ b \in ConnRec
  BY <1>0, <1>2 DEF SameState, ConnOK
<1>4. CASE c.enc = "length" /\ n >= c.wleft
  <2>1. WriteBody(c, n) = Finished(b)
    BY <1>0, <1>4 DEF WriteBody
  <2> QED  BY <1>2, <1>3, <2>1, FinishedOK DEF Writes
<1>5. CASE c.enc = "length" /\ n < c.wleft
  <2> DEFINE m == c.wleft - n
             x == [b EXCEPT !.wleft = m]
  <2>1. WriteBody(c, n) = x
    BY <1>0, <1>3, <1>5 DEF WriteBody
  <2>2. m \in Nat
    BY <1>0, <1>5
  <2> HIDE DEF m
  <2>3. /\ x \in ConnRec /\ x.reading = b.reading /\ x.writing = b.writing /\ x.dec = b.dec /\ x.enc = b.enc
        /\ x.out = b.out /\ x.ka = b.ka /\ x.said = b.said
    BY <1>3, <2>2, ZenonT(90) DEF ConnRec
  <2> HIDE DEF x
  <2>4. ConnOK(x)
    BY <1>2, <2>3 DEF ConnOK
  <2> QED  BY <1>3, <2>1, <2>3, <2>4 DEF Writes
<1>6. CASE c.enc = "chunked"
  <2>1. WriteBody(c, n) = b
    BY <1>6 DEF WriteBody
  <2> QED  BY <1>2, <1>3, <2>1 DEF Writes
<1> QED  BY <1>0, <1>4, <1>5, <1>6

\* Conn::write_trailers.
LEMMA WriteTrailersOK ==
  ASSUME NEW c, ConnOK(c), c.writing = "Body", NEW d \in WriteTrailers(c)
  PROVE  Writes(c, d)
<1>0. c.ka # "Idle"
  BY DEF ConnOK
<1>1. d = c \/ d = Finished(Buffer(c, 1))
  BY DEF WriteTrailers
<1> PICK b : b = Buffer(c, 1)
  OBVIOUS
<1>2. ConnOK(b) /\ SameState(c, b)
  BY BufferOK
<1>3. b.ka # "Idle" /\ b.reading = c.reading
  BY <1>0, <1>2 DEF SameState
<1>4. Writes(c, Finished(b))
  BY <1>2, <1>3, FinishedOK DEF Writes
<1> QED  BY <1>1, <1>4 DEF Writes

\* Conn::end_body.
LEMMA EndBodyOK ==
  ASSUME NEW c, ConnOK(c), c.writing = "Body"
  PROVE  EndBody(c).how \in {"ok", "err"} /\ Writes(c, EndBody(c).c)
<1>0. c.ka # "Idle"
  BY DEF ConnOK
<1> PICK b : b = Buffer(c, 1)
  OBVIOUS
<1>1. ConnOK(b) /\ SameState(c, b)
  BY BufferOK
<1>2. b.ka # "Idle" /\ b.reading = c.reading
  BY <1>0, <1>1 DEF SameState
<1>3. Writes(c, Finished(b)) /\ Writes(c, BreakOff(c))
  BY <1>0, <1>1, <1>2, FinishedOK, BreakOffOK DEF Writes
<1>4. CASE c.enc = "chunked"
  <2>1. EndBody(c).how = "ok" /\ EndBody(c).c = Finished(b)
    BY <1>4 DEF EndBody
  <2> QED  BY <1>3, <2>1
<1>5. CASE c.enc # "chunked"
  <2>1. EndBody(c).how = "err" /\ EndBody(c).c = BreakOff(c)
    BY <1>5 DEF EndBody, BreakOff
  <2> QED  BY <1>3, <2>1
<1> QED  BY <1>4, <1>5

\* Conn::write_head: the reading half is left alone, and the writing half
\* is not free again before the request is written and answered.
LEMMA WriteHeadOK ==
  ASSUME NEW c, ConnOK(c), c.reading = "Init", c.writing = "Init",
         NEW f \in {"length", "chunked"}, NEW n \in Nat, NEW d \in WriteHead(c, [enc |-> f, len |-> n])
  PROVE  Writes(c, d)
<1>0. c \in ConnRec /\ c.ka \in {"Idle", "Busy"} /\ c.wh + 2 \in Nat
  BY DEF ConnOK, ConnRec
<1> DEFINE e == [enc |-> f, len |-> n]
           a == [c EXCEPT !.ka = "Busy"]
           m == Busy(c).wh + 2
           b == [Busy(c) EXCEPT !.wh = m]
           g == [b EXCEPT !.writing = "Body", !.enc = e.enc, !.wleft = e.len, !.out = "part"]
           w == IF e = [enc |-> "length", len |-> 0] THEN Finished(b) ELSE g
<1>1. WriteHead(c, e) = {w} \cup {[w EXCEPT !.ka = "Disabled"] : v \in {c.version} \cap {10}}
  BY DEF WriteHead
<1>2. Busy(c) = a
  BY <1>0 DEF Busy
<1>14. e.enc \in {"length", "chunked"} /\ e.len \in Nat
  OBVIOUS
<1> HIDE DEF e, m
<1>3. /\ a \in ConnRec /\ a.reading = c.reading /\ a.writing = c.writing /\ a.dec = c.dec /\ a.enc = c.enc
      /\ a.out = c.out /\ a.ka = "Busy" /\ a.said = c.said
  BY <1>0 DEF ConnRec
<1> HIDE DEF a
<1>4. ConnOK(a)
  BY <1>0, <1>3 DEF ConnOK
<1>15. m \in Nat
  BY <1>2, <1>3 DEF ConnRec, m
<1>5. b \in ConnRec /\ SameState(a, b)
  BY <1>2, <1>3, <1>15, ZenonT(90) DEF ConnRec, SameState
<1> HIDE DEF b
<1>6. ConnOK(b) /\ b.reading = "Init" /\ b.ka = "Busy"
  BY <1>3, <1>4, <1>5, SameStateOK DEF SameState
<1>7. Writes(c, Finished(b)) /\ Finished(b) \in ConnRec
  BY <1>6, FinishedOK DEF Writes, ConnOK
<1>8. Writes(c, g)
  <2>1. g \in ConnRec
    <3>1. "Body" \in Halves
      BY DEF Halves
    <3> QED  BY <1>5, <1>14, <3>1, ZenonT(90) DEF ConnRec
  <2>2. /\ g.reading = b.reading /\ g.writing = "Body" /\ g.dec = b.dec /\ g.enc = e.enc
        /\ g.out = "part" /\ g.ka = b.ka /\ g.said = b.said
    BY <1>5 DEF ConnRec
  <2> HIDE DEF g
  <2>3. ConnOK(g)
    BY <1>6, <1>14, <2>1, <2>2 DEF ConnOK
  <2> QED  BY <1>6, <2>2, <2>3 DEF Writes
<1>9. Writes(c, w)
  BY <1>7, <1>8
<1> HIDE DEF w
<1> DEFINE x == [w EXCEPT !.ka = "Disabled"]
<1>10. w \in ConnRec /\ ConnOK(w) /\ w.writing # "Init"
  BY <1>9 DEF Writes, ConnOK
<1>11. /\ x \in ConnRec /\ x.reading = w.reading /\ x.writing = w.writing /\ x.dec = w.dec /\ x.enc = w.enc
       /\ x.out = w.out /\ x.ka = "Disabled" /\ x.said = w.said
  BY <1>10 DEF ConnRec
<1>12. d = w \/ d = x
  BY <1>1 DEF e
<1> HIDE DEF x
<1>13. ConnOK(x)
  BY <1>10, <1>11 DEF ConnOK
<1> QED  BY <1>9, <1>11, <1>12, <1>13 DEF Writes

\* What the socket has taken leaves the write buffers.
Flushed(c, h, q, u) == [c EXCEPT !.wq = q, !.wh = h, !.full = u]

\* A flush, whole or partial, leaves both halves alone.
LEMMA FlushedOK ==
  ASSUME NEW c, ConnOK(c), NEW h \in Nat, NEW q \in Nat, NEW u \in BOOLEAN
  PROVE  ConnOK(Flushed(c, h, q, u)) /\ SameState(c, Flushed(c, h, q, u))
<1>0. c \in ConnRec
  BY DEF ConnOK
<1> DEFINE x == Flushed(c, h, q, u)
<1>1. x \in ConnRec
  BY <1>0 DEF Flushed, ConnRec
<1>2. SameState(c, x)
  BY <1>0 DEF Flushed, ConnRec, SameState
<1> HIDE DEF x
<1>3. ConnOK(x)
  BY <1>1, <1>2, SameStateOK
<1> QED  BY <1>2, <1>3 DEF x

\* Conn::poll_flush: it flushes, and the end of a message may be noticed.
LEMMA PollFlushOK ==
  ASSUME NEW c, ConnOK(c), NEW f \in PollFlush(c)
  PROVE  /\ f.how \in {"ready", "pending", "err"}
         /\ ConnOK(f.c) /\ Settles(c, f.c)
<1>0. c.wh \in Nat /\ c.wq \in Nat /\ c.full \in BOOLEAN /\ "write" \in Wakers
  BY DEF ConnOK, ConnRec, Wakers
<1> DEFINE w == c.wh + c.wq
           Ok(g) == g.how \in {"ready", "pending", "err"} /\ ConnOK(g.c) /\ Settles(c, g.c)
           Rest(m) == [how |-> "pending",
                       c |-> Arm(Flushed(c, m - Least(m, c.wq), Least(m, c.wq), TRUE), "write")]
<1>1. \A d : ConnOK(d) /\ SameState(c, d) =>
             /\ Settles(c, d)
             /\ ConnOK(TryKeepAlive(d)) /\ Settles(c, TryKeepAlive(d))
             /\ ConnOK(Arm(d, "write")) /\ Settles(c, Arm(d, "write"))
  <2> TAKE d
  <2> HAVE ConnOK(d) /\ SameState(c, d)
  <2> PICK k, g : k = TryKeepAlive(d) /\ g = Arm(d, "write")
    OBVIOUS
  <2>1. ConnOK(k) /\ Settles(d, k)
    BY TryKeepAliveOK
  <2>2. ConnOK(g) /\ SameState(d, g)
    BY <1>0, ArmOK
  <2>3. Settles(c, d) /\ Settles(c, k) /\ Settles(c, g)
    BY <2>1, <2>2 DEF Settles, SameState
  <2> QED  BY <2>1, <2>2, <2>3
<1>2. SameState(c, c)
  BY DEF SameState
<1> DEFINE A == {[how |-> "ready", c |-> TryKeepAlive(c)]}
           B == {[how |-> "err", c |-> c]}
           C == {[how |-> "pending", c |-> Arm(c, "write")]}
           D == {[how |-> "ready", c |-> TryKeepAlive([c EXCEPT !.wh = 0, !.wq = 0])]}
                \cup {Rest(m) : m \in 1..(w - 1)}
<1>3. PollFlush(c) = CASE w = 0 -> A
                       [] w > 0 /\ c.peer = "reset" -> B
                       [] w > 0 /\ c.peer # "reset" /\ c.full -> C
                       [] OTHER -> D
  BY Zenon DEF PollFlush, Flushed
<1>4. w \in Nat
  BY <1>0
<1>5. (w = 0 /\ ~(w > 0)) \/ (w > 0 /\ w # 0)
  <2> HIDE DEF w
  <2> QED  BY <1>4
<1>6. f \in A \cup B \cup C \cup D
  <2> HIDE DEF A, B, C, D, w
  <2> QED  BY <1>3, <1>5
<1>7. CASE f \in A
  BY <1>1, <1>2, <1>7
<1>8. CASE f \in B
  BY <1>1, <1>2, <1>8
<1>9. CASE f \in C
  BY <1>1, <1>2, <1>9
<1>10. CASE f \in D
  <2> DEFINE e == [c EXCEPT !.wh = 0, !.wq = 0]
  <2>1. \/ f = [how |-> "ready", c |-> TryKeepAlive(e)]
        \/ \E m \in 1..(w - 1) : f = Rest(m)
    <3> HIDE DEF Rest, e
    <3> QED  BY <1>10 DEF e
  <2>2. ConnOK(e) /\ SameState(c, e)
    <3>1. c \in ConnRec
      BY DEF ConnOK
    <3>2. e \in ConnRec /\ SameState(c, e)
      BY <3>1 DEF ConnRec, SameState
    <3> QED  BY <3>2, SameStateOK
  <2> HIDE DEF e
  <2>3. CASE f = [how |-> "ready", c |-> TryKeepAlive(e)]
    BY <1>1, <2>2, <2>3
  <2>4. ASSUME NEW m \in 1..(w - 1), f = Rest(m)
        PROVE  Ok(f)
    <3> PICK q, h : q = Least(m, c.wq) /\ h = m - Least(m, c.wq)
      OBVIOUS
    <3>1. q \in Nat /\ h \in Nat
      BY <1>0 DEF Least
    <3> PICK d : d = Flushed(c, h, q, TRUE)
      OBVIOUS
    <3>2. ConnOK(d) /\ SameState(c, d)
      BY <3>1, FlushedOK
    <3>3. f.how = "pending" /\ f.c = Arm(d, "write")
      BY <2>4
    <3> QED  BY <1>1, <3>2, <3>3
  <2> QED  BY <2>1, <2>3, <2>4
<1> QED  BY <1>6, <1>7, <1>8, <1>9, <1>10

-----------------------------------------------------------------------------
(* What others do to the connection: wakers fire, bytes arrive, the peer   *)
(* leaves, the socket has room.                                            *)

\* Firing wakers; wants_read_again; the server sends, leaves, reads.
Disarm(c, W) == [c EXCEPT !.armed = @ \ W]
Quiet(c) == [c EXCEPT !.notify = FALSE]
Arrives(c, t) == [c EXCEPT !.in = Append(@, t), !.armed = @ \ {"read"}]
Leaves(c, how) == [c EXCEPT !.peer = how, !.armed = @ \ {"read", "write"},
                            !.in = IF how = "reset" THEN <<>> ELSE @]
Drains(c) == [c EXCEPT !.full = FALSE, !.armed = @ \ {"write"}]

\* Firing wakers leaves both halves alone.
LEMMA DisarmOK ==
  ASSUME NEW c, ConnOK(c), NEW W
  PROVE  ConnOK(Disarm(c, W)) /\ SameState(c, Disarm(c, W))
<1>0. c \in ConnRec /\ c.armed \ W \in SUBSET Wakers
  BY DEF ConnOK, ConnRec
<1> DEFINE d == Disarm(c, W)
<1>1. d \in ConnRec /\ SameState(c, d)
  BY <1>0 DEF Disarm, ConnRec, SameState
<1> HIDE DEF d
<1>2. ConnOK(d)
  BY <1>1, SameStateOK
<1> QED  BY <1>1, <1>2 DEF d

\* So does Conn::wants_read_again.
LEMMA QuietOK ==
  ASSUME NEW c, ConnOK(c)
  PROVE  ConnOK(Quiet(c)) /\ SameState(c, Quiet(c))
<1>0. c \in ConnRec
  BY DEF ConnOK
<1> DEFINE d == Quiet(c)
<1>1. d \in ConnRec /\ SameState(c, d)
  BY <1>0 DEF Quiet, ConnRec, SameState
<1> HIDE DEF d
<1>2. ConnOK(d)
  BY <1>1, SameStateOK
<1> QED  BY <1>1, <1>2 DEF d

\* So do bytes that arrive.
LEMMA ArrivesOK ==
  ASSUME NEW c, ConnOK(c), NEW t \in Tokens
  PROVE  ConnOK(Arrives(c, t)) /\ SameState(c, Arrives(c, t))
<1>0. c \in ConnRec /\ c.armed \ {"read"} \in SUBSET Wakers /\ Append(c.in, t) \in Seq(Tokens)
  BY DEF ConnOK, ConnRec
<1> DEFINE d == Arrives(c, t)
<1>1. d \in ConnRec /\ SameState(c, d)
  BY <1>0 DEF Arrives, ConnRec, SameState
<1> HIDE DEF d
<1>2. ConnOK(d)
  BY <1>1, SameStateOK
<1> QED  BY <1>1, <1>2 DEF d

\* So does the end of the stream, or its loss.
LEMMA LeavesOK ==
  ASSUME NEW c, ConnOK(c), NEW how \in {"eof", "reset"}
  PROVE  ConnOK(Leaves(c, how)) /\ SameState(c, Leaves(c, how))
<1> DEFINE i == IF how = "reset" THEN <<>> ELSE c.in
           a == c.armed \ {"read", "write"}
           d == [c EXCEPT !.peer = how, !.armed = a, !.in = i]
<1>0. c \in ConnRec /\ a \in SUBSET Wakers /\ i \in Seq(Tokens)
  BY DEF ConnOK, ConnRec
<1>1. Leaves(c, how) = d
  BY DEF Leaves
<1> HIDE DEF i, a
<1>2. d \in ConnRec /\ SameState(c, d)
  BY <1>0 DEF ConnRec, SameState
<1> HIDE DEF d
<1>3. ConnOK(d)
  BY <1>2, SameStateOK
<1> QED  BY <1>1, <1>2, <1>3

\* So does room in the socket.
LEMMA DrainsOK ==
  ASSUME NEW c, ConnOK(c)
  PROVE  ConnOK(Drains(c)) /\ SameState(c, Drains(c))
<1>0. c \in ConnRec /\ c.armed \ {"write"} \in SUBSET Wakers
  BY DEF ConnOK, ConnRec
<1> DEFINE d == Drains(c)
<1>1. d \in ConnRec /\ SameState(c, d)
  BY <1>0 DEF Drains, ConnRec, SameState
<1> HIDE DEF d
<1>2. ConnOK(d)
  BY <1>1, SameStateOK
<1> QED  BY <1>1, <1>2 DEF d

-----------------------------------------------------------------------------
(* Wakers: what the methods leave behind when they find nothing to do, and *)
(* that what they find while flushing is told to the poll loop.            *)

\* The socket was found empty and will wake the task.
Polled(c) == c.rbuf = <<>> /\ c.in = <<>> /\ c.peer = "open" /\ "read" \in c.armed

\* The socket took what it could of the bytes to write and will wake the task.
Stuck(c) == c.wh + c.wq > 0 /\ c.full /\ "write" \in c.armed

\* Nothing is read from c to d, and no waker is lost.
SameIo(c, d) ==
  /\ d.rbuf = c.rbuf /\ d.in = c.in /\ d.peer = c.peer /\ d.notify = c.notify
  /\ c.armed \subseteq d.armed

\* The bytes to write are the same, and no waker is lost.
SameOut(c, d) == d.wh = c.wh /\ d.wq = c.wq /\ d.full = c.full /\ c.armed \subseteq d.armed

\* What was noticed from c to d closes the read half or is told to the loop.
Tells(c, d) == d.reading = "Closed" \/ d.notify \/ (SameState(c, d) /\ SameIo(c, d))

\* Leaving a waker behind reads and writes nothing.
LEMMA ArmIo ==
  ASSUME NEW c, c \in ConnRec, NEW w
  PROVE  SameIo(c, Arm(c, w)) /\ SameOut(c, Arm(c, w)) /\ w \in Arm(c, w).armed
<1> PICK a : a = c.armed \cup {w}
  OBVIOUS
<1> PICK d : d = [c EXCEPT !.armed = a]
  OBVIOUS
<1>1. Arm(c, w) = d
  BY DEF Arm
<1>2. /\ d.rbuf = c.rbuf /\ d.in = c.in /\ d.peer = c.peer /\ d.notify = c.notify
      /\ d.wh = c.wh /\ d.wq = c.wq /\ d.full = c.full /\ d.armed = a
  BY DEF ConnRec
<1>3. c.armed \subseteq a /\ w \in a
  OBVIOUS
<1> QED  BY <1>1, <1>2, <1>3, Zenon DEF SameIo, SameOut

\* Closing a half reads and writes nothing.
LEMMA CloseReadIo ==
  ASSUME NEW c, c \in ConnRec
  PROVE  SameOut(c, CloseRead(c)) /\ CloseRead(c).writing = c.writing
<1> PICK d : d = CloseRead(c)
  OBVIOUS
<1>1. d.wh = c.wh /\ d.wq = c.wq /\ d.full = c.full /\ d.armed = c.armed /\ d.writing = c.writing
  BY DEF CloseRead, ConnRec
<1> QED  BY <1>1 DEF SameOut

\* So does closing both.
LEMMA CloseIo ==
  ASSUME NEW c, ConnOK(c)
  PROVE  SameOut(c, Close(c))
<1> PICK b : b = CloseRead(c)
  OBVIOUS
<1>1. SameOut(c, b) /\ b \in ConnRec
  BY CloseReadIo, CloseReadOK DEF ConnOK
<1> PICK d : d = CloseWrite(b)
  OBVIOUS
<1>2. d.wh = b.wh /\ d.wq = b.wq /\ d.full = b.full /\ d.armed = b.armed
  BY <1>1 DEF CloseWrite, ConnRec
<1>3. Close(c) = d
  BY DEF Close
<1> QED  BY <1>1, <1>2, <1>3 DEF SameOut

\* Buffered::poll_read_from_io that is pending leaves a waker behind.
LEMMA ReadIoIo ==
  ASSUME NEW c, ConnOK(c)
  PROVE  LET io == ReadIo(c)
         IN  /\ SameOut(c, io.c)
             /\ io.how = "pending" => /\ SameIo(c, io.c) /\ (c.rbuf = <<>> => Polled(io.c))
<1>0. c \in ConnRec /\ c.peer \in {"open", "eof", "reset"}
  BY DEF ConnOK, ConnRec
<1>1. CASE c.in # <<>>
  <2> PICK b : b = c.rbuf \o c.in
    OBVIOUS
  <2> PICK d : d = [c EXCEPT !.rbuf = b, !.in = <<>>, !.blocked = FALSE]
    OBVIOUS
  <2>1. ReadIo(c).how = "some" /\ ReadIo(c).c = d
    BY <1>1 DEF ReadIo
  <2>2. d.wh = c.wh /\ d.wq = c.wq /\ d.full = c.full /\ d.armed = c.armed
    BY <1>0 DEF ConnRec
  <2> QED  BY <2>1, <2>2 DEF SameOut
<1>2. CASE c.in = <<>> /\ c.peer = "open"
  <2> PICK b : b = [c EXCEPT !.blocked = TRUE]
    OBVIOUS
  <2>1. b \in ConnRec
    BY <1>0 DEF ConnRec
  <2>2. /\ b.rbuf = c.rbuf /\ b.in = c.in /\ b.peer = c.peer /\ b.notify = c.notify
        /\ b.wh = c.wh /\ b.wq = c.wq /\ b.full = c.full /\ b.armed = c.armed
    BY <1>0 DEF ConnRec
  <2> PICK d : d = Arm(b, "read")
    OBVIOUS
  <2>3. SameIo(b, d) /\ SameOut(b, d) /\ "read" \in d.armed
    BY <2>1, ArmIo
  <2>4. ReadIo(c).how = "pending" /\ ReadIo(c).c = d
    BY <1>2 DEF ReadIo
  <2>5. SameOut(c, d) /\ SameIo(c, d)
    BY <2>2, <2>3 DEF SameOut, SameIo
  <2>6. c.rbuf = <<>> => Polled(d)
    BY <1>2, <2>2, <2>3 DEF SameIo, Polled
  <2> QED  BY <2>4, <2>5, <2>6
<1>3. CASE c.in = <<>> /\ c.peer # "open"
  <2> PICK d : d = [c EXCEPT !.blocked = FALSE]
    OBVIOUS
  <2>1. ReadIo(c).how \in {"zero", "err"} /\ ReadIo(c).c = d
    BY <1>0, <1>3 DEF ReadIo
  <2>2. d.wh = c.wh /\ d.wq = c.wq /\ d.full = c.full /\ d.armed = c.armed
    BY <1>0 DEF ConnRec
  <2> QED  BY <2>1, <2>2 DEF SameOut
<1> QED  BY <1>1, <1>2, <1>3

\* State::try_keep_alive: a connection that becomes idle tells the loop.
LEMMA StateTryKeepAliveIo ==
  ASSUME NEW c, ConnOK(c)
  PROVE  LET d == StateTryKeepAlive(c)
         IN  Tells(c, d) /\ SameOut(c, d) /\ (d.writing = "Body" => c.writing = "Body")
<1>0. c \in ConnRec
  BY DEF ConnOK
<1> PICK d : d = StateTryKeepAlive(c)
  OBVIOUS
<1>1. d \in {Idle(c), Close(c), c}
  BY DEF StateTryKeepAlive
<1>2. CASE d = Idle(c)
  <2>1. d.notify /\ d.writing = "Init" /\ d.wh = c.wh /\ d.wq = c.wq /\ d.full = c.full /\ d.armed = c.armed
    BY <1>0, <1>2 DEF Idle, ConnRec
  <2> QED  BY <2>1 DEF Tells, SameOut
<1>3. CASE d = Close(c)
  BY <1>3, CloseOK, CloseIo DEF Tells
<1>4. CASE d = c
  BY <1>4 DEF Tells, SameOut, SameIo, SameState
<1> QED  BY <1>1, <1>2, <1>3, <1>4

\* Conn::maybe_notify: what it reads is told to the loop, and when it reads
\* nothing it leaves a waker behind.
LEMMA MaybeNotifyIo ==
  ASSUME NEW c, ConnOK(c)
  PROVE  LET d == MaybeNotify(c)
         IN  Tells(c, d) /\ SameOut(c, d) /\ (d.writing = "Body" => c.writing = "Body")
<1>0. c \in ConnRec
  BY DEF ConnOK
<1> DEFINE Good(d) == Tells(c, d) /\ SameOut(c, d) /\ (d.writing = "Body" => c.writing = "Body")
<1>1. CASE c.reading # "Init" \/ c.writing = "Body" \/ c.blocked
  <2>1. MaybeNotify(c) = c
    BY <1>1 DEF MaybeNotify
  <2> QED  BY <2>1 DEF Tells, SameOut, SameIo, SameState
<1>2. CASE ~(c.reading # "Init" \/ c.writing = "Body" \/ c.blocked) /\ c.rbuf # <<>>
  <2> PICK d : d = [c EXCEPT !.notify = TRUE]
    OBVIOUS
  <2>1. MaybeNotify(c) = d
    BY <1>2 DEF MaybeNotify
  <2>2. /\ d.notify /\ d.writing = c.writing
        /\ d.wh = c.wh /\ d.wq = c.wq /\ d.full = c.full /\ d.armed = c.armed
    BY <1>0 DEF ConnRec
  <2> QED  BY <2>1, <2>2 DEF Tells, SameOut
<1>3. CASE ~(c.reading # "Init" \/ c.writing = "Body" \/ c.blocked) /\ c.rbuf = <<>>
  <2> PICK io : io = ReadIo(c)
    OBVIOUS
  <2>1. /\ io.how \in {"some", "pending", "zero", "err"}
        /\ ConnOK(io.c) /\ SameState(c, io.c) /\ io.c \in ConnRec
    BY ReadIoOK DEF ConnOK
  <2>2. SameOut(c, io.c) /\ (io.how = "pending" => SameIo(c, io.c))
    BY ReadIoIo
  <2>3. io.c.writing = c.writing
    BY <2>1 DEF SameState
  <2>4. CASE io.how = "some"
    <3> PICK d : d = [io.c EXCEPT !.notify = TRUE]
      OBVIOUS
    <3>1. MaybeNotify(c) = d
      BY <1>3, <2>4 DEF MaybeNotify
    <3>2. /\ d.notify /\ d.writing = io.c.writing
          /\ d.wh = io.c.wh /\ d.wq = io.c.wq /\ d.full = io.c.full /\ d.armed = io.c.armed
      BY <2>1 DEF ConnRec
    <3> QED  BY <2>2, <2>3, <3>1, <3>2 DEF Tells, SameOut
  <2>5. CASE io.how = "pending"
    <3>1. MaybeNotify(c) = io.c
      BY <1>3, <2>5 DEF MaybeNotify
    <3> QED  BY <2>1, <2>2, <2>3, <2>5, <3>1 DEF Tells
  <2>6. CASE io.how = "zero"
    <3>1. MaybeNotify(c) = IF c.ka = "Idle" THEN Close(io.c) ELSE CloseRead(io.c)
      BY <1>3, <2>6 DEF MaybeNotify
    <3>2. /\ Close(io.c).reading = "Closed" /\ Close(io.c).writing = "Closed" /\ SameOut(io.c, Close(io.c))
          /\ CloseRead(io.c).reading = "Closed" /\ CloseRead(io.c).writing = c.writing
          /\ SameOut(io.c, CloseRead(io.c))
      BY <2>1, <2>3, CloseOK, CloseReadOK, CloseIo, CloseReadIo
    <3> QED  BY <2>2, <3>1, <3>2 DEF Tells, SameOut
  <2>7. CASE io.how = "err"
    <3> PICK k : k = Close(io.c)
      OBVIOUS
    <3>1. k.reading = "Closed" /\ k.writing = "Closed" /\ SameOut(io.c, k) /\ k \in ConnRec
      BY <2>1, CloseOK, CloseIo DEF ConnOK
    <3> PICK d : d = [k EXCEPT !.error = TRUE, !.notify = TRUE]
      OBVIOUS
    <3>2. MaybeNotify(c) = d
      BY <1>3, <2>7 DEF MaybeNotify
    <3>3. /\ d.notify /\ d.writing = k.writing
          /\ d.wh = k.wh /\ d.wq = k.wq /\ d.full = k.full /\ d.armed = k.armed
      BY <3>1 DEF ConnRec
    <3> QED  BY <2>2, <3>1, <3>2, <3>3 DEF Tells, SameOut
  <2> QED  BY <2>1, <2>4, <2>5, <2>6, <2>7
<1> QED  BY <1>1, <1>2, <1>3

\* Conn::try_keep_alive, from the two.
LEMMA TryKeepAliveIo ==
  ASSUME NEW c, ConnOK(c)
  PROVE  LET d == TryKeepAlive(c)
         IN  Tells(c, d) /\ SameOut(c, d) /\ (d.writing = "Body" => c.writing = "Body")
<1> PICK k : k = StateTryKeepAlive(c)
  OBVIOUS
<1> PICK d : d = MaybeNotify(k)
  OBVIOUS
<1>1. ConnOK(k) /\ Tells(c, k) /\ SameOut(c, k) /\ (k.writing = "Body" => c.writing = "Body")
  BY StateTryKeepAliveOK, StateTryKeepAliveIo
<1>2. Tells(k, d) /\ SameOut(k, d) /\ (d.writing = "Body" => k.writing = "Body")
  BY <1>1, MaybeNotifyIo
<1>3. SameOut(c, d)
  BY <1>1, <1>2 DEF SameOut
<1>4. Tells(c, d)
  BY <1>1, <1>2 DEF Tells, SameIo, SameState
<1> QED  BY <1>1, <1>2, <1>3, <1>4 DEF TryKeepAlive

\* Buffered::parse that is pending has polled the socket.
LEMMA ParseHeadPolls ==
  ASSUME NEW c, ConnOK(c), ParseHead(c).how = "pending"
  PROVE  Polled(ParseHead(c).c)
<1>1. \A e : ConnOK(e) /\ FillHead(e).how = "pending" => Polled(FillHead(e).c)
  <2> TAKE e
  <2> HAVE ConnOK(e) /\ FillHead(e).how = "pending"
  <2> PICK s : s = SkipInfo(e)
    OBVIOUS
  <2>1. ConnOK(s)
    BY SkipInfoOK
  <2>2. s.rbuf = <<>> /\ FillHead(e) = ReadIo(s)
    BY DEF FillHead
  <2> QED  BY <2>1, <2>2, ReadIoIo
<1> PICK a : a = FillHead(c)
  OBVIOUS
<1>2. ConnOK(a.c)
  BY FillHeadOK
<1>3. ParseHead(c) = IF a.how = "some" THEN FillHead(a.c) ELSE a
  BY DEF ParseHead
<1> QED  BY <1>1, <1>2, <1>3

\* Conn::poll_read_body that is pending has polled the socket and left the
\* other wakers.
LEMMA PollReadBodyPolls ==
  ASSUME NEW c, ConnOK(c), c.reading = "Body", PollReadBody(c).how = "pending"
  PROVE  LET d == PollReadBody(c).c
         IN  Polled(d) /\ SameState(c, d) /\ SameIo(c, d)
<1> PICK d : d = Decode(c)
  OBVIOUS
<1> DEFINE a == IF c.rbuf = <<>> THEN ReadIo(c) ELSE [how |-> "some", c |-> c]
<1>1. d.how = "pending" /\ PollReadBody(c).c = d.c
  BY DEF PollReadBody
<1>2. a.how \in {"some", "pending", "zero", "err"}
  BY ReadIoOK
<1>3. a.how = "pending" /\ d = a
  <2> DEFINE n == IF c.dec = "length" THEN Least(c.left, Len(a.c.rbuf))
                  ELSE IF c.dec = "eof" THEN Len(a.c.rbuf) ELSE 1
             b == [a.c EXCEPT !.rbuf = SubSeq(@, n + 1, Len(@)),
                              !.left = IF c.dec = "length" THEN @ - n ELSE @]
  <2>1. d = CASE a.how \in {"pending", "err"} -> a
              [] a.how = "zero" -> [how |-> IF c.dec = "eof" THEN "end" ELSE "err", c |-> a.c]
              [] a.how = "some" ->
                   CASE c.dec # "chunked" \/ a.c.rbuf[1] = "data" -> [how |-> "data", c |-> b]
                     [] c.dec = "chunked" /\ a.c.rbuf[1] = "end"  -> [how |-> "end", c |-> b]
                     [] c.dec = "chunked" /\ a.c.rbuf[1] = "trail" -> [how |-> "trail", c |-> b]
                     [] OTHER -> [how |-> "err", c |-> a.c]
    BY DEF Decode
  <2> HIDE DEF a, b
  <2> QED  BY <1>1, <1>2, <2>1
<1>4. c.rbuf = <<>> /\ a = ReadIo(c)
  BY <1>3
<1>5. Polled(a.c) /\ SameIo(c, a.c) /\ SameState(c, a.c)
  BY <1>3, <1>4, ReadIoIo, ReadIoOK
<1> QED  BY <1>1, <1>3, <1>5

\* Conn::poll_read_keep_alive that goes well has polled the socket, unless
\* bytes wait for the request to be written.
LEMMA PollReadKeepAlivePolls ==
  ASSUME NEW c, ConnOK(c), PollReadKeepAlive(c).how = "ok"
  PROVE  LET d == PollReadKeepAlive(c).c
         IN  \/ d.reading = "Closed"
             \/ SameState(c, d) /\ (Polled(d) \/ (IsMidMessage(c) /\ d.rbuf # <<>>))
<1> DEFINE Good(d) == \/ d.reading = "Closed"
                      \/ SameState(c, d) /\ (Polled(d) \/ (IsMidMessage(c) /\ d.rbuf # <<>>))
<1> PICK io : io = ReadIo(c)
  OBVIOUS
<1>1. /\ io.how \in {"some", "pending", "zero", "err"} /\ ConnOK(io.c) /\ SameState(c, io.c)
      /\ io.how = "some" => io.c.rbuf # <<>>
      /\ io.how = "pending" /\ c.rbuf = <<>> => Polled(io.c)
  BY ReadIoOK, ReadIoIo
<1>2. CloseRead(io.c).reading = "Closed"
  BY <1>1, CloseReadOK
<1>3. SameState(c, c)
  BY DEF SameState
<1>4. CASE c.reading = "Closed"
  BY <1>4 DEF PollReadKeepAlive
<1>5. CASE c.reading # "Closed" /\ IsMidMessage(c)
  <2>1. PollReadKeepAlive(c) = MidMessageDetectEof(c)
    BY <1>5 DEF PollReadKeepAlive
  <2>2. CASE c.rbuf # <<>>
    <3>1. MidMessageDetectEof(c).c = c
      BY <2>2 DEF MidMessageDetectEof
    <3> QED  BY <1>3, <1>5, <2>1, <2>2, <3>1
  <2>3. CASE c.rbuf = <<>>
    <3>1. io.how \in {"some", "pending"} /\ MidMessageDetectEof(c).c = io.c
      BY <1>1, <2>1, <2>3 DEF MidMessageDetectEof
    <3> QED  BY <1>1, <1>5, <2>1, <2>3, <3>1
  <2> QED  BY <2>2, <2>3
<1>6. CASE c.reading # "Closed" /\ ~IsMidMessage(c)
  <2>1. PollReadKeepAlive(c) = RequireEmptyRead(c)
    BY <1>6 DEF PollReadKeepAlive
  <2>2. /\ c.rbuf = <<>> /\ io.how \in {"pending", "zero"}
        /\ io.how = "pending" => RequireEmptyRead(c).c = io.c
        /\ io.how = "zero" => RequireEmptyRead(c).c = CloseRead(io.c)
    BY <1>1, <2>1 DEF RequireEmptyRead
  <2> QED  BY <1>1, <1>2, <2>1, <2>2
<1> QED  BY <1>4, <1>5, <1>6

\* Adding to the write buffer, ending a request and breaking it off read
\* nothing and lose no waker.
LEMMA BufferIo ==
  ASSUME NEW c, c \in ConnRec, NEW n
  PROVE  SameIo(c, Buffer(c, n)) /\ SameIo(c, Finished(c)) /\ SameIo(c, BreakOff(c))
<1> PICK i, j : i = c.wh + n /\ j = c.wq + n
  OBVIOUS
<1>1. SameIo(c, [c EXCEPT !.wh = i]) /\ SameIo(c, [c EXCEPT !.wq = j])
  BY DEF ConnRec, SameIo
<1>2. SameIo(c, Finished(c)) /\ SameIo(c, BreakOff(c))
  BY DEF ConnRec, SameIo, Finished, BreakOff
<1>3. Buffer(c, n) \in {[c EXCEPT !.wh = i], [c EXCEPT !.wq = j]}
  BY DEF Buffer
<1> QED  BY <1>1, <1>2, <1>3, Zenon

\* One after the other.
LEMMA SameIoTrans ==
  ASSUME NEW c, NEW d, NEW e, SameIo(c, d), SameIo(d, e)
  PROVE  SameIo(c, e)
BY DEF SameIo

\* The methods that write a request body.
LEMMA WriteBodyIo ==
  ASSUME NEW c, ConnOK(c), c.writing = "Body", NEW n \in Nat
  PROVE  /\ SameIo(c, WriteBody(c, n)) /\ SameIo(c, WriteBodyAndEnd(c, n))
         /\ SameIo(c, EndBody(c).c)
         /\ \A d \in WriteTrailers(c) : SameIo(c, d)
<1>0. c \in ConnRec /\ c.wleft \in Nat /\ c.enc \in {"length", "chunked"} /\ 1 \in Nat
  BY DEF ConnOK, ConnRec
<1> PICK k : k = Kept(c, n)
  OBVIOUS
<1>1. k \in Nat
  BY <1>0 DEF Kept, Least
<1> PICK b, e : b = Buffer(c, k) /\ e = Buffer(c, 1)
  OBVIOUS
<1>2. b \in ConnRec /\ e \in ConnRec
  BY <1>0, <1>1, BufferOK DEF ConnOK
<1>3. SameIo(c, b) /\ SameIo(b, Finished(b)) /\ SameIo(b, BreakOff(b))
  BY <1>0, <1>2, BufferIo
<1>4. SameIo(c, e) /\ SameIo(e, Finished(e)) /\ SameIo(c, BreakOff(c))
  BY <1>0, <1>2, BufferIo
<1> PICK m : m = b.wleft - n
  OBVIOUS
<1> PICK x : x = [b EXCEPT !.wleft = m]
  OBVIOUS
<1>5. SameIo(b, x)
  BY <1>2 DEF ConnRec, SameIo
<1>6. SameIo(c, Finished(b)) /\ SameIo(c, BreakOff(b)) /\ SameIo(c, x) /\ SameIo(c, Finished(e))
  BY <1>3, <1>4, <1>5, SameIoTrans
<1>7. SameIo(c, WriteBody(c, n))
  <2>1. n >= c.wleft \/ n < c.wleft
    BY <1>0
  <2>2. WriteBody(c, n) \in {Finished(b), x, b}
    BY <1>0, <2>1 DEF WriteBody
  <2> QED  BY <1>3, <1>6, <2>2
<1>8. SameIo(c, WriteBodyAndEnd(c, n))
  <2>1. WriteBodyAndEnd(c, n) \in {Finished(b), BreakOff(b)}
    BY DEF WriteBodyAndEnd, BreakOff
  <2> QED  BY <1>6, <2>1
<1>9. SameIo(c, EndBody(c).c)
  <2>1. EndBody(c).c \in {Finished(e), BreakOff(c)}
    BY DEF EndBody, BreakOff
  <2> QED  BY <1>4, <1>6, <2>1
<1>10. ASSUME NEW d \in WriteTrailers(c)
       PROVE  SameIo(c, d)
  <2>1. d = c \/ d = Finished(e)
    BY DEF WriteTrailers
  <2>2. SameIo(c, c)
    BY DEF SameIo
  <2> QED  BY <1>6, <2>1, <2>2
<1> QED  BY <1>7, <1>8, <1>9, <1>10

\* Conn::write_head.
LEMMA WriteHeadIo ==
  ASSUME NEW c, ConnOK(c), NEW e, NEW d \in WriteHead(c, e)
  PROVE  SameIo(c, d)
<1>0. c \in ConnRec /\ "Body" \in Halves /\ "KeepAlive" \in Halves
  BY DEF ConnOK, Halves
<1> PICK a : a = Busy(c)
  OBVIOUS
<1>1. a \in ConnRec /\ SameIo(c, a)
  <2>1. [c EXCEPT !.ka = "Busy"] \in ConnRec /\ SameIo(c, [c EXCEPT !.ka = "Busy"])
    BY <1>0 DEF ConnRec, SameIo
  <2>2. SameIo(c, c)
    BY DEF SameIo
  <2> QED  BY <1>0, <2>1, <2>2 DEF Busy
<1> PICK m : m = a.wh + 2
  OBVIOUS
<1> PICK b : b = [a EXCEPT !.wh = m]
  OBVIOUS
<1>2. m \in Nat
  BY <1>1 DEF ConnRec
<1>3. b \in ConnRec /\ SameIo(a, b)
  BY <1>1, <1>2 DEF ConnRec, SameIo
<1> PICK p, q : p = e.enc /\ q = e.len
  OBVIOUS
<1> DEFINE g == [b EXCEPT !.writing = "Body", !.enc = p, !.wleft = q, !.out = "part"]
           w == IF e = [enc |-> "length", len |-> 0] THEN Finished(b) ELSE g
           Dis(v) == [v EXCEPT !.ka = "Disabled"]
<1>4. WriteHead(c, e) = {w} \cup {Dis(w) : v \in {c.version} \cap {10}}
  BY DEF WriteHead
<1>5. SameIo(b, Finished(b)) /\ SameIo(b, g)
  <2>1. SameIo(b, Finished(b))
    BY <1>3, BufferIo
  <2>2. SameIo(b, g)
    BY <1>3 DEF ConnRec, SameIo
  <2> QED  BY <2>1, <2>2
<1>6. SameIo(Finished(b), Dis(Finished(b))) /\ SameIo(g, Dis(g))
  BY <1>3 DEF ConnRec, SameIo, Finished
<1>7. SameIo(b, w) /\ SameIo(w, Dis(w))
  BY <1>5, <1>6
<1> HIDE DEF w, Dis
<1>8. d = w \/ d = Dis(w)
  BY <1>4
<1> QED  BY <1>1, <1>3, <1>7, <1>8, SameIoTrans

\* What telling the loop of d says, seen from a connection that only wrote.
LEMMA TellsAfter ==
  ASSUME NEW c, NEW d, NEW e, SameState(c, d), SameIo(c, d), Tells(d, e)
  PROVE  Tells(c, e)
BY DEF Tells, SameState, SameIo

\* Conn::poll_flush: it is ready with nothing left to write, or it is pending
\* and the socket will wake the task; what it notices is told to the loop.
LEMMA PollFlushIo ==
  ASSUME NEW c, ConnOK(c), NEW f \in PollFlush(c)
  PROVE  /\ Tells(c, f.c) /\ c.armed \subseteq f.c.armed
         /\ f.c.writing = "Body" => c.writing = "Body"
         /\ f.how = "ready" => f.c.wh + f.c.wq = 0 /\ ~Stuck(c)
         /\ f.how = "pending" => Stuck(f.c) /\ SameState(c, f.c) /\ SameIo(c, f.c)
         /\ c.wq = 0 => f.c.wq = 0
<1>0. c \in ConnRec /\ c.wh \in Nat /\ c.wq \in Nat /\ c.full \in BOOLEAN
  BY DEF ConnOK, ConnRec
<1> DEFINE w == c.wh + c.wq
           e == [c EXCEPT !.wh = 0, !.wq = 0]
           Rest(m) == [how |-> "pending",
                       c |-> Arm(Flushed(c, m - Least(m, c.wq), Least(m, c.wq), TRUE), "write")]
           A == {[how |-> "ready", c |-> TryKeepAlive(c)]}
           B == {[how |-> "err", c |-> c]}
           C == {[how |-> "pending", c |-> Arm(c, "write")]}
           D == {[how |-> "ready", c |-> TryKeepAlive(e)]} \cup {Rest(m) : m \in 1..(w - 1)}
           Good == /\ Tells(c, f.c) /\ c.armed \subseteq f.c.armed
                   /\ f.c.writing = "Body" => c.writing = "Body"
                   /\ f.how = "ready" => f.c.wh + f.c.wq = 0 /\ ~Stuck(c)
                   /\ f.how = "pending" => Stuck(f.c) /\ SameState(c, f.c) /\ SameIo(c, f.c)
                   /\ c.wq = 0 => f.c.wq = 0
<1>1. PollFlush(c) = CASE w = 0 -> A
                       [] w > 0 /\ c.peer = "reset" -> B
                       [] w > 0 /\ c.peer # "reset" /\ c.full -> C
                       [] OTHER -> D
  BY Zenon DEF PollFlush, Flushed
<1>2. w \in Nat
  BY <1>0
<1>3. (w = 0 /\ ~(w > 0)) \/ (w > 0 /\ w # 0)
  <2> HIDE DEF w
  <2> QED  BY <1>2
<1>4. \/ w = 0 /\ f \in A
      \/ f \in B
      \/ w > 0 /\ c.full /\ f \in C
      \/ w > 0 /\ ~c.full /\ f \in D
  <2> HIDE DEF A, B, C, D, w
  <2> QED  BY <1>1, <1>3
<1>5. SameState(c, c) /\ SameIo(c, c)
  BY DEF SameState, SameIo
<1>6. CASE w = 0 /\ f \in A
  <2> PICK d : d = TryKeepAlive(c)
    OBVIOUS
  <2>1. f.how = "ready" /\ f.c = d
    BY <1>6
  <2>2. Tells(c, d) /\ SameOut(c, d) /\ (d.writing = "Body" => c.writing = "Body")
    BY TryKeepAliveIo
  <2>3. d.wh = c.wh /\ d.wq = c.wq /\ c.armed \subseteq d.armed
    BY <2>2 DEF SameOut
  <2>4. ~Stuck(c)
    BY <1>3, <1>6 DEF Stuck
  <2> QED  BY <1>6, <2>1, <2>2, <2>3, <2>4
<1>7. CASE f \in B
  <2>1. f.how = "err" /\ f.c = c
    BY <1>7
  <2> QED  BY <1>5, <2>1 DEF Tells
<1>8. CASE w > 0 /\ c.full /\ f \in C
  <2> PICK d : d = Arm(c, "write")
    OBVIOUS
  <2>1. f.how = "pending" /\ f.c = d
    BY <1>8
  <2>2. SameIo(c, d) /\ SameOut(c, d) /\ "write" \in d.armed
    BY <1>0, ArmIo
  <2>3. SameState(c, d)
    BY ArmOK DEF Wakers
  <2>4. d.wh = c.wh /\ d.wq = c.wq /\ d.full = c.full /\ c.armed \subseteq d.armed
    BY <2>2 DEF SameOut
  <2>5. Stuck(d)
    BY <1>8, <2>2, <2>4 DEF Stuck
  <2>6. Tells(c, d) /\ d.writing = c.writing
    BY <2>2, <2>3 DEF Tells, SameState
  <2> QED  BY <2>1, <2>2, <2>3, <2>4, <2>5, <2>6
<1>9. CASE w > 0 /\ ~c.full /\ f \in D
  <2>1. \/ f = [how |-> "ready", c |-> TryKeepAlive(e)]
        \/ \E m \in 1..(w - 1) : f = Rest(m)
    <3> HIDE DEF Rest, e, w
    <3> QED  BY <1>9 DEF e
  <2>2. ConnOK(e) /\ SameState(c, e) /\ SameIo(c, e) /\ e.wh = 0 /\ e.wq = 0 /\ e.armed = c.armed
    <3>1. e \in ConnRec /\ SameState(c, e)
      BY <1>0 DEF ConnRec, SameState
    <3>2. SameIo(c, e) /\ e.wh = 0 /\ e.wq = 0 /\ e.armed = c.armed
      BY <1>0 DEF ConnRec, SameIo
    <3> QED  BY <3>1, <3>2, SameStateOK
  <2> HIDE DEF e
  <2>3. ~Stuck(c)
    BY <1>9 DEF Stuck
  <2>4. CASE f = [how |-> "ready", c |-> TryKeepAlive(e)]
    <3> PICK d : d = TryKeepAlive(e)
      OBVIOUS
    <3>1. f.how = "ready" /\ f.c = d
      BY <2>4
    <3>2. Tells(e, d) /\ SameOut(e, d) /\ (d.writing = "Body" => e.writing = "Body")
      BY <2>2, TryKeepAliveIo
    <3>3. d.wh = 0 /\ d.wq = 0 /\ c.armed \subseteq d.armed /\ d.wh + d.wq = 0
      BY <2>2, <3>2 DEF SameOut
    <3>4. Tells(c, d) /\ e.writing = c.writing
      BY <2>2, <3>2, TellsAfter DEF SameState
    <3> QED  BY <2>3, <3>1, <3>2, <3>3, <3>4
  <2>5. ASSUME NEW m \in 1..(w - 1), f = Rest(m)
        PROVE  Good
    <3> PICK q, h : q = Least(m, c.wq) /\ h = m - Least(m, c.wq)
      OBVIOUS
    <3>1. q \in Nat /\ h \in Nat /\ h + q > 0 /\ (c.wq = 0 => q = 0)
      BY <1>0, <1>2 DEF Least
    <3> PICK g : g = Flushed(c, h, q, TRUE)
      OBVIOUS
    <3>2. ConnOK(g) /\ SameState(c, g)
      BY <3>1, FlushedOK
    <3>3. SameIo(c, g) /\ g.wh = h /\ g.wq = q /\ g.full = TRUE
      BY <1>0 DEF Flushed, ConnRec, SameIo
    <3> PICK d : d = Arm(g, "write")
      OBVIOUS
    <3>4. f.how = "pending" /\ f.c = d
      BY <2>5
    <3>5. SameState(g, d)
      BY <3>2, ArmOK DEF Wakers
    <3>6. SameIo(g, d) /\ SameOut(g, d) /\ "write" \in d.armed
      BY <3>2, ArmIo DEF ConnOK
    <3>7. d.wh = h /\ d.wq = q /\ d.full = TRUE
      BY <3>3, <3>6 DEF SameOut
    <3>8. Stuck(d)
      BY <3>1, <3>6, <3>7 DEF Stuck
    <3>9. SameState(c, d) /\ SameIo(c, d)
      <4>1. SameIo(c, d)
        BY <3>3, <3>6, SameIoTrans
      <4>2. SameState(c, d)
        BY <3>2, <3>5, Zenon DEF SameState
      <4> QED  BY <4>1, <4>2
    <3>10. Tells(c, d) /\ d.writing = c.writing /\ c.armed \subseteq d.armed
      BY <3>9 DEF Tells, SameState, SameIo
    <3>11. c.wq = 0 => d.wq = 0
      BY <3>1, <3>7
    <3> HIDE DEF Rest
    <3> QED  BY <3>4, <3>8, <3>9, <3>10, <3>11, Zenon
  <2> QED  BY <2>1, <2>4, <2>5
<1> QED  BY <1>4, <1>6, <1>7, <1>8, <1>9

-----------------------------------------------------------------------------
(* WriteStrategy::Flatten.  Reading never touches the queue of buffers, and *)
(* flattened writes leave it alone too.                                     *)

\* The queue is as it was.
SameQueue(c, d) == d.wq = c.wq

\* Conn::poll_read_head up to the parsed head.
LEMMA ParseHeadQueue ==
  ASSUME NEW c, ConnOK(c)
  PROVE  SameQueue(c, ParseHead(c).c)
<1>1. ASSUME NEW e, ConnOK(e)
      PROVE  SameQueue(e, FillHead(e).c)
  <2> DEFINE n == CHOOSE n \in 0..Len(e.rbuf) : /\ \A i \in 1..n : e.rbuf[i] = "info"
                                                /\ n < Len(e.rbuf) => e.rbuf[n + 1] # "info"
  <2> PICK b : b = SubSeq(e.rbuf, n + 1, Len(e.rbuf))
    OBVIOUS
  <2> PICK s : s = [e EXCEPT !.rbuf = b]
    OBVIOUS
  <2>1. SkipInfo(e) = s
    BY DEF SkipInfo
  <2> HIDE DEF n
  <2>2. ConnOK(s) /\ s.wq = e.wq
    <3>1. ConnOK(s)
      BY <1>1, <2>1, SkipInfoOK
    <3>2. e \in ConnRec
      BY <1>1 DEF ConnOK
    <3> QED  BY <3>1, <3>2 DEF ConnRec
  <2>3. FillHead(e) = IF s.rbuf = <<>> THEN ReadIo(s) ELSE [how |-> "some", c |-> s]
    BY <2>1 DEF FillHead
  <2>4. ReadIo(s).c.wq = s.wq
    BY <2>2, ReadIoIo DEF SameOut
  <2> QED  BY <2>2, <2>3, <2>4 DEF SameQueue
<1> PICK a : a = FillHead(c)
  OBVIOUS
<1>2. ConnOK(a.c) /\ SameQueue(c, a.c) /\ SameQueue(a.c, FillHead(a.c).c)
  BY <1>1, FillHeadOK
<1>3. ParseHead(c) = IF a.how = "some" THEN FillHead(a.c) ELSE a
  BY DEF ParseHead
<1> QED  BY <1>2, <1>3 DEF SameQueue

\* Conn::try_keep_alive.
LEMMA TryKeepAliveQueue ==
  ASSUME NEW c, ConnOK(c)
  PROVE  SameQueue(c, TryKeepAlive(c))
BY TryKeepAliveIo DEF SameOut, SameQueue

\* The rest of Conn::poll_read_head.
LEMMA AcceptHeadQueue ==
  ASSUME NEW c, ConnOK(c), c.reading = "Init", c.writing # "Init", c.rbuf # <<>>, NEW t \in Heads
  PROVE  SameQueue(c, AcceptHead(c, t))
<1>0. c \in ConnRec /\ c.ka \in {"Busy", "Disabled"}
  BY DEF ConnOK, ConnRec
<1>1. Busy(c) = c
  <2>1. CASE c.ka = "Disabled"
    BY <2>1 DEF Busy
  <2>2. CASE c.ka = "Busy"
    <3>1. c = [c EXCEPT !.ka = "Busy"]
      BY <1>0, <2>2 DEF ConnRec
    <3> QED  BY <2>2, <3>1 DEF Busy
  <2> QED  BY <1>0, <2>1, <2>2
<1> PICK k : k = WithHead(c, t)
  OBVIOUS
<1>2. ConnOK(k) /\ k.reading = "Init" /\ k.writing = c.writing /\ k \in ConnRec
  BY WithHeadOK DEF ConnOK
<1>3. k.wq = c.wq
  BY <1>0 DEF WithHead, ConnRec
<1> PICK f, m : f = Decoder(t) /\ m = IF t = "len" THEN BodyLen ELSE 0
  OBVIOUS
<1> PICK x, y : x = [k EXCEPT !.reading = "KeepAlive"] /\ y = BeginBody(k, f, m)
  OBVIOUS
<1>4. AcceptHead(c, t) = IF f = "none" THEN TryKeepAlive(x) ELSE y
  BY <1>1 DEF AcceptHead, WithHead, BeginBody
<1>5. x.wq = k.wq /\ y.wq = k.wq
  BY <1>2 DEF BeginBody, ConnRec
<1>6. ConnOK(x)
  <2>1. /\ x \in ConnRec /\ x.reading = "KeepAlive" /\ x.writing = k.writing /\ x.dec = k.dec /\ x.enc = k.enc
        /\ x.out = k.out /\ x.ka = k.ka /\ x.said = k.said
    BY <1>2, ZenonT(90) DEF ConnRec, Halves
  <2> QED  BY <1>2, <2>1 DEF ConnOK
<1> QED  BY <1>3, <1>4, <1>5, <1>6, TryKeepAliveQueue DEF SameQueue

\* Conn::poll_read_body.
LEMMA PollReadBodyQueue ==
  ASSUME NEW c, ConnOK(c), c.reading = "Body"
  PROVE  SameQueue(c, PollReadBody(c).c)
<1> DEFINE a == IF c.rbuf = <<>> THEN ReadIo(c) ELSE [how |-> "some", c |-> c]
<1>1. ConnOK(a.c) /\ a.c.wq = c.wq /\ a.how \in {"some", "pending", "zero", "err"} /\ a.c \in ConnRec
  BY ReadIoOK, ReadIoIo DEF SameOut, ConnOK
<1> DEFINE n == IF c.dec = "length" THEN Least(c.left, Len(a.c.rbuf))
                ELSE IF c.dec = "eof" THEN Len(a.c.rbuf) ELSE 1
           q == SubSeq(a.c.rbuf, n + 1, Len(a.c.rbuf))
           m == IF c.dec = "length" THEN a.c.left - n ELSE a.c.left
           b == TakePiece(a.c, q, m)
<1>2. Decode(c) = CASE a.how \in {"pending", "err"} -> a
        [] a.how = "zero" -> [how |-> IF c.dec = "eof" THEN "end" ELSE "err", c |-> a.c]
        [] a.how = "some" ->
             CASE c.dec # "chunked" \/ a.c.rbuf[1] = "data" -> [how |-> "data", c |-> b]
               [] c.dec = "chunked" /\ a.c.rbuf[1] = "end"  -> [how |-> "end", c |-> b]
               [] c.dec = "chunked" /\ a.c.rbuf[1] = "trail" -> [how |-> "trail", c |-> b]
               [] OTHER -> [how |-> "err", c |-> a.c]
  BY DEF Decode, TakePiece
<1> HIDE DEF a, n, q, m
<1>3. b.wq = c.wq
  BY <1>1 DEF TakePiece, ConnRec
<1> HIDE DEF b
<1> PICK d : d = Decode(c)
  OBVIOUS
<1>4. d.c = a.c \/ d.c = b
  BY <1>1, <1>2
<1>5. d.c.wq = c.wq
  BY <1>1, <1>3, <1>4
<1>6. ConnOK(d.c) /\ d.c.reading = "Body" /\ d.c \in ConnRec
  BY DecodeOK DEF ConnOK
<1> PICK x, y : x = LeaveBody(d.c, "KeepAlive") /\ y = CloseBody(d.c)
  OBVIOUS
<1>7. ConnOK(x) /\ ConnOK(y)
  BY <1>6, LeaveBodyOK, CloseBodyOK
<1>8. x.wq = d.c.wq /\ y.wq = d.c.wq
  BY <1>6 DEF LeaveBody, CloseBody, ConnRec
<1>9. PollReadBody(c).c \in {TryKeepAlive(x), TryKeepAlive(y), d.c}
  <2> DEFINE fin == \/ d.how \in {"end", "trail"}
                    \/ d.how = "data" /\ c.dec = "length" /\ d.c.left = 0
  <2>1. PollReadBody(c).c = CASE fin -> TryKeepAlive(x)
                              [] d.how = "err" -> TryKeepAlive(y)
                              [] OTHER -> d.c
    BY DEF PollReadBody, LeaveBody, CloseBody
  <2>2. ~(fin /\ d.how = "err")
    OBVIOUS
  <2> HIDE DEF fin
  <2> QED  BY <2>1, <2>2
<1> QED  BY <1>5, <1>7, <1>8, <1>9, TryKeepAliveQueue DEF SameQueue

\* Conn::poll_drain_or_close_read, and giving up on the read half.
LEMMA DrainQueue ==
  ASSUME NEW c, ConnOK(c), c.reading = "Body"
  PROVE  SameQueue(c, DrainOrCloseRead(c)) /\ SameQueue(c, CloseRead(PollReadBody(c).c))
<1> PICK d : d = PollReadBody(c).c
  OBVIOUS
<1>1. d \in ConnRec /\ d.wq = c.wq
  BY PollReadBodyOK, PollReadBodyQueue DEF ConnOK, SameQueue
<1>2. CloseRead(d).wq = c.wq
  BY <1>1, CloseReadIo DEF SameOut
<1> QED  BY <1>1, <1>2 DEF DrainOrCloseRead, SameQueue

\* Conn::poll_read_keep_alive.
LEMMA PollReadKeepAliveQueue ==
  ASSUME NEW c, ConnOK(c)
  PROVE  SameQueue(c, PollReadKeepAlive(c).c)
<1> PICK io : io = ReadIo(c)
  OBVIOUS
<1>1. io.how \in {"some", "pending", "zero", "err"} /\ ConnOK(io.c) /\ io.c \in ConnRec /\ io.c.wq = c.wq
  BY ReadIoOK, ReadIoIo DEF SameOut, ConnOK
<1>2. CloseRead(io.c).wq = c.wq /\ Close(io.c).wq = c.wq
  BY <1>1, CloseReadIo, CloseIo DEF SameOut
<1>3. MidMessageDetectEof(c).c \in {c, io.c, CloseRead(io.c), Close(io.c)}
  BY <1>1 DEF MidMessageDetectEof
<1>4. RequireEmptyRead(c).c \in {c, io.c, CloseRead(io.c), Close(io.c)}
  BY <1>1 DEF RequireEmptyRead
<1>5. PollReadKeepAlive(c).c \in {c, MidMessageDetectEof(c).c, RequireEmptyRead(c).c}
  BY DEF PollReadKeepAlive
<1> QED  BY <1>1, <1>2, <1>3, <1>4, <1>5 DEF SameQueue

\* The methods that write, when writes are flattened.
LEMMA WriteBodyQueue ==
  ASSUME Flatten, NEW c, ConnOK(c), c.writing = "Body", NEW n \in Nat
  PROVE  /\ SameQueue(c, WriteBody(c, n)) /\ SameQueue(c, WriteBodyAndEnd(c, n))
         /\ SameQueue(c, EndBody(c).c)
         /\ \A d \in WriteTrailers(c) : SameQueue(c, d)
<1>0. c \in ConnRec /\ c.wleft \in Nat /\ c.enc \in {"length", "chunked"} /\ 1 \in Nat
  BY DEF ConnOK, ConnRec
<1> PICK k : k = Kept(c, n)
  OBVIOUS
<1>1. k \in Nat
  BY <1>0 DEF Kept, Least
<1>2. ASSUME NEW j \in Nat
      PROVE  Buffer(c, j) \in ConnRec /\ Buffer(c, j).wq = c.wq
  <2> PICK i : i = c.wh + j
    OBVIOUS
  <2>1. Buffer(c, j) = [c EXCEPT !.wh = i]
    BY DEF Buffer
  <2>2. Buffer(c, j) \in ConnRec
    BY BufferOK DEF ConnOK
  <2> QED  BY <1>0, <2>1, <2>2 DEF ConnRec
<1>3. ASSUME NEW b \in ConnRec
      PROVE  Finished(b).wq = b.wq /\ BreakOff(b).wq = b.wq
  BY DEF ConnRec, Finished, BreakOff
<1> PICK b, e : b = Buffer(c, k) /\ e = Buffer(c, 1)
  OBVIOUS
<1> PICK m : m = b.wleft - n
  OBVIOUS
<1> PICK x : x = [b EXCEPT !.wleft = m]
  OBVIOUS
<1>4. b \in ConnRec /\ e \in ConnRec /\ b.wq = c.wq /\ e.wq = c.wq
  BY <1>0, <1>1, <1>2
<1>5. x.wq = b.wq
  BY <1>4 DEF ConnRec
<1>6. /\ Finished(b).wq = c.wq /\ BreakOff(b).wq = c.wq /\ x.wq = c.wq
      /\ Finished(e).wq = c.wq /\ BreakOff(c).wq = c.wq
  BY <1>0, <1>3, <1>4, <1>5
<1>7. SameQueue(c, WriteBody(c, n))
  <2>1. n >= c.wleft \/ n < c.wleft
    BY <1>0
  <2>2. WriteBody(c, n) \in {Finished(b), x, b}
    BY <1>0, <2>1 DEF WriteBody
  <2> QED  BY <1>4, <1>6, <2>2 DEF SameQueue
<1>8. SameQueue(c, WriteBodyAndEnd(c, n))
  <2>1. WriteBodyAndEnd(c, n) \in {Finished(b), BreakOff(b)}
    BY DEF WriteBodyAndEnd, BreakOff
  <2> QED  BY <1>6, <2>1 DEF SameQueue
<1>9. SameQueue(c, EndBody(c).c)
  <2>1. EndBody(c).c \in {Finished(e), BreakOff(c)}
    BY DEF EndBody, BreakOff
  <2> QED  BY <1>6, <2>1 DEF SameQueue
<1>10. ASSUME NEW d \in WriteTrailers(c)
       PROVE  SameQueue(c, d)
  <2>1. d = c \/ d = Finished(e)
    BY DEF WriteTrailers
  <2> QED  BY <1>6, <2>1 DEF SameQueue
<1> QED  BY <1>7, <1>8, <1>9, <1>10

\* Conn::write_head: the head goes to the flat buffer with either strategy.
LEMMA WriteHeadQueue ==
  ASSUME NEW c, ConnOK(c), NEW e, NEW d \in WriteHead(c, e)
  PROVE  SameQueue(c, d)
<1>0. c \in ConnRec
  BY DEF ConnOK
<1> PICK a : a = Busy(c)
  OBVIOUS
<1>1. a \in ConnRec /\ a.wq = c.wq
  <2>1. [c EXCEPT !.ka = "Busy"] \in ConnRec /\ [c EXCEPT !.ka = "Busy"].wq = c.wq
    BY <1>0 DEF ConnRec
  <2> QED  BY <1>0, <2>1 DEF Busy
<1> PICK m : m = a.wh + 2
  OBVIOUS
<1> PICK b : b = [a EXCEPT !.wh = m]
  OBVIOUS
<1>2. m \in Nat
  BY <1>1 DEF ConnRec
<1>3. b \in ConnRec /\ b.wq = a.wq
  BY <1>1, <1>2 DEF ConnRec
<1> PICK p, q : p = e.enc /\ q = e.len
  OBVIOUS
<1> DEFINE g == [b EXCEPT !.writing = "Body", !.enc = p, !.wleft = q, !.out = "part"]
           w == IF e = [enc |-> "length", len |-> 0] THEN Finished(b) ELSE g
           Dis(v) == [v EXCEPT !.ka = "Disabled"]
<1>4. WriteHead(c, e) = {w} \cup {Dis(w) : v \in {c.version} \cap {10}}
  BY DEF WriteHead
<1>5. /\ Finished(b).wq = b.wq /\ g.wq = b.wq
      /\ Dis(Finished(b)).wq = b.wq /\ Dis(g).wq = b.wq
  BY <1>3 DEF ConnRec, Finished
<1>6. w.wq = b.wq /\ Dis(w).wq = b.wq
  BY <1>5
<1> HIDE DEF w, Dis
<1>7. d = w \/ d = Dis(w)
  BY <1>4
<1> QED  BY <1>1, <1>3, <1>6, <1>7 DEF SameQueue
=============================================================================
