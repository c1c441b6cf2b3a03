-------------------------- MODULE Http2StreamProofs --------------------------
(***************************************************************************)
(* The two tasks that share an HTTP/2 connection with the client task.     *)
(*                                                                         *)
(* Uploads (PipeToSendStream and the PipeMap task), for any set of         *)
(* streams, any connection window and any bodies: no stream pins window    *)
(* it has no data for, no byte of a body is lost or doubled, the end of a  *)
(* stream is seen only behind a complete body, and the window is never     *)
(* exceeded by all the streams together.                                   *)
(*                                                                         *)
(* Keep-alive and bandwidth probing (ping.rs), for every interval, every   *)
(* timeout, every frame size and every bound on the clock.                 *)
(***************************************************************************)
EXTENDS Http2Pipe, Http2Ping, SequenceLemmas

-----------------------------------------------------------------------------
(* Uploads: the inductive invariant.                                       *)

\* What a pipe may wait for; the types of a pipe, its h2 stream and its body.
Event == {"reset", "capacity", "frame", "cancel"}
PipeRec == [pc : {"run", "parked", "ok", "err"}, stash : Nat, eos : BOOLEAN,
            armed : SUBSET Event, cancel : BOOLEAN]
H2Rec == [st : {"open", "eos", "reset"}, req : Nat, avail : Nat, buf : Nat, given : Nat]
SrcRec == [frames : Nat, taken : Nat, end : {"no", "clean", "error"}]

\* How one pipe p, its h2 stream h and its body b agree.  What is requested
\* lies between what is buffered and what is buffered or stashed: that is
\* why capacity is never assigned beyond the data.
Agree(p, h, b) ==
  /\ h.buf <= h.req /\ h.req <= h.buf + p.stash /\ h.avail <= h.buf + p.stash
  /\ h.st # "reset" => h.given + p.stash = b.taken
  /\ h.st = "eos" => b.end = "clean" /\ h.given = b.taken
  /\ p.eos => b.end = "clean"
  /\ p.pc = "err" => h.st = "reset"
  /\ p.pc = "parked" <=> p.armed # {}

\* p lists the capacity that streams e[1], ..., e[n] hold in h, added up.
Holds(h, s) == h[s].avail
AddsUp(h, p, e, n) ==
  /\ p[0] = 0
  /\ \A k \in 1..n : p[k] = p[k - 1] + Holds(h, e[k])

\* Whichever streams are added up, what they hold and the rest of the
\* connection window fit in it.
Balanced(h, rest) ==
  \A n \in Nat : \A e \in [1..n -> Stream] : \A p \in [0..n -> Int] :
    /\ \A i, j \in 1..n : e[i] = e[j] => i = j
    /\ AddsUp(h, p, e, n)
    => p[n] + rest <= Window

\* The inductive invariant.
PInv ==
  /\ pipe \in [Stream -> PipeRec] /\ h2 \in [Stream -> H2Rec] /\ src \in [Stream -> SrcRec]
  /\ win \in Nat /\ debt \in Nat
  /\ \A s \in Stream : Agree(pipe[s], h2[s], src[s])
  /\ Balanced(h2, win + debt)

-----------------------------------------------------------------------------
(* The window.                                                             *)

\* Capacity that one stream gains is missing from the rest of the window,
\* and the other way round.
LEMMA WindowMoves ==
  ASSUME NEW g, NEW h, NEW u \in Nat, NEW v \in Nat, NEW s \in Stream, NEW d \in Int,
         Balanced(g, u), v = u - d,
         \A t \in Stream : Holds(g, t) \in Nat,
         \A t \in Stream \ {s} : Holds(h, t) = Holds(g, t),
         Holds(h, s) = Holds(g, s) + d, Holds(h, s) \in Nat
  PROVE  Balanced(h, v)
<1> SUFFICES ASSUME NEW n \in Nat, NEW e \in [1..n -> Stream], NEW p \in [0..n -> Int],
                    \A i, j \in 1..n : e[i] = e[j] => i = j, AddsUp(h, p, e, n)
             PROVE  p[n] + v <= Window
  BY DEF Balanced
<1>1. Holds(g, s) \in Nat /\ Holds(g, s) + d >= 0 /\ Window \in Nat  BY PipeAssumption
<1>2. p[0] = 0 /\ \A k \in 1..n : p[k] = p[k - 1] + Holds(h, e[k])
  BY DEF AddsUp
<1>3. CASE \E j \in 1..n : e[j] = s
  <2>1. PICK j \in 1..n : e[j] = s  BY <1>3
  <2> DEFINE q == [k \in 0..n |-> IF k >= j THEN p[k] - d ELSE p[k]]
  <2>2. \A k \in 0..n : q[k] = (IF k >= j THEN p[k] - d ELSE p[k]) /\ p[k] \in Int
    OBVIOUS
  <2>3. q \in [0..n -> Int]  OBVIOUS
  <2> HIDE DEF q
  <2>4. q[0] = 0 /\ q[n] = p[n] - d
    <3>1. 0 \in 0..n /\ ~(0 >= j) /\ n \in 0..n /\ n >= j  OBVIOUS
    <3> QED  BY <1>2, <2>2, <3>1
  <2>5. ASSUME NEW k \in 1..n PROVE q[k] = q[k - 1] + Holds(g, e[k])
    <3>1. k \in 0..n /\ k - 1 \in 0..n /\ e[k] \in Stream
      OBVIOUS
    <3>2. p[k] \in Int /\ p[k - 1] \in Int /\ Holds(g, e[k]) \in Nat  BY <1>1, <3>1
    <3>3. CASE k < j
      <4>1. Holds(h, e[k]) = Holds(g, e[k])  BY <2>1, <3>1, <3>3
      <4>2. q[k] = p[k] /\ q[k - 1] = p[k - 1]  BY <2>2, <3>1, <3>3
      <4> QED  BY <1>2, <4>1, <4>2
    <3>4. CASE k = j
      <4>1. p[k] = p[k - 1] + Holds(h, s)  BY <1>2, <2>1, <3>4
      <4>2. q[k] = p[k] - d /\ q[k - 1] = p[k - 1]  BY <2>2, <3>1, <3>4
      <4>3. e[k] = s  BY <2>1, <3>4
      <4> QED  BY <1>1, <3>2, <4>1, <4>2, <4>3
    <3>5. CASE k > j
      <4>1. Holds(h, e[k]) = Holds(g, e[k])  BY <2>1, <3>1, <3>5
      <4>2. q[k] = p[k] - d /\ q[k - 1] = p[k - 1] - d  BY <2>2, <3>1, <3>5
      <4>3. p[k] = p[k - 1] + Holds(g, e[k])  BY <1>2, <4>1
      <4> QED  BY <3>2, <4>2, <4>3
    <3> QED  BY <3>3, <3>4, <3>5
  <2>6. AddsUp(g, q, e, n)  BY <2>4, <2>5 DEF AddsUp
  <2>7. q[n] + u <= Window  BY <2>3, <2>6 DEF Balanced
  <2>8. p[n] \in Int /\ (p[n] - d) + u <= Window  BY <2>4, <2>7
  <2> QED  BY <1>1, <2>8
<1>4. CASE \A j \in 1..n : e[j] # s
  <2> DEFINE f == [k \in 1..(n + 1) |-> IF k = n + 1 THEN s ELSE e[k]]
             q == [k \in 0..(n + 1) |-> IF k = n + 1 THEN p[n] + Holds(g, s) ELSE p[k]]
  <2>1. n + 1 \in Nat /\ f \in [1..(n + 1) -> Stream]  OBVIOUS
  <2>2. q \in [0..(n + 1) -> Int]  BY <1>1
  <2>3. \A i, j \in 1..(n + 1) : f[i] = f[j] => i = j
    BY <1>4
  <2>4. /\ \A k \in 1..n : f[k] = e[k]
        /\ f[n + 1] = s
        /\ \A k \in 0..n : q[k] = p[k]
        /\ q[n + 1] = p[n] + Holds(g, s)
    OBVIOUS
  <2> HIDE DEF f, q
  <2>5. ASSUME NEW k \in 1..(n + 1) PROVE q[k] = q[k - 1] + Holds(g, f[k])
    <3>1. CASE k = n + 1
      <4>1. k - 1 = n /\ n \in 0..n  BY <3>1
      <4> QED  BY <2>4, <3>1, <4>1
    <3>2. CASE k # n + 1
      <4>1. k \in 1..n /\ k \in 0..n /\ k - 1 \in 0..n  BY <3>2
      <4>2. e[k] \in Stream \ {s} /\ f[k] = e[k]  BY <1>4, <2>4, <4>1
      <4>3. q[k] = p[k] /\ q[k - 1] = p[k - 1]  BY <2>4, <4>1
      <4> QED  BY <1>2, <4>1, <4>2, <4>3
    <3> QED  BY <3>1, <3>2
  <2>6. q[0] = 0
    <3>1. 0 \in 0..n  OBVIOUS
    <3> QED  BY <1>2, <2>4, <3>1
  <2>7. AddsUp(g, q, f, n + 1)  BY <2>5, <2>6 DEF AddsUp
  <2>8. q[n + 1] + u <= Window  BY <2>1, <2>2, <2>3, <2>7 DEF Balanced
  <2>9. p[n] \in Int /\ (p[n] + Holds(g, s)) + u <= Window  BY <2>4, <2>8
  <2> QED  BY <1>1, <2>9
<1> QED  BY <1>3, <1>4

\* Arithmetic: if two totals agree, the rest changes by what the stream
\* gained.
LEMMA Gain ==
  ASSUME NEW a \in Nat, NEW b \in Nat, NEW u \in Nat, NEW v \in Nat, v + b = u + a
  PROVE  \E d \in Int : v = u - d /\ b = a + d
<1>1. b - a \in Int /\ v = u - (b - a) /\ b = a + (b - a)
  OBVIOUS
<1> QED  BY <1>1

\* A step that changes one pipe, its stream and its body, and moves window
\* between that stream and the rest, keeps the invariant if it keeps those
\* three in agreement.
LEMMA StreamStep ==
  ASSUME PInv, NEW s \in Stream, NEW p \in PipeRec, NEW h \in H2Rec, NEW b \in SrcRec,
         Agree(p, h, b),
         pipe' = [pipe EXCEPT ![s] = p], h2' = [h2 EXCEPT ![s] = h], src' = [src EXCEPT ![s] = b],
         NEW u \in Nat, u = win + debt, NEW v \in Nat, v = win' + debt',
         v + h.avail = u + h2[s].avail, win' \in Nat, debt' \in Nat
  PROVE  PInv'
<1>1. /\ pipe' \in [Stream -> PipeRec] /\ h2' \in [Stream -> H2Rec]
      /\ src' \in [Stream -> SrcRec]
  BY DEF PInv
<1>2. ASSUME NEW t \in Stream PROVE Agree(pipe'[t], h2'[t], src'[t])
  <2>1. CASE t = s
    <3>1. pipe'[t] = p /\ h2'[t] = h /\ src'[t] = b  BY <2>1 DEF PInv
    <3> QED  BY <3>1
  <2>2. CASE t # s
    <3>1. pipe'[t] = pipe[t] /\ h2'[t] = h2[t] /\ src'[t] = src[t]  BY <2>2 DEF PInv
    <3> QED  BY <3>1 DEF PInv
  <2> QED  BY <2>1, <2>2
<1>3. Balanced(h2', v)
  <2>1. \A t \in Stream : Holds(h2, t) \in Nat  BY DEF PInv, H2Rec, Holds
  <2>2. \A t \in Stream \ {s} : Holds(h2', t) = Holds(h2, t)  BY DEF PInv, Holds
  <2>3. Holds(h2', s) = h.avail /\ Holds(h2, s) = h2[s].avail  BY DEF PInv, Holds
  <2>4. h.avail \in Nat /\ h2[s].avail \in Nat  BY DEF PInv, H2Rec
  <2>5. PICK d \in Int : v = u - d /\ h.avail = h2[s].avail + d
    BY <2>4, Gain
  <2>6. Balanced(h2, u)  BY DEF PInv
  <2>7. Holds(h2', s) = Holds(h2, s) + d /\ Holds(h2', s) \in Nat  BY <2>3, <2>4, <2>5
  <2> QED  BY <2>1, <2>2, <2>5, <2>6, <2>7, WindowMoves, ZenonT(90)
<1> QED  BY <1>1, <1>2, <1>3 DEF PInv

-----------------------------------------------------------------------------
(* What the operations do to a pipe p, its stream h and its body b.        *)

\* Assign: n of the free window w, no more than is asked for.
LEMMA AssignRec ==
  ASSUME NEW p \in PipeRec, NEW h \in H2Rec, NEW b \in SrcRec, Agree(p, h, b),
         NEW w \in Nat, NEW n \in Nat, n <= w, h.avail + n <= h.req
  PROVE  LET g == [h EXCEPT !.avail = @ + n]
         IN  g \in H2Rec /\ Agree(p, g, b) /\ (w - n) + g.avail = w + h.avail
<1>1. h.req \in Nat /\ h.avail \in Nat /\ h.avail + n \in Nat  BY DEF H2Rec
<1>g. PICK g : g = [h EXCEPT !.avail = @ + n]  OBVIOUS
<1>2. /\ g \in H2Rec /\ g.avail = h.avail + n /\ g.st = h.st
      /\ g.req = h.req /\ g.buf = h.buf /\ g.given = h.given
  BY <1>1, <1>g DEF H2Rec
<1>3. Agree(p, g, b)  BY <1>1, <1>2 DEF Agree, PipeRec, H2Rec
<1>4. (w - n) + g.avail = w + h.avail  BY <1>1, <1>2
<1> QED  BY <1>g, <1>2, <1>3, <1>4

\* A reset frees what the stream held.
LEMMA ResetRec ==
  ASSUME NEW p \in PipeRec, NEW h \in H2Rec, NEW b \in SrcRec, Agree(p, h, b),
         NEW g, g = [h EXCEPT !.st = "reset", !.req = 0, !.avail = 0, !.buf = 0]
  PROVE  /\ g \in H2Rec /\ g.st = "reset" /\ g.avail = 0 /\ h.avail \in Nat
         /\ \A q \in PipeRec, c \in SrcRec :
              (q.eos => c.end = "clean") /\ (q.pc = "parked" <=> q.armed # {}) => Agree(q, g, c)
<1>1. h.avail \in Nat  BY DEF H2Rec
<1>2. g \in H2Rec /\ g.avail = 0 /\ g.st = "reset" /\ g.req = 0 /\ g.buf = 0
  BY DEF H2Rec
<1>3. \A q \in PipeRec : q.stash \in Nat  BY DEF PipeRec
<1> QED  BY <1>1, <1>2, <1>3 DEF Agree

\* reserve_capacity(n) for a stream: what it held beyond that is given back.
LEMMA ReserveRec ==
  ASSUME PInv, NEW s \in Stream, NEW n \in Nat
  PROVE  LET g == Reserved(s, n)
             h == h2[s]
         IN  /\ g \in H2Rec /\ Surplus(s, n) \in Nat /\ g.avail + Surplus(s, n) = h.avail
             /\ g.avail <= h.buf + n /\ g.req = h.buf + n
             /\ g.st = h.st /\ g.buf = h.buf /\ g.given = h.given
<1>1. PICK h \in H2Rec : h = h2[s]  BY DEF PInv
<1>2. h.avail \in Nat /\ h.buf \in Nat /\ h.buf + n \in Nat  BY DEF H2Rec
<1>3. PICK u \in Nat : u = IF h.avail > h.buf + n THEN h.avail - (h.buf + n) ELSE 0
  BY <1>2
<1>4. Surplus(s, n) = u  BY <1>1, <1>3 DEF Surplus
<1>5. h.avail - u \in Nat /\ h.avail - u <= h.buf + n  BY <1>2, <1>3
<1>6. Reserved(s, n) = [h EXCEPT !.req = h.buf + n, !.avail = h.avail - u]
  BY <1>1, <1>4 DEF Reserved
<1>7. PICK g \in H2Rec : /\ g = Reserved(s, n) /\ g.avail = h.avail - u /\ g.req = h.buf + n
                         /\ g.st = h.st /\ g.buf = h.buf /\ g.given = h.given
  BY <1>2, <1>5, <1>6 DEF H2Rec
<1>8. g.avail + u = h.avail  BY <1>2, <1>5, <1>7
<1> QED  BY <1>1, <1>4, <1>5, <1>7, <1>8

\* An event changes a pipe only where it stands: it runs again, registered
\* for nothing, or stays as it was.
LEMMA WakeRec ==
  ASSUME PInv, NEW s \in Stream, NEW ev
  PROVE  \E p \in PipeRec :
           /\ WakeIf(s, ev) = [pipe EXCEPT ![s] = p]
           /\ p.stash = pipe[s].stash /\ p.eos = pipe[s].eos
           /\ p.pc = "err" => pipe[s].pc = "err"
           /\ p.pc = "parked" <=> p.armed # {}
           /\ \A h, b : Agree(pipe[s], h, b) => Agree(p, h, b)
<1> DEFINE p == IF ev \in pipe[s].armed THEN [pipe[s] EXCEPT !.pc = "run", !.armed = {}] ELSE pipe[s]
<1>1. WakeIf(s, ev) = [pipe EXCEPT ![s] = p]  BY DEF WakeIf
<1>2. pipe[s] \in PipeRec /\ Agree(pipe[s], h2[s], src[s])  BY DEF PInv
<1>3. /\ p \in PipeRec /\ p.stash = pipe[s].stash /\ p.eos = pipe[s].eos
      /\ p.pc = "err" => pipe[s].pc = "err"
      /\ p.pc = "parked" <=> p.armed # {}
  BY <1>2 DEF PipeRec, Agree
<1>4. \A h, b : Agree(pipe[s], h, b) => Agree(p, h, b)
  BY <1>3 DEF Agree
<1> QED  BY <1>1, <1>3, <1>4

-----------------------------------------------------------------------------
(* The steps.                                                              *)

\* The library and the peer: Assign, Flush, PeerResets, PeerUpdates.
LEMMA LibraryStep ==
  ASSUME PInv, PeerUpdates \/ \E s \in Stream : Assign(s) \/ Flush(s) \/ PeerResets(s)
  PROVE  PInv'
<1>0. PICK w \in Nat, v \in Nat : w = win /\ v = debt  BY DEF PInv
<1>1. CASE PeerUpdates
  <2>1. win' = w + v /\ debt' = 0 /\ UNCHANGED <<pipe, h2, src>>
    BY <1>0, <1>1 DEF PeerUpdates
  <2>2. win' \in Nat /\ debt' \in Nat /\ win' + debt' = win + debt  BY <1>0, <2>1
  <2> QED  BY <2>1, <2>2 DEF PInv
<1>2. ASSUME NEW s \in Stream, Assign(s) PROVE PInv'
  <2>1. PICK h \in H2Rec, b \in SrcRec : h = h2[s] /\ b = src[s] /\ Agree(pipe[s], h, b)
    BY DEF PInv
  <2>n. PICK n : n = IF h.req - h.avail < w THEN h.req - h.avail ELSE w  OBVIOUS
  <2>g. PICK g : g = [h EXCEPT !.avail = @ + n]  OBVIOUS
  <2>2. g \in H2Rec /\ Agree(pipe[s], g, b) /\ w - n \in Nat /\ (w - n) + g.avail = w + h.avail
    <3>1. h.req > h.avail /\ pipe[s] \in PipeRec  BY <1>2, <2>1 DEF Assign, PInv
    <3>2. h.req \in Nat /\ h.avail \in Nat  BY DEF H2Rec
    <3>3. n \in Nat /\ n <= w /\ h.avail + n <= h.req /\ w - n \in Nat  BY <2>n, <3>1, <3>2
    <3> QED  BY <2>1, <2>g, <3>1, <3>3, AssignRec, ZenonT(90)
  <2>3. h2' = [h2 EXCEPT ![s] = g] /\ win' = w - n /\ debt' = v /\ src' = [src EXCEPT ![s] = b]
        /\ pipe' = WakeIf(s, "capacity")
    BY <1>0, <1>2, <2>1, <2>n, <2>g DEF Assign, PInv
  <2>4. PICK p \in PipeRec : pipe' = [pipe EXCEPT ![s] = p] /\ Agree(p, g, b)
    BY <2>2, <2>3, WakeRec
  <2>5. /\ win + debt \in Nat /\ win' + debt' \in Nat /\ win' \in Nat /\ debt' \in Nat
        /\ (win' + debt') + g.avail = (win + debt) + h2[s].avail
    <3>1. h.avail \in Nat /\ g.avail \in Nat  BY <2>2 DEF H2Rec
    <3>2. PICK k \in Nat : k = w - n  BY <2>2
    <3>3. (k + v) + g.avail = (w + v) + h.avail  BY <2>2, <3>1, <3>2
    <3> QED  BY <1>0, <2>1, <2>3, <3>2, <3>3
  <2> QED  BY <2>2, <2>3, <2>4, <2>5, StreamStep
<1>3. ASSUME NEW s \in Stream, Flush(s) PROVE PInv'
  <2>1. PICK p \in PipeRec, h \in H2Rec, b \in SrcRec :
             p = pipe[s] /\ h = h2[s] /\ b = src[s] /\ Agree(p, h, b)
    BY DEF PInv
  <2>n. PICK n : n = IF h.buf < h.avail THEN h.buf ELSE h.avail  OBVIOUS
  <2>g. PICK g : g = [h EXCEPT !.buf = @ - n, !.avail = @ - n, !.req = @ - n]  OBVIOUS
  <2>2. n \in Nat /\ g \in H2Rec /\ Agree(p, g, b) /\ (v + n) + g.avail = v + h.avail
    <3>1. h.req \in Nat /\ h.avail \in Nat /\ h.buf \in Nat /\ p.stash \in Nat
      BY DEF H2Rec, PipeRec
    <3>2. n \in Nat /\ n <= h.buf /\ n <= h.avail /\ n <= h.req  BY <2>1, <2>n, <3>1 DEF Agree
    <3>3. h.buf - n \in Nat /\ h.avail - n \in Nat /\ h.req - n \in Nat  BY <3>1, <3>2
    <3>4. /\ g \in H2Rec /\ g.avail = h.avail - n /\ g.st = h.st /\ g.req = h.req - n
          /\ g.buf = h.buf - n /\ g.given = h.given
      BY <2>g, <3>3 DEF H2Rec
    <3>5. Agree(p, g, b)  BY <2>1, <3>1, <3>2, <3>4 DEF Agree
    <3>6. (v + n) + g.avail = v + h.avail  BY <3>1, <3>2, <3>4
    <3> QED  BY <3>2, <3>4, <3>5, <3>6
  <2>3. h2' = [h2 EXCEPT ![s] = g] /\ win' = w /\ debt' = v + n /\ src' = [src EXCEPT ![s] = b]
        /\ pipe' = [pipe EXCEPT ![s] = p]
    BY <1>0, <1>3, <2>1, <2>n, <2>g DEF Flush, PInv
  <2>5. /\ win + debt \in Nat /\ win' + debt' \in Nat /\ win' \in Nat /\ debt' \in Nat
        /\ (win' + debt') + g.avail = (win + debt) + h2[s].avail
    <3>1. h.avail \in Nat /\ g.avail \in Nat  BY <2>2 DEF H2Rec
    <3>2. PICK k \in Nat : k = v + n  BY <2>2
    <3>3. (w + k) + g.avail = (w + v) + h.avail  BY <2>2, <3>1, <3>2
    <3> QED  BY <1>0, <2>1, <2>3, <3>2, <3>3
  <2> QED  BY <2>1, <2>2, <2>3, <2>5, StreamStep
<1>4. ASSUME NEW s \in Stream, PeerResets(s) PROVE PInv'
  <2>1. PICK h \in H2Rec, b \in SrcRec : h = h2[s] /\ b = src[s] /\ Agree(pipe[s], h, b)
    BY DEF PInv
  <2>g. PICK g : g = [h EXCEPT !.st = "reset", !.req = 0, !.avail = 0, !.buf = 0]  OBVIOUS
  <2>2. g \in H2Rec /\ Agree(pipe[s], g, b) /\ g.avail = 0 /\ h.avail \in Nat
    <3>1. /\ g \in H2Rec /\ g.st = "reset" /\ g.avail = 0 /\ h.avail \in Nat
          /\ \A q \in PipeRec, c \in SrcRec :
               (q.eos => c.end = "clean") /\ (q.pc = "parked" <=> q.armed # {}) => Agree(q, g, c)
      <4>1. pipe[s] \in PipeRec  BY DEF PInv
      <4> QED  BY <2>1, <2>g, <4>1, ResetRec, ZenonT(90)
    <3> QED  BY <2>1, <3>1 DEF Agree, PInv
  <2>3. h2' = [h2 EXCEPT ![s] = g] /\ win' = w + h.avail /\ debt' = v /\ src' = [src EXCEPT ![s] = b]
        /\ pipe' = WakeIf(s, "reset")
    BY <1>0, <1>4, <2>1, <2>g DEF PeerResets, ResetStream, PInv
  <2>4. PICK p \in PipeRec : pipe' = [pipe EXCEPT ![s] = p] /\ Agree(p, g, b)
    BY <2>2, <2>3, WakeRec, ZenonT(90)
  <2>5. /\ win + debt \in Nat /\ win' + debt' \in Nat /\ win' \in Nat /\ debt' \in Nat
        /\ (win' + debt') + g.avail = (win + debt) + h2[s].avail
    <3>1. PICK k \in Nat : k = w + h.avail  BY <2>2
    <3>2. (k + v) + 0 = (w + v) + h.avail  BY <2>2, <3>1
    <3> QED  BY <1>0, <2>1, <2>2, <2>3, <3>1, <3>2
  <2> QED  BY <2>2, <2>3, <2>4, <2>5, StreamStep
<1> QED  BY <1>1, <1>2, <1>3, <1>4

\* A step that moves no window.
LEMMA DataStep ==
  ASSUME PInv, NEW s \in Stream, NEW p \in PipeRec, NEW h \in H2Rec, NEW b \in SrcRec,
         Agree(p, h, b), h.avail = h2[s].avail,
         pipe' = [pipe EXCEPT ![s] = p], h2' = [h2 EXCEPT ![s] = h], src' = [src EXCEPT ![s] = b],
         win' = win, debt' = debt
  PROVE  PInv'
<1>1. win \in Nat /\ debt \in Nat /\ h2[s].avail \in Nat  BY DEF PInv, H2Rec
<1>2. PICK u \in Nat : u = win + debt /\ u = win' + debt'  BY <1>1
<1>3. u + h.avail = u + h2[s].avail  OBVIOUS
<1>4. win' \in Nat /\ debt' \in Nat  BY <1>1
<1> QED  BY <1>2, <1>3, <1>4, StreamStep, Zenon

\* A step that changes only where the pipe stands.
LEMMA PipeOnly ==
  ASSUME PInv, NEW s \in Stream, NEW p \in PipeRec, pipe' = [pipe EXCEPT ![s] = p],
         UNCHANGED <<h2, win, debt, src>>, Agree(p, h2[s], src[s])
  PROVE  PInv'
<1>1. pipe' \in [Stream -> PipeRec]  BY DEF PInv
<1>2. \A t \in Stream : Agree(pipe'[t], h2[t], src[t])  BY DEF PInv
<1> QED  BY <1>1, <1>2 DEF PInv

\* Parking and being woken: SeesReset, WaitsForCapacity, BodyPending,
\* BodyReady, Cancel.
LEMMA WaitStep ==
  ASSUME PInv, NEW s \in Stream,
         SeesReset(s) \/ WaitsForCapacity(s) \/ BodyPending(s) \/ BodyReady(s) \/ Cancel(s)
  PROVE  PInv'
<1>0. /\ pipe \in [Stream -> PipeRec] /\ pipe[s] \in PipeRec
      /\ Agree(pipe[s], h2[s], src[s])
  BY DEF PInv
<1>1. CASE SeesReset(s)
  <2>1. PICK p : p = [pipe[s] EXCEPT !.pc = "err", !.armed = {}]  OBVIOUS
  <2>2. pipe' = [pipe EXCEPT ![s] = p] /\ UNCHANGED <<h2, win, debt, src>> /\ h2[s].st = "reset"
    BY <1>1, <2>1 DEF SeesReset, Ends
  <2>3. /\ p \in PipeRec /\ p.stash = pipe[s].stash /\ p.eos = pipe[s].eos
        /\ p.pc # "parked" /\ p.armed = {}
    BY <1>0, <2>1 DEF PipeRec
  <2>4. Agree(p, h2[s], src[s])  BY <1>0, <2>2, <2>3 DEF Agree
  <2> QED  BY <2>2, <2>3, <2>4, PipeOnly
<1>2. CASE WaitsForCapacity(s) \/ BodyPending(s)
  <2>1. PICK a \in SUBSET Event : a # {} /\ pipe' = [pipe EXCEPT ![s].pc = "parked", ![s].armed = a]
    <3>1. {"reset", "capacity"} \cup {"cancel"} \in SUBSET Event /\ {"reset", "frame"} \cup {"cancel"} \in SUBSET Event
      BY DEF Event
    <3> QED  BY <1>2, <3>1 DEF WaitsForCapacity, BodyPending, Parks
  <2>2. PICK p : p = [pipe[s] EXCEPT !.pc = "parked", !.armed = a]  OBVIOUS
  <2>3. pipe' = [pipe EXCEPT ![s] = p]  BY <1>0, <2>1, <2>2 DEF PipeRec
  <2>4. UNCHANGED <<h2, win, debt, src>>  BY <1>2 DEF WaitsForCapacity, BodyPending
  <2>5. /\ p \in PipeRec /\ p.stash = pipe[s].stash /\ p.eos = pipe[s].eos
        /\ p.pc = "parked" /\ p.armed # {}
    BY <1>0, <2>1, <2>2 DEF PipeRec
  <2>6. Agree(p, h2[s], src[s])  BY <1>0, <2>5 DEF Agree
  <2> QED  BY <2>3, <2>4, <2>5, <2>6, PipeOnly
<1>3. CASE BodyReady(s)
  <2>1. PICK p \in PipeRec : pipe' = [pipe EXCEPT ![s] = p] /\ Agree(p, h2[s], src[s])
    BY <1>0, <1>3, WakeRec DEF BodyReady
  <2> QED  BY <1>3, <2>1, PipeOnly DEF BodyReady
<1>4. CASE Cancel(s)
  <2>1. PICK q \in PipeRec : WakeIf(s, "cancel") = [pipe EXCEPT ![s] = q] /\ Agree(q, h2[s], src[s])
    BY <1>0, WakeRec, ZenonT(90)
  <2>2. PICK p : p = [q EXCEPT !.cancel = TRUE]  OBVIOUS
  <2>3. pipe' = [pipe EXCEPT ![s] = p]  BY <1>0, <1>4, <2>1, <2>2 DEF Cancel
  <2>4. /\ p \in PipeRec /\ p.stash = q.stash /\ p.eos = q.eos /\ p.pc = q.pc /\ p.armed = q.armed
    BY <2>2 DEF PipeRec
  <2>5. Agree(p, h2[s], src[s])  BY <2>1, <2>4 DEF Agree
  <2> QED  BY <1>4, <2>3, <2>4, <2>5, PipeOnly DEF Cancel
<1> QED  BY <1>1, <1>2, <1>3, <1>4

\* Handing data or the end to h2: SendsStash, EmptyFrame, BodyEnd.
LEMMA SendStep ==
  ASSUME PInv, NEW s \in Stream,
         SendsStash(s) \/ BodyEnd(s) \/ \E eos \in BOOLEAN : EmptyFrame(s, eos)
  PROVE  PInv'
<1>0. /\ pipe \in [Stream -> PipeRec] /\ src \in [Stream -> SrcRec] /\ h2 \in [Stream -> H2Rec]
      /\ Agree(pipe[s], h2[s], src[s])
  BY DEF PInv
<1>1. PICK p \in PipeRec, h \in H2Rec, b \in SrcRec : p = pipe[s] /\ h = h2[s] /\ b = src[s]
  BY <1>0
<1>2. Agree(p, h, b)  BY <1>0, <1>1
<1>3. ASSUME NEW eos \in BOOLEAN, h.st = "open", SendData(s, p.stash, eos), win' = win, debt' = debt,
             NEW q \in PipeRec, q.stash = 0, q.pc # "err", q.pc = "parked" <=> q.armed # {},
             NEW c \in SrcRec, c.taken = b.taken, q.eos \/ eos => c.end = "clean",
             pipe' = [pipe EXCEPT ![s] = q], src' = [src EXCEPT ![s] = c]
      PROVE  PInv'
  <2>1. PICK n : n = p.stash  OBVIOUS
  <2>2. PICK g : g = [h EXCEPT !.buf = h.buf + n, !.given = @ + n, !.st = IF eos THEN "eos" ELSE @,
                               !.req = IF @ < h.buf + n \/ eos THEN h.buf + n ELSE @]
    OBVIOUS
  <2>3. h2' = [h2 EXCEPT ![s] = g]  BY <1>0, <1>1, <1>3, <2>1, <2>2 DEF SendData
  <2>4. g \in H2Rec /\ Agree(q, g, c) /\ g.avail = h.avail
    <3>1. /\ h.req \in Nat /\ h.avail \in Nat /\ h.buf \in Nat /\ h.given \in Nat
          /\ n \in Nat /\ b.taken \in Nat
      BY <2>1 DEF H2Rec, PipeRec, SrcRec
    <3>2. PICK m \in Nat : m = IF h.req < h.buf + n \/ eos THEN h.buf + n ELSE h.req
      BY <3>1
    <3>3. h.buf + n \in Nat /\ h.given + n \in Nat  BY <3>1
    <3>4. /\ g \in H2Rec /\ g.avail = h.avail /\ g.buf = h.buf + n /\ g.given = h.given + n
          /\ g.req = m /\ g.st \in {"open", "eos"} /\ (g.st = "eos" => eos)
      BY <1>3, <2>2, <3>2, <3>3 DEF H2Rec
    <3>5. m = h.buf + n /\ h.avail <= h.buf + n /\ h.given + n = b.taken
      BY <1>2, <1>3, <2>1, <3>1, <3>2 DEF Agree
    <3>6. Agree(q, g, c)  BY <1>3, <3>1, <3>4, <3>5 DEF Agree
    <3> QED  BY <3>4, <3>6
  <2>5. g.avail = h2[s].avail  BY <1>1, <2>4
  <2> QED  BY <1>3, <2>3, <2>4, <2>5, DataStep, Zenon
<1>4. CASE SendsStash(s)
  <2>1. PICK q : q = [p EXCEPT !.stash = 0, !.pc = IF p.eos THEN "ok" ELSE "run"]  OBVIOUS
  <2>2. pipe' = [pipe EXCEPT ![s] = q] /\ src' = [src EXCEPT ![s] = b] /\ win' = win /\ debt' = debt
    BY <1>0, <1>1, <1>4, <2>1 DEF SendsStash
  <2>3. SendData(s, p.stash, p.eos) /\ h.st = "open" /\ p.pc = "run"
    BY <1>1, <1>4 DEF SendsStash, Running
  <2>4. q \in PipeRec /\ q.stash = 0 /\ q.pc \in {"ok", "run"} /\ q.armed = p.armed /\ q.eos = p.eos
    BY <2>1 DEF PipeRec
  <2>5. p.eos \in BOOLEAN /\ p.armed = {} /\ (q.eos \/ p.eos => b.end = "clean")
    BY <1>2, <2>3, <2>4 DEF Agree, PipeRec
  <2> QED  BY <1>3, <2>2, <2>3, <2>4, <2>5
<1>5. ASSUME NEW eos \in BOOLEAN, EmptyFrame(s, eos) PROVE PInv'
  <2>1. p.stash = 0 /\ p.pc = "run" /\ h.st = "open" /\ SendData(s, p.stash, eos)
    BY <1>1, <1>5 DEF EmptyFrame, Polling, Running
  <2>2. PICK c : c = [frames |-> b.frames + 1, taken |-> b.taken + 0, end |-> IF eos THEN "clean" ELSE "no"]
    OBVIOUS
  <2>3. src' = [src EXCEPT ![s] = c] /\ b.end = "no"  BY <1>0, <1>1, <1>5, <2>2 DEF EmptyFrame, Took
  <2>4. c \in SrcRec /\ c.taken = b.taken /\ (eos => c.end = "clean")
    <3>1. b.frames + 1 \in Nat /\ b.taken + 0 \in Nat /\ b.taken + 0 = b.taken  BY DEF SrcRec
    <3> QED  BY <2>2, <3>1 DEF SrcRec
  <2>5. p.armed = {} /\ ~p.eos  BY <1>2, <2>1, <2>3 DEF Agree
  <2>6. win' = win /\ debt' = debt  BY <1>5 DEF EmptyFrame
  <2>7. CASE eos
    <3>1. PICK q : q = [p EXCEPT !.pc = "ok", !.armed = {}]  OBVIOUS
    <3>2. pipe' = [pipe EXCEPT ![s] = q]  BY <1>1, <1>5, <2>7, <3>1 DEF EmptyFrame, Ends
    <3>3. q \in PipeRec /\ q.stash = 0 /\ q.pc = "ok" /\ q.armed = {} /\ q.eos = p.eos
      BY <2>1, <3>1 DEF PipeRec
    <3> QED  BY <1>3, <2>1, <2>3, <2>4, <2>5, <2>6, <3>2, <3>3
  <2>8. CASE ~eos
    <3>1. pipe' = [pipe EXCEPT ![s] = p]  BY <1>0, <1>1, <1>5, <2>8 DEF EmptyFrame
    <3> QED  BY <1>3, <2>1, <2>3, <2>4, <2>5, <2>6, <3>1
  <2> QED  BY <2>7, <2>8
<1>6. CASE BodyEnd(s)
  <2>1. p.stash = 0 /\ p.pc = "run" /\ h.st = "open" /\ SendData(s, p.stash, TRUE)
    BY <1>1, <1>6 DEF BodyEnd, Polling, Running
  <2>2. PICK c : c = [b EXCEPT !.end = "clean"]  OBVIOUS
  <2>3. src' = [src EXCEPT ![s] = c]  BY <1>0, <1>1, <1>6, <2>2 DEF BodyEnd, SrcRec
  <2>4. c \in SrcRec /\ c.taken = b.taken /\ c.end = "clean"  BY <2>2 DEF SrcRec
  <2>5. PICK q : q = [p EXCEPT !.pc = "ok", !.armed = {}]  OBVIOUS
  <2>6. pipe' = [pipe EXCEPT ![s] = q] /\ win' = win /\ debt' = debt
    BY <1>1, <1>6, <2>5 DEF BodyEnd, Ends
  <2>7. q \in PipeRec /\ q.stash = 0 /\ q.pc = "ok" /\ q.armed = {}
    BY <2>1, <2>5 DEF PipeRec
  <2> QED  BY <1>3, <2>1, <2>3, <2>4, <2>6, <2>7
<1> QED  BY <1>4, <1>5, <1>6

\* Reserving and giving back: DataFrame, Trailers.
LEMMA ReserveStep ==
  ASSUME PInv, NEW s \in Stream,
         Trailers(s) \/ \E n \in FrameSizes, eos \in BOOLEAN : DataFrame(s, n, eos)
  PROVE  PInv'
<1>0. /\ pipe \in [Stream -> PipeRec] /\ src \in [Stream -> SrcRec] /\ h2 \in [Stream -> H2Rec]
      /\ Agree(pipe[s], h2[s], src[s])
  BY DEF PInv
<1>1. PICK p \in PipeRec, h \in H2Rec, b \in SrcRec : p = pipe[s] /\ h = h2[s] /\ b = src[s]
  BY <1>0
<1>2. Agree(p, h, b)  BY <1>0, <1>1
<1>3. PICK w \in Nat, v \in Nat : w = win /\ v = debt  BY DEF PInv
<1>4. ASSUME NEW n \in Nat, NEW g \in H2Rec, g.avail = Reserved(s, n).avail,
             h2' = [h2 EXCEPT ![s] = g], win' = win + Surplus(s, n), debt' = debt,
             NEW q \in PipeRec, NEW c \in SrcRec, Agree(q, g, c),
             pipe' = [pipe EXCEPT ![s] = q], src' = [src EXCEPT ![s] = c]
      PROVE  PInv'
  <2>1. Surplus(s, n) \in Nat /\ g.avail + Surplus(s, n) = h.avail  BY <1>1, <1>4, ReserveRec
  <2>2. PICK d \in Nat : d = Surplus(s, n)  BY <2>1
  <2>3. h.avail \in Nat /\ g.avail \in Nat  BY DEF H2Rec
  <2>4. ((w + d) + v) + g.avail = (w + v) + h.avail /\ w + d \in Nat /\ w + v \in Nat /\ (w + d) + v \in Nat
    BY <2>1, <2>2, <2>3
  <2>5. PICK u \in Nat, z \in Nat : u = win + debt /\ z = win' + debt' /\ z + g.avail = u + h2[s].avail
    BY <1>1, <1>3, <1>4, <2>2, <2>4
  <2>6. win' \in Nat /\ debt' \in Nat  BY <1>3, <1>4, <2>2, <2>4
  <2> QED  BY <1>4, <2>5, <2>6, StreamStep, Zenon
<1>5. ASSUME NEW n \in FrameSizes, NEW eos \in BOOLEAN, DataFrame(s, n, eos) PROVE PInv'
  <2>0. n \in Nat  BY PipeAssumption
  <2>1. p.stash = 0 /\ p.pc = "run" /\ h.st = "open" /\ b.end = "no"
    BY <1>1, <1>5 DEF DataFrame, Polling, Running, Took
  <2>2. PICK g \in H2Rec : /\ g = Reserved(s, n)
                          /\ g.avail <= h.buf + n /\ g.req = h.buf + n
                          /\ g.st = h.st /\ g.buf = h.buf /\ g.given = h.given
    BY <1>1, <2>0, ReserveRec
  <2>3. PICK c : c = [frames |-> b.frames + 1, taken |-> b.taken + n, end |-> IF eos THEN "clean" ELSE "no"]
    OBVIOUS
  <2>4. src' = [src EXCEPT ![s] = c]  BY <1>0, <1>1, <1>5, <2>3 DEF DataFrame, Took
  <2>5. c \in SrcRec /\ c.taken = b.taken + n /\ (eos => c.end = "clean")
    <3>1. b.frames + 1 \in Nat /\ b.taken + n \in Nat  BY <2>0 DEF SrcRec
    <3> QED  BY <2>3, <3>1 DEF SrcRec
  <2>6. PICK q : q = [p EXCEPT !.stash = n, !.eos = eos]  OBVIOUS
  <2>7. pipe' = [pipe EXCEPT ![s] = q]  BY <1>0, <1>1, <1>5, <2>6 DEF DataFrame, PipeRec
  <2>8. q \in PipeRec /\ q.stash = n /\ q.eos = eos /\ q.pc = "run" /\ q.armed = p.armed
    BY <2>0, <2>1, <2>6 DEF PipeRec
  <2>9. Agree(q, g, c)
    <3>1. h.buf \in Nat /\ h.given \in Nat /\ b.taken \in Nat  BY DEF H2Rec, SrcRec
    <3>2. h.given = b.taken /\ p.armed = {}  BY <1>2, <2>1, <3>1 DEF Agree
    <3>3. h.buf <= h.buf + n /\ h.given + n = b.taken + n  BY <2>0, <3>1, <3>2
    <3> QED  BY <2>0, <2>1, <2>2, <2>5, <2>8, <3>1, <3>2, <3>3 DEF Agree
  <2>10. h2' = [h2 EXCEPT ![s] = g] /\ win' = win + Surplus(s, n) /\ debt' = debt
    BY <1>5, <2>2 DEF DataFrame, Reserve
  <2> QED  BY <1>4, <2>0, <2>2, <2>4, <2>5, <2>7, <2>8, <2>9, <2>10
<1>6. CASE Trailers(s)
  <2>1. p.stash = 0 /\ p.pc = "run" /\ h.st = "open" /\ b.end = "no"
    BY <1>1, <1>6 DEF Trailers, Polling, Running
  <2>2. PICK f \in H2Rec : /\ f = Reserved(s, 0)
                          /\ f.avail <= h.buf + 0 /\ f.req = h.buf + 0
                          /\ f.st = h.st /\ f.buf = h.buf /\ f.given = h.given
    BY <1>1, ReserveRec
  <2>3. PICK g : g = [f EXCEPT !.st = "eos"]  OBVIOUS
  <2>4. g \in H2Rec /\ g.avail = f.avail /\ g.req = f.req /\ g.buf = f.buf /\ g.given = f.given
    BY <2>3 DEF H2Rec
  <2>5. PICK c : c = [b EXCEPT !.end = "clean"]  OBVIOUS
  <2>6. src' = [src EXCEPT ![s] = c]  BY <1>0, <1>1, <1>6, <2>5 DEF Trailers, SrcRec
  <2>7. c \in SrcRec /\ c.taken = b.taken /\ c.end = "clean"  BY <2>5 DEF SrcRec
  <2>8. PICK q : q = [p EXCEPT !.pc = "ok", !.armed = {}]  OBVIOUS
  <2>9. pipe' = [pipe EXCEPT ![s] = q]  BY <1>1, <1>6, <2>8 DEF Trailers, Ends
  <2>10. q \in PipeRec /\ q.stash = 0 /\ q.pc = "ok" /\ q.armed = {} /\ q.eos = p.eos
    BY <2>1, <2>8 DEF PipeRec
  <2>11. Agree(q, g, c)
    <3>1. h.buf \in Nat /\ h.given \in Nat /\ b.taken \in Nat  BY DEF H2Rec, SrcRec
    <3>2. h.given = b.taken  BY <1>2, <2>1, <3>1 DEF Agree
    <3>3. g.avail <= h.buf /\ g.req = h.buf /\ g.buf = h.buf /\ g.given = b.taken
      BY <2>2, <2>4, <3>1, <3>2
    <3>4. g.avail \in Nat  BY <2>4 DEF H2Rec
    <3> QED  BY <2>7, <2>10, <3>1, <3>3, <3>4 DEF Agree
  <2>12. h2' = [h2 EXCEPT ![s] = g] /\ win' = win + Surplus(s, 0) /\ debt' = debt
    BY <1>6, <2>2, <2>3 DEF Trailers
  <2>13. 0 \in Nat /\ g.avail = Reserved(s, 0).avail  BY <2>2, <2>4
  <2> QED  BY <1>4, <2>4, <2>6, <2>7, <2>9, <2>10, <2>11, <2>12, <2>13
<1> QED  BY <1>5, <1>6

\* Giving the stream up: BodyError, Cancelled.
LEMMA GiveUpStep ==
  ASSUME PInv, NEW s \in Stream, BodyError(s) \/ Cancelled(s)
  PROVE  PInv'
<1>0. /\ pipe \in [Stream -> PipeRec] /\ src \in [Stream -> SrcRec] /\ h2 \in [Stream -> H2Rec]
      /\ Agree(pipe[s], h2[s], src[s])
  BY DEF PInv
<1>1. PICK p \in PipeRec, h \in H2Rec, b \in SrcRec : p = pipe[s] /\ h = h2[s] /\ b = src[s]
  BY <1>0
<1>2. Agree(p, h, b)  BY <1>0, <1>1
<1>3. PICK w \in Nat, v \in Nat : w = win /\ v = debt  BY DEF PInv
<1>4. PICK g : g = [h EXCEPT !.st = "reset", !.req = 0, !.avail = 0, !.buf = 0]  OBVIOUS
<1>5. /\ g \in H2Rec /\ g.st = "reset" /\ g.avail = 0 /\ h.avail \in Nat
      /\ \A q \in PipeRec, c \in SrcRec :
           (q.eos => c.end = "clean") /\ (q.pc = "parked" <=> q.armed # {}) => Agree(q, g, c)
  BY <1>2, <1>4, ResetRec, Zenon
<1>6. PICK q : q = [p EXCEPT !.pc = "err", !.armed = {}]  OBVIOUS
<1>7. q \in PipeRec /\ q.pc = "err" /\ q.armed = {} /\ q.eos = p.eos  BY <1>6 DEF PipeRec
<1>8. PICK c \in SrcRec : src' = [src EXCEPT ![s] = c] /\ (p.eos => c.end = "clean")
  <2>1. CASE BodyError(s)
    <3>1. PICK c : c = [b EXCEPT !.end = "error"]  OBVIOUS
    <3>2. src' = [src EXCEPT ![s] = c] /\ b.end = "no"
      BY <1>0, <1>1, <2>1, <3>1 DEF BodyError, SrcRec
    <3>3. c \in SrcRec  BY <3>1 DEF SrcRec
    <3>4. ~p.eos  BY <1>2, <3>2 DEF Agree
    <3> QED  BY <3>2, <3>3, <3>4
  <2>2. CASE Cancelled(s)
    <3>1. src' = [src EXCEPT ![s] = b]  BY <1>0, <1>1, <2>2 DEF Cancelled
    <3> QED  BY <1>2, <3>1 DEF Agree
  <2> QED  BY <2>1, <2>2
<1>9. Agree(q, g, c)  BY <1>5, <1>7, <1>8
<1>10. /\ pipe' = [pipe EXCEPT ![s] = q] /\ h2' = [h2 EXCEPT ![s] = g]
       /\ win' = w + h.avail /\ debt' = v
  BY <1>0, <1>1, <1>3, <1>4, <1>6 DEF BodyError, Cancelled, ResetStream, Ends, H2Rec
<1>11. PICK k \in Nat : k = w + h.avail  BY <1>5
<1>12. (k + v) + 0 = (w + v) + h.avail  BY <1>5, <1>11
<1>13. PICK u \in Nat, z \in Nat : u = win + debt /\ z = win' + debt' /\ z + g.avail = u + h2[s].avail
  BY <1>1, <1>3, <1>5, <1>10, <1>11, <1>12
<1>14. win' \in Nat /\ debt' \in Nat  BY <1>10, <1>11
<1> QED  BY <1>5, <1>7, <1>8, <1>9, <1>10, <1>13, <1>14, StreamStep, Zenon

-----------------------------------------------------------------------------
(* The theorems.                                                           *)

\* The inductive invariant holds of every behaviour of the pipes.
THEOREM PInvariance == PSafety => []PInv
<1>1. ASSUME PInit PROVE PInv
  <2>0. Window \in Nat  BY PipeAssumption
  <2>1. /\ pipe \in [Stream -> PipeRec] /\ h2 \in [Stream -> H2Rec] /\ src \in [Stream -> SrcRec]
        /\ win \in Nat /\ debt \in Nat
    BY <1>1, <2>0 DEF PInit, PipeRec, H2Rec, SrcRec, Event
  <2>2. \A s \in Stream : Agree(pipe[s], h2[s], src[s])
    <3>1. ASSUME NEW s \in Stream
          PROVE  /\ pipe[s].pc = "run" /\ pipe[s].stash = 0 /\ pipe[s].eos = FALSE
                 /\ pipe[s].armed = {}
                 /\ h2[s].st = "open" /\ h2[s].req = 0 /\ h2[s].avail = 0
                 /\ h2[s].buf = 0 /\ h2[s].given = 0 /\ src[s].taken = 0
      BY <1>1 DEF PInit
    <3>2. \A s \in Stream : ~pipe[s].eos  BY <3>1
    <3>3. 0 <= 0 + 0 /\ 0 <= 0 /\ 0 + 0 = 0  OBVIOUS
    <3>4. ASSUME NEW s \in Stream PROVE Agree(pipe[s], h2[s], src[s])
      BY <3>1, <3>2, <3>3, Zenon DEF Agree
    <3> QED  BY <3>4
  <2>3. Balanced(h2, win + debt)
    <3>1. SUFFICES ASSUME NEW n \in Nat, NEW e \in [1..n -> Stream], NEW p \in [0..n -> Int],
                          AddsUp(h2, p, e, n)
                   PROVE  p[n] = 0
      <4>1. PICK W \in Nat : W = Window /\ win + debt = W + 0  BY <1>1, <2>0 DEF PInit
      <4>2. \A x \in Int : x = 0 => x + (W + 0) <= W  OBVIOUS
      <4> QED  BY <4>1, <4>2 DEF Balanced
    <3>2. p[0] = 0 /\ \A k \in 1..n : p[k] = p[k - 1] + 0
      BY <1>1, <3>1 DEF AddsUp, Holds, PInit
    <3> DEFINE Zeroes == {k \in Nat : k <= n => p[k] = 0}
    <3>3. 0 \in Zeroes  BY <3>2
    <3>4. ASSUME NEW k \in Nat, k \in Zeroes PROVE k + 1 \in Zeroes
      <4>1. SUFFICES ASSUME k + 1 <= n PROVE p[k + 1] = 0  OBVIOUS
      <4>2. k + 1 \in 1..n /\ (k + 1) - 1 = k /\ k <= n  BY <4>1
      <4>3. p[k + 1] = p[k] + 0  BY <3>2, <4>2
      <4> QED  BY <3>4, <4>2, <4>3
    <3> HIDE DEF Zeroes
    <3>5. Nat \subseteq Zeroes  BY <3>3, <3>4, SetInduction
    <3> QED  BY <3>5 DEF Zeroes
  <2> QED  BY <2>1, <2>2, <2>3 DEF PInv
<1>2. PInv /\ [PNext]_pvars => PInv'
  <2> SUFFICES ASSUME PInv, [PNext]_pvars PROVE PInv'  OBVIOUS
  <2>1. CASE UNCHANGED pvars  BY <2>1 DEF pvars, PInv
  <2>2. CASE PNext
    BY <2>2, LibraryStep, WaitStep, SendStep, ReserveStep, GiveUpStep DEF PNext, OwnStep, BodyStep
  <2> QED  BY <2>1, <2>2
<1> QED  BY <1>1, <1>2, PTL DEF PSafety

\* http2.rs, PipeToSendStream::poll, "reserve exactly the chunk size": a
\* stream never holds window that it has no data for, however its body, the
\* peer and the other streams behave.
THEOREM WindowNotPinned == PSafety => []NothingPinned
<1>1. PInv => NothingPinned  BY DEF PInv, Agree, NothingPinned
<1> QED  BY <1>1, PInvariance, PTL

\* http2.rs: what the peer is told of an upload is true, and all streams
\* together stay within the connection's window.
THEOREM HonestUploads == PSafety => []UploadHonest
<1>1. ASSUME PInv PROVE UploadHonest
  <2>1. NothingLost /\ EosIsComplete
    BY <1>1 DEF PInv, Agree, NothingLost, EosIsComplete
  <2>2. CancelFrees
    BY <1>1 DEF PInv, Agree, CancelFrees, Done
  <2>3. win <= Window /\ debt <= Window
    <3> DEFINE e == [i \in 1..0 |-> 0]
               p == [i \in 0..0 |-> 0]
    <3>1. e \in [1..0 -> Stream] /\ p \in [0..0 -> Int] /\ p[0] = 0  OBVIOUS
    <3>2. AddsUp(h2, p, e, 0)  BY <3>1 DEF AddsUp
    <3> HIDE DEF e, p
    <3>3. Balanced(h2, win + debt) /\ 0 \in Nat /\ \A i, j \in 1..0 : e[i] = e[j] => i = j
      BY <1>1 DEF PInv
    <3>4. p[0] + (win + debt) <= Window  BY <3>1, <3>2, <3>3 DEF Balanced
    <3>5. win \in Nat /\ debt \in Nat /\ Window \in Nat  BY <1>1, PipeAssumption DEF PInv
    <3> QED  BY <3>1, <3>4, <3>5
  <2>4. ASSUME NEW s \in Stream PROVE h2[s].avail <= Window
    <3> DEFINE e == [i \in 1..1 |-> s]
               p == [i \in 0..1 |-> IF i = 0 THEN 0 ELSE h2[s].avail]
    <3>0. h2[s].avail \in Nat  BY <1>1 DEF PInv, H2Rec
    <3>1. e \in [1..1 -> Stream] /\ p \in [0..1 -> Int] /\ p[0] = 0 /\ p[1] = h2[s].avail /\ e[1] = s
      BY <3>0
    <3> HIDE DEF e, p
    <3>2. AddsUp(h2, p, e, 1)
      <4>1. 1 - 1 = 0 /\ \A k \in 1..1 : k = 1  OBVIOUS
      <4>2. h2[s].avail = 0 + h2[s].avail  BY <3>0
      <4> QED  BY <3>1, <4>1, <4>2 DEF AddsUp, Holds
    <3>3. Balanced(h2, win + debt) /\ 1 \in Nat /\ \A i, j \in 1..1 : e[i] = e[j] => i = j
      BY <1>1 DEF PInv
    <3>4. p[1] + (win + debt) <= Window  BY <3>1, <3>2, <3>3 DEF Balanced
    <3>5. PICK k \in Nat : k = win + debt  BY <1>1 DEF PInv
    <3>6. Window \in Nat  BY PipeAssumption
    <3> QED  BY <3>0, <3>1, <3>4, <3>5, <3>6
  <2>5. PTypeOK
    <3>1. win \in 0..Window /\ debt \in 0..Window
      BY <1>1, <2>3, PipeAssumption DEF PInv
    <3>2. \A s \in Stream : pipe[s].pc \in {"run", "parked", "ok", "err"} /\ h2[s].st \in {"open", "eos", "reset"}
      BY <1>1 DEF PInv, PipeRec, H2Rec
    <3>3. \A s \in Stream : pipe[s].pc = "parked" <=> pipe[s].armed # {}
      BY <1>1 DEF PInv, Agree
    <3> QED  BY <2>4, <3>1, <3>2, <3>3 DEF PTypeOK
  <2> QED  BY <2>1, <2>2, <2>5 DEF UploadHonest
<1> QED  BY <1>1, PInvariance, PTL

-----------------------------------------------------------------------------
(* Pings: the inductive invariant.                                         *)

\* The types of KeepAlive, h2's ping, Shared, Bdp and the result of
\* polling KeepAlive.
KaState == {"Init", "Scheduled", "PingSent"}
WireState == {"idle", "out", "acked", "pong"}
ShRec == [sentAt : Int, bytes : Nat, nextBdp : Int, lastRead : Nat, timedOut : BOOLEAN]
KaRec == [state : KaState, at : Int, sleep : Int, armed : BOOLEAN, on : BOOLEAN,
          whileIdle : BOOLEAN]
BdpRec == [bdp : Nat, delay : Nat, stable : {0, 1}, on : BOOLEAN]
PollRec == [sh : ShRec, ka : KaRec, pingpong : WireState, again : BOOLEAN]

\* The types of the variables.
GTypes ==
  /\ now \in Nat /\ sign \in Nat /\ woken \in BOOLEAN /\ known \in BOOLEAN
  /\ sh \in ShRec /\ ka \in KaRec /\ bdp \in BdpRec /\ pingpong \in WireState
  /\ users \in [client : BOOLEAN, opening : BOOLEAN, streams : {0, 1}]
  /\ task \in {"parked", "ponger", "conn", "done"}

\* Shared s and h2's ping w agree, and s holds no time in the future.
ShOK(s, w) ==
  /\ s.sentAt \in Never..now /\ s.lastRead <= now
  /\ w = "idle" <=> s.sentAt = Never

\* The timer k is set as the state says: at most Interval after the last
\* read, or to Timeout after a ping, of which Shared s knows.
KaOK(k, s) ==
  /\ k.state # "Init" => k.on
  /\ k.state = "Scheduled" => k.sleep = k.at /\ k.at <= s.lastRead + Interval
  /\ k.state = "PingSent" /\ s.sentAt # Never
       => k.sleep >= s.sentAt + Timeout /\ k.sleep <= now + Timeout

\* What one poll leaves for the next: the flags of the sample and of the
\* timeout, the range of the bandwidth estimate.
Rest ==
  /\ ka.state = "PingSent" => sh.sentAt # Never
  /\ sh.bytes > 0 => bdp.on /\ sh.sentAt # Never
  /\ bdp.bdp \in InitialWindow..Limit /\ bdp.delay \in 0..(4 * MaxDelay)
  /\ sh.timedOut => task = "done"

\* The inductive invariant that needs nothing of the task.
GInv == GTypes /\ ShOK(sh, pingpong) /\ KaOK(ka, sh) /\ Rest /\ TimeoutIsReal

\* With a prompt task more holds.  A stream is open, or pings go out anyway;
\* and the Ponger, that has seen it, watches the peer.
Due == ka.on /\ (ka.whileIdle \/ (users.client /\ users.streams > 0))
Watched == Due /\ (ka.whileIdle \/ known)

\* An acknowledgement is dealt with in the instant in which it arrives, so
\* nothing was read after the last sign of the peer.
AckSeen ==
  /\ pingpong \in {"acked", "pong"} => (ka.on => sign = now) /\ (task = "parked" => woken)
  /\ pingpong = "pong" => task \in {"ponger", "parked"}
  /\ sh.timedOut => ka.on /\ ka.sleep <= now
  /\ ka.on => sh.lastRead <= sign
  /\ sign <= now

\* The deadlines that lie ahead: to send a ping, and to hear of it.
Ahead ==
  task # "done" =>
    /\ Watched /\ ka.state # "PingSent" => now <= sign + Interval
    /\ Watched /\ ka.state = "PingSent" => ka.sleep <= sign + Interval + Timeout
    /\ ka.state = "PingSent" => now <= ka.sleep

\* A task that sleeps will be woken: it has registered with the timer.
Asleep ==
  /\ Watched => ka.state # "Init"
  /\ ka.state = "PingSent" \/ (Watched /\ ka.state = "Scheduled") => ka.armed /\ ka.sleep > now

\* The inductive invariant of a prompt task, on top of GInv.
RInv == AckSeen /\ Ahead /\ (task \in {"conn", "parked"} /\ ~woken => Asleep)

-----------------------------------------------------------------------------
(* KeepAlive, step by step.                                                *)

\* What a poll of KeepAlive may not do to what it works on.
Keeps(x, y) ==
  /\ y \in PollRec
  /\ y.sh.bytes = x.sh.bytes /\ y.sh.nextBdp = x.sh.nextBdp
  /\ y.sh.lastRead = x.sh.lastRead /\ y.sh.timedOut = x.sh.timedOut
  /\ y.ka.on = x.ka.on /\ y.ka.whileIdle = x.ka.whileIdle
  /\ x.sh.sentAt # Never => y.sh.sentAt = x.sh.sentAt /\ y.pingpong = x.pingpong
  /\ x.pingpong # "idle" => y.pingpong = x.pingpong
  /\ y.pingpong \in {x.pingpong, "out"}
  /\ x.again => y.again

\* Shared::send_ping: a ping is out afterwards, the one that was out already
\* or a new one, sent now, and Shared knows when.
LEMMA SendPingKeeps ==
  ASSUME now \in Nat, NEW x \in PollRec, ShOK(x.sh, x.pingpong)
  PROVE  /\ Keeps(x, SendPing(x)) /\ ShOK(SendPing(x).sh, SendPing(x).pingpong)
         /\ SendPing(x).sh.sentAt # Never /\ SendPing(x).ka = x.ka /\ SendPing(x).again = x.again
<1>1. CASE x.pingpong = "idle"
  <2>1. SendPing(x) = [sh |-> [x.sh EXCEPT !.sentAt = now], ka |-> x.ka, pingpong |-> "out", again |-> x.again]
    BY <1>1 DEF SendPing, PollRec
  <2> QED  BY <1>1, <2>1 DEF Keeps, ShOK, PollRec, ShRec, WireState, Never
<1>2. CASE x.pingpong # "idle"
  BY <1>2 DEF SendPing, Keeps, ShOK
<1> QED  BY <1>1, <1>2

\* A stream is open besides the task, or pings go out while idle.
Wakeful == WhileIdle \/ ~IsIdle

\* What KeepAlive works on: a state in which Shared, h2 and the timer agree.
PollOK(x) ==
  /\ x \in PollRec /\ ShOK(x.sh, x.pingpong) /\ KaOK(x.ka, x.sh)
  /\ x.ka.on = ka.on /\ x.ka.whileIdle = ka.whileIdle

\* x waits for the pong of a keep-alive ping.
Waits(x) == x.ka.state = "PingSent" /\ x.sh.sentAt # Never

\* KeepAlive::maybe_schedule touches nothing but the timer, never the timer
\* of a ping that is out, and leaves "Init" whenever pings are due.
LEMMA MaybeScheduleKeeps ==
  ASSUME GTypes, NEW x, PollOK(x), ka.on
  PROVE  LET z == MaybeSchedule(x)
         IN  /\ PollOK(z) /\ z.sh = x.sh /\ z.pingpong = x.pingpong /\ z.again = x.again
             /\ z.ka.state = "Init" => ~Wakeful
             /\ z.ka.state = "PingSent" => Waits(x)
             /\ Waits(x) => z = x
<1> DEFINE due == \/ x.ka.state = "Init" /\ Wakeful
                  \/ x.ka.state = "PingSent" /\ x.sh.sentAt = Never
<1>1. CASE due
  <2> PICK t \in Int : t = x.sh.lastRead + Interval
    BY PingAssumption DEF PollOK, PollRec, ShRec
  <2> PICK z : z = [x EXCEPT !.ka.state = "Scheduled", !.ka.at = t, !.ka.sleep = t, !.ka.armed = FALSE]
    OBVIOUS
  <2>1. MaybeSchedule(x) = z
    BY <1>1 DEF MaybeSchedule, Schedule, Wakeful
  <2>2. /\ z \in PollRec /\ z.sh = x.sh /\ z.pingpong = x.pingpong /\ z.again = x.again
        /\ z.ka.state = "Scheduled" /\ z.ka.at = t /\ z.ka.sleep = t
        /\ z.ka.on = x.ka.on /\ z.ka.whileIdle = x.ka.whileIdle
    BY DEF PollOK, PollRec, KaRec, KaState
  <2>3. z.ka.on
    BY <2>2 DEF PollOK
  <2>4. t <= x.sh.lastRead + Interval
    OBVIOUS
  <2>5. KaOK(z.ka, z.sh)
    BY <2>2, <2>3, <2>4 DEF KaOK
  <2>6. PollOK(z)
    BY <2>2, <2>5 DEF PollOK
  <2> QED  BY <1>1, <2>1, <2>2, <2>6 DEF Waits
<1>2. CASE ~due
  <2>1. MaybeSchedule(x) = x
    BY <1>2 DEF MaybeSchedule, Wakeful
  <2> QED  BY <1>2, <2>1 DEF PollOK, PollRec, KaRec, KaState, Waits
<1> QED  BY <1>1, <1>2

\* KeepAlive::maybe_ping, from a state z that was not left in "Init" with pings
\* due: it sends at most one ping, whose deadline lies Timeout ahead, and
\* otherwise the task will be woken.
LEMMA MaybePingKeeps ==
  ASSUME GTypes, NEW z, PollOK(z), ka.on,
         z.ka.state = "Init" => ~Wakeful,
         z.ka.state = "PingSent" => z.sh.sentAt # Never
  PROVE  LET y == MaybePing(z)
         IN  /\ PollOK(y) /\ Keeps(z, y)
             /\ y.ka.state = "Init" /\ Wakeful => y.again
             /\ y.ka.state = "Scheduled" /\ Wakeful => y.ka.armed /\ y.ka.sleep > now
             /\ y.ka.state = "PingSent" => y.sh.sentAt # Never
             /\ y.ka.state = "PingSent" /\ z.ka.state # "PingSent" => y.ka.sleep = now + Timeout
             /\ z.ka.state = "PingSent" => y = z
             /\ y.sh # z.sh \/ y.pingpong # z.pingpong => y.ka.state = "PingSent"
             /\ z.sh.lastRead = now /\ z.ka.state # "PingSent" => y.ka.state # "PingSent"
<1>0. Keeps(z, z) /\ now \in Nat /\ z.sh \in ShRec /\ z.ka \in KaRec /\ z \in PollRec
      /\ Interval \in Nat /\ Interval > 0 /\ Timeout \in Nat /\ ShOK(z.sh, z.pingpong) /\ KaOK(z.ka, z.sh)
  BY PingAssumption DEF Keeps, PollOK, PollRec, GTypes
<1>1. CASE z.ka.state # "Scheduled"
  <2>1. MaybePing(z) = z
    BY <1>1 DEF MaybePing
  <2>2. z.ka.state \in {"Init", "PingSent"}
    BY <1>0, <1>1 DEF KaRec, KaState
  <2> QED  BY <1>0, <2>1, <2>2
<1>2. CASE z.ka.state = "Scheduled" /\ z.ka.sleep > now
  <2> PICK y : y = [z EXCEPT !.ka.armed = TRUE]
    OBVIOUS
  <2>1. MaybePing(z) = y
    BY <1>2 DEF MaybePing
  <2>2. /\ y \in PollRec /\ y.sh = z.sh /\ y.pingpong = z.pingpong /\ y.again = z.again
        /\ y.ka = [z.ka EXCEPT !.armed = TRUE] /\ y.ka \in KaRec
        /\ y.ka.state = "Scheduled" /\ y.ka.armed /\ y.ka.sleep = z.ka.sleep /\ y.ka.at = z.ka.at
        /\ y.ka.on = z.ka.on /\ y.ka.whileIdle = z.ka.whileIdle
    BY <1>0, <1>2 DEF PollRec, KaRec
  <2>3. PollOK(y) /\ Keeps(z, y)
    BY <1>0, <1>2, <2>2 DEF PollOK, Keeps, KaOK
  <2> QED  BY <1>0, <1>2, <2>1, <2>2, <2>3
<1>3. CASE z.ka.state = "Scheduled" /\ z.ka.sleep <= now /\ z.sh.lastRead + Interval > z.ka.at
  <2> PICK y : y = [z EXCEPT !.ka.state = "Init", !.ka.armed = FALSE, !.again = TRUE]
    OBVIOUS
  <2>1. MaybePing(z) = y
    BY <1>0, <1>3 DEF MaybePing, KaRec
  <2>2. /\ y \in PollRec /\ y.sh = z.sh /\ y.pingpong = z.pingpong /\ y.again
        /\ y.ka \in KaRec /\ y.ka.state = "Init"
        /\ y.ka.on = z.ka.on /\ y.ka.whileIdle = z.ka.whileIdle
    BY <1>0, <1>3 DEF PollRec, KaRec, KaState
  <2>3. PollOK(y) /\ Keeps(z, y)
    BY <1>0, <1>3, <2>2 DEF PollOK, Keeps, KaOK
  <2> QED  BY <1>0, <1>3, <2>1, <2>2, <2>3
<1>4. CASE z.ka.state = "Scheduled" /\ z.ka.sleep <= now /\ z.sh.lastRead + Interval <= z.ka.at /\ ~Wakeful
  <2> PICK y : y = [z EXCEPT !.ka.armed = FALSE]
    OBVIOUS
  <2>1. MaybePing(z) = y
    BY <1>0, <1>4 DEF MaybePing, KaRec, ShRec, Wakeful
  <2>2. /\ y \in PollRec /\ y.sh = z.sh /\ y.pingpong = z.pingpong /\ y.again = z.again
        /\ y.ka \in KaRec /\ y.ka.state = "Scheduled" /\ y.ka.sleep = z.ka.sleep /\ y.ka.at = z.ka.at
        /\ y.ka.on = z.ka.on /\ y.ka.whileIdle = z.ka.whileIdle
    BY <1>0, <1>4 DEF PollRec, KaRec
  <2>3. PollOK(y) /\ Keeps(z, y)
    BY <1>0, <1>4, <2>2 DEF PollOK, Keeps, KaOK
  <2> QED  BY <1>0, <1>4, <2>1, <2>2, <2>3
<1>5. CASE z.ka.state = "Scheduled" /\ z.ka.sleep <= now /\ z.sh.lastRead + Interval <= z.ka.at /\ Wakeful
  <2> PICK p : p = SendPing(z)
    OBVIOUS
  <2>1. Keeps(z, p) /\ ShOK(p.sh, p.pingpong) /\ p.sh.sentAt # Never /\ p.ka = z.ka /\ p.again = z.again
    BY <1>0, SendPingKeeps
  <2> PICK y : y = [p EXCEPT !.ka.state = "PingSent", !.ka.sleep = now + Timeout, !.ka.armed = FALSE]
    OBVIOUS
  <2>2. MaybePing(z) = y
    BY <1>0, <1>5 DEF MaybePing, KaRec, ShRec, Wakeful
  <2>3. now + Timeout \in Int /\ p \in PollRec /\ p.sh \in ShRec /\ p.sh.sentAt \in Int
    BY <1>0, <2>1 DEF Keeps, PollRec, ShRec
  <2>4. /\ y \in PollRec /\ y.sh = p.sh /\ y.pingpong = p.pingpong /\ y.again = p.again
        /\ y.ka \in KaRec /\ y.ka.state = "PingSent" /\ y.ka.sleep = now + Timeout
        /\ y.ka.on = z.ka.on /\ y.ka.whileIdle = z.ka.whileIdle
    BY <2>1, <2>3 DEF PollRec, KaRec, KaState
  <2>5. Keeps(z, y)
    BY <2>1, <2>4 DEF Keeps
  <2>6. PollOK(y)
    <3>1. y.sh.sentAt <= now
      BY <2>1, <2>4, <1>0 DEF ShOK, Never
    <3>2. y.ka.on
      BY <2>4 DEF PollOK
    <3>3. KaOK(y.ka, y.sh)
      BY <1>0, <2>3, <2>4, <3>1, <3>2 DEF KaOK
    <3> QED  BY <2>1, <2>4, <3>3 DEF PollOK
  <2>7. z.sh.lastRead # now
    BY <1>0, <1>5 DEF KaOK, ShRec, KaRec
  <2>8. y.sh.sentAt # Never
    BY <2>1, <2>4
  <2> QED  BY <1>5, <2>2, <2>4, <2>5, <2>6, <2>7, <2>8
<1> QED
  <2>1. z.ka.sleep \in Int /\ z.ka.at \in Int /\ z.sh.lastRead \in Int
    BY <1>0 DEF KaRec, ShRec
  <2> QED  BY <1>0, <1>1, <1>2, <1>3, <1>4, <1>5, <2>1

\* KeepAlive::maybe_schedule and maybe_ping turn x into y: a ping that is out
\* is left alone; a new one has its whole timeout ahead of it and none goes
\* out right after a frame was read; and when pings are due the task runs again
\* at once, sleeps until the next one is, or has sent one.
Polls(x, y) ==
  /\ PollOK(y) /\ Keeps(x, y)
  /\ ka.on /\ y.ka.state = "Init" /\ Wakeful => y.again
  /\ y.ka.state = "Scheduled" /\ Wakeful => y.ka.armed /\ y.ka.sleep > now
  /\ y.ka.state = "PingSent" => y.sh.sentAt # Never
  /\ y.ka.state = "PingSent" /\ ~Waits(x) => y.ka.sleep = now + Timeout
  /\ Waits(x) => y = x
  /\ y.sh # x.sh \/ y.pingpong # x.pingpong => y.ka.state = "PingSent"
  /\ x.sh.lastRead = now /\ ~Waits(x) => y.ka.state # "PingSent"

\* That is what the two calls of Ponger::poll, one after the other, do.
LEMMA KeepAlivePolls ==
  ASSUME GTypes, NEW x, PollOK(x)
  PROVE  Polls(x, KeepAlive(x))
<1>1. CASE ka.on
  <2> PICK z : z = MaybeSchedule(x)
    OBVIOUS
  <2> PICK y : y = MaybePing(z)
    OBVIOUS
  <2>1. KeepAlive(x) = y
    BY <1>1 DEF KeepAlive, KeepAliveOn
  <2>2. /\ PollOK(z) /\ z.sh = x.sh /\ z.pingpong = x.pingpong /\ z.again = x.again
        /\ z.ka.state = "Init" => ~Wakeful
        /\ z.ka.state = "PingSent" => Waits(x)
        /\ Waits(x) => z = x
    BY <1>1, MaybeScheduleKeeps
  <2>3. z.ka.state = "PingSent" => z.sh.sentAt # Never
    BY <2>2 DEF Waits
  <2>4. /\ PollOK(y) /\ Keeps(z, y)
        /\ y.ka.state = "Init" /\ Wakeful => y.again
        /\ y.ka.state = "Scheduled" /\ Wakeful => y.ka.armed /\ y.ka.sleep > now
        /\ y.ka.state = "PingSent" => y.sh.sentAt # Never
        /\ y.ka.state = "PingSent" /\ z.ka.state # "PingSent" => y.ka.sleep = now + Timeout
        /\ z.ka.state = "PingSent" => y = z
        /\ y.sh # z.sh \/ y.pingpong # z.pingpong => y.ka.state = "PingSent"
        /\ z.sh.lastRead = now /\ z.ka.state # "PingSent" => y.ka.state # "PingSent"
    BY <1>1, <2>2, <2>3, MaybePingKeeps
  <2>5. Keeps(x, y)
    BY <2>2, <2>4 DEF Keeps, PollOK
  <2> QED  BY <2>1, <2>2, <2>4, <2>5 DEF Polls, Waits
<1>2. CASE ~ka.on
  <2>1. KeepAlive(x) = x
    BY <1>2 DEF KeepAlive, KeepAliveOn
  <2>2. x.ka.state = "Init"
    BY <1>2 DEF PollOK, KaOK
  <2>3. Keeps(x, x)
    BY DEF PollOK, Keeps
  <2> QED  BY <1>2, <2>1, <2>2, <2>3 DEF Polls, Waits
<1> QED  BY <1>1, <1>2

\* The state a poll of the Ponger starts from.
Now == [sh |-> sh, ka |-> ka, pingpong |-> pingpong, again |-> FALSE]

\* So it is for the Ponger.
LEMMA PolledPolls ==
  ASSUME GInv
  PROVE  PollOK(Now) /\ Polls(Now, Polled) /\ (Waits(Now) <=> ka.state = "PingSent")
<1>1. PollOK(Now)
  BY DEF GInv, GTypes, Now, PollOK, PollRec
<1>2. Polls(Now, Polled)
  BY <1>1, KeepAlivePolls DEF GInv, Now, Polled
<1>3. Waits(Now) <=> ka.state = "PingSent"
  BY DEF GInv, Rest, Waits, Now
<1> QED  BY <1>1, <1>2, <1>3

-----------------------------------------------------------------------------
(* The bandwidth estimate.                                                 *)

\* Bdp::calculate: the estimate stays between the initial window and the
\* limit, the delay below four times its maximum.
LEMMA CalculateKeeps ==
  ASSUME NEW b \in BdpRec, NEW bytes \in Nat, NEW faster \in BOOLEAN,
         b.bdp \in InitialWindow..Limit, b.delay \in 0..(4 * MaxDelay)
  PROVE  LET c == Calculate(b, bytes, faster)
         IN  /\ c \in BdpRec /\ c.on = b.on
             /\ c.bdp \in InitialWindow..Limit /\ c.delay \in 0..(4 * MaxDelay)
<1>0. InitialWindow \in Nat /\ InitialWindow >= 2 /\ Limit \in Nat /\ MaxDelay \in Nat
      /\ b.bdp \in Nat /\ b.delay \in Nat
  BY PingAssumption DEF BdpRec
<1>1. ASSUME b.bdp = Limit \/ ~faster \/ bytes < (b.bdp * 2) \div 3
      PROVE  LET c == Calculate(b, bytes, faster)
             IN  /\ c \in BdpRec /\ c.on = b.on
                 /\ c.bdp \in InitialWindow..Limit /\ c.delay \in 0..(4 * MaxDelay)
  <2>1. Calculate(b, bytes, faster) = StabilizeDelay(b)
    BY <1>1 DEF Calculate
  <2>2. CASE b.delay >= MaxDelay
    BY <2>1, <2>2 DEF StabilizeDelay
  <2>3. CASE b.delay < MaxDelay /\ b.stable = 1
    <3> PICK d \in Nat : d = b.delay * 4 /\ d <= 4 * MaxDelay
      BY <1>0, <2>3
    <3>1. StabilizeDelay(b) = [b EXCEPT !.stable = 0, !.delay = d]
      BY <1>0, <2>3 DEF StabilizeDelay
    <3>2. d \in 0..(4 * MaxDelay)
      BY <1>0
    <3> QED  BY <1>0, <2>1, <3>1, <3>2 DEF BdpRec
  <2>4. CASE b.delay < MaxDelay /\ b.stable # 1
    <3>1. StabilizeDelay(b) = [b EXCEPT !.stable = 1]
      BY <1>0, <2>4 DEF StabilizeDelay
    <3> QED  BY <1>0, <2>1, <3>1 DEF BdpRec
  <2> QED  BY <1>0, <2>2, <2>3, <2>4
<1>2. ASSUME ~(b.bdp = Limit \/ ~faster \/ bytes < (b.bdp * 2) \div 3)
      PROVE  LET c == Calculate(b, bytes, faster)
             IN  /\ c \in BdpRec /\ c.on = b.on
                 /\ c.bdp \in InitialWindow..Limit /\ c.delay \in 0..(4 * MaxDelay)
  <2> PICK w \in Nat : w = IF bytes * 2 < Limit THEN bytes * 2 ELSE Limit
    BY <1>0
  <2> PICK d \in Nat : d = b.delay \div 2 /\ d <= 4 * MaxDelay
    BY <1>0
  <2>1. Calculate(b, bytes, faster) = [b EXCEPT !.bdp = w, !.stable = 0, !.delay = d]
    BY <1>2 DEF Calculate
  <2>2. w \in InitialWindow..Limit
    <3>1. \A n \in Nat : n >= 2 => 2 * ((n * 2) \div 3) >= n
      BY Z3
    <3>2. bytes * 2 >= b.bdp
      <4>1. bytes >= (b.bdp * 2) \div 3 /\ (b.bdp * 2) \div 3 \in Nat
        BY <1>0, <1>2
      <4> QED  BY <1>0, <3>1, <4>1
    <3> QED  BY <1>0, <3>2
  <2>3. d \in 0..(4 * MaxDelay)
    BY <1>0
  <2> QED  BY <1>0, <2>1, <2>2, <2>3 DEF BdpRec
<1> QED  BY <1>1, <1>2

-----------------------------------------------------------------------------
(* GInv is inductive.                                                      *)

\* Pinging starts with nothing sent and the bandwidth estimate in range.
LEMMA InitGInv ==
  ASSUME GInit
  PROVE  GInv
<1>1. GTypes
  <2>1. Never \in Int /\ Interval \in Int /\ InitialWindow \in Nat /\ InitialDelay \in Nat
    BY PingAssumption DEF Never
  <2>2. sh \in ShRec
    BY <2>1 DEF GInit, ShRec
  <2>3. ka \in KaRec
    BY <2>1 DEF GInit, KaRec, KaState
  <2>4. bdp \in BdpRec
    BY <2>1 DEF GInit, BdpRec
  <2>5. users \in [client : BOOLEAN, opening : BOOLEAN, streams : {0, 1}]
    BY DEF GInit
  <2> QED  BY <2>2, <2>3, <2>4, <2>5 DEF GInit, GTypes, WireState
<1>2. ShOK(sh, pingpong) /\ KaOK(ka, sh) /\ TimeoutIsReal
  BY DEF GInit, ShOK, KaOK, Never, TimeoutIsReal
<1>3. Rest
  BY PingAssumption DEF GInit, Rest
<1> QED  BY <1>1, <1>2, <1>3 DEF GInv

\* What Keep makes of a state in which Shared, h2 and the timer agree.
LEMMA KeepTypes ==
  ASSUME GTypes, NEW y, PollOK(y), Keep(y), now' = now
  PROVE  /\ sh' \in ShRec /\ ka' \in KaRec /\ pingpong' \in WireState /\ woken' \in BOOLEAN
         /\ ShOK(sh, pingpong)' /\ KaOK(ka, sh)'
         /\ ka'.on = ka.on /\ ka'.whileIdle = ka.whileIdle
<1>1. sh' = y.sh /\ ka' = y.ka /\ pingpong' = y.pingpong /\ woken' = (woken \/ y.again)
  BY DEF Keep
<1>2. y.sh \in ShRec /\ y.ka \in KaRec /\ y.pingpong \in WireState /\ y.again \in BOOLEAN
  BY DEF PollOK, PollRec
<1>3. ShOK(sh, pingpong)'
  BY <1>1 DEF PollOK, ShOK
<1>4. KaOK(ka, sh)'
  BY <1>1 DEF PollOK, KaOK
<1> QED  BY <1>1, <1>2, <1>3, <1>4 DEF PollOK

\* Every poll of the Ponger, every record and every tick of the clock keeps
\* GInv, however the connection task and the recorders are interleaved.
LEMMA StepGInv == GInv /\ [GNext]_gvars => GInv'
<1> SUFFICES ASSUME GInv, [GNext]_gvars
             PROVE  GInv'
  OBVIOUS
<1>0. GTypes /\ ShOK(sh, pingpong) /\ KaOK(ka, sh) /\ Rest /\ TimeoutIsReal
  BY DEF GInv
<1>1. CASE Poll
  <2>1. GTypes'
    BY <1>0, <1>1 DEF Poll, GTypes
  <2>2. ShOK(sh, pingpong)' /\ KaOK(ka, sh)' /\ TimeoutIsReal'
    BY <1>0, <1>1 DEF Poll, ShOK, KaOK, TimeoutIsReal
  <2>3. Rest'
    BY <1>0, <1>1 DEF Poll, Rest
  <2> QED  BY <2>1, <2>2, <2>3 DEF GInv
<1>2. CASE PongerNoPing \/ PongerWaits \/ PongerTimesOut
  <2> PICK p : p = Polled
    OBVIOUS
  <2>1. PollOK(p) /\ Polls(Now, p)
    BY PolledPolls DEF Polls
  <2> DEFINE y == IF PongerTimesOut THEN [p EXCEPT !.sh.timedOut = TRUE]
                  ELSE IF PongerWaits /\ p.ka.state = "PingSent" THEN [p EXCEPT !.ka.armed = TRUE]
                  ELSE p
  <2>2. Keep(y) /\ now' = now /\ users' = users /\ bdp' = bdp /\ (sign' = sign \/ sign' = now)
        /\ task = "ponger" /\ task' = (IF PongerTimesOut THEN "done" ELSE "conn")
        /\ (known' = known \/ known' = TRUE)
    BY <1>2 DEF PongerNoPing, PongerWaits, PongerTimesOut, NoPong, Sees, Opened
  <2> SUFFICES ASSUME NEW z, z = y
               PROVE  GInv'
    OBVIOUS
  <2>3. /\ z.sh = IF PongerTimesOut THEN [p.sh EXCEPT !.timedOut = TRUE] ELSE p.sh
        /\ z.ka.state = p.ka.state /\ z.ka.sleep = p.ka.sleep /\ z.ka.at = p.ka.at
        /\ z.ka.on = p.ka.on /\ z.ka.whileIdle = p.ka.whileIdle
        /\ z.pingpong = p.pingpong /\ z.again = p.again /\ z \in PollRec
    BY <2>1 DEF PollOK, PollRec, ShRec, KaRec
  <2> HIDE DEF y
  <2>4. z.sh.sentAt = p.sh.sentAt /\ z.sh.lastRead = p.sh.lastRead /\ z.sh.bytes = p.sh.bytes
    BY <2>1, <2>3 DEF PollOK, PollRec, ShRec
  <2>5. PollOK(z)
    BY <2>1, <2>3, <2>4 DEF PollOK, ShOK, KaOK
  <2>6. /\ sh' \in ShRec /\ ka' \in KaRec /\ pingpong' \in WireState /\ woken' \in BOOLEAN
        /\ ShOK(sh, pingpong)' /\ KaOK(ka, sh)'
    BY <1>0, <2>2, <2>5, KeepTypes
  <2>7. GTypes'
    BY <1>0, <2>2, <2>6 DEF GTypes
  <2>8. Keeps(Now, p)
    BY <2>1 DEF Polls
  <2>9. sh' = z.sh /\ ka' = z.ka /\ pingpong' = z.pingpong
    BY <2>2 DEF Keep
  <2>10. ~sh.timedOut /\ p.sh.timedOut = sh.timedOut /\ p.sh.bytes = sh.bytes
         /\ (sh.sentAt # Never => p.sh.sentAt = sh.sentAt)
    BY <1>0, <2>2, <2>8 DEF Rest, Keeps, Now
  <2>11. z.sh.timedOut => PongerTimesOut
    BY <2>3, <2>10
  <2>12. Rest'
    <3>1. ka'.state = "PingSent" => sh'.sentAt # Never
      BY <2>1, <2>3, <2>4, <2>9 DEF Polls
    <3>2. sh'.bytes > 0 => bdp'.on /\ sh'.sentAt # Never
      BY <1>0, <2>2, <2>4, <2>9, <2>10 DEF Rest
    <3> QED  BY <1>0, <2>2, <2>9, <2>11, <3>1, <3>2 DEF Rest
  <2>13. TimeoutIsReal'
    <3> SUFFICES ASSUME PongerTimesOut
                 PROVE  sh'.sentAt # Never /\ now' >= sh'.sentAt + Timeout /\ pingpong' # "pong"
      BY <2>9, <2>11 DEF TimeoutIsReal
    <3>1. p.sh.sentAt # Never /\ p.pingpong # "pong" /\ p.ka.state = "PingSent" /\ p.ka.sleep <= now
      BY DEF PongerTimesOut, NoPong, Expired
    <3>2. p.ka.sleep >= p.sh.sentAt + Timeout
      BY <2>1, <3>1 DEF PollOK, KaOK
    <3>3. p.sh.sentAt \in Int /\ p.ka.sleep \in Int /\ now \in Int /\ Timeout \in Int
      BY <1>0, <2>1, PingAssumption DEF PollOK, PollRec, ShRec, KaRec, GTypes
    <3>4. now >= p.sh.sentAt + Timeout
      BY <3>1, <3>2, <3>3
    <3> QED  BY <2>2, <2>3, <2>4, <2>9, <3>1, <3>4
  <2> QED  BY <2>6, <2>7, <2>12, <2>13 DEF GInv
<1>3. CASE \E faster \in BOOLEAN : PongerPong(faster)
  <2> PICK faster \in BOOLEAN : PongerPong(faster)
    BY <1>3
  <2> PICK p : p = Polled
    OBVIOUS
  <2>1. PollOK(p) /\ Keeps(Now, p)
    BY PolledPolls DEF Polls
  <2> PICK q : q = [p EXCEPT !.pingpong = "idle", !.sh.sentAt = Never, !.sh.lastRead = now]
    OBVIOUS
  <2> PICK x : x = KeepAlive(q)
    OBVIOUS
  <2> PICK b : b = Calculate(bdp, sh.bytes, faster)
    OBVIOUS
  <2> PICK y : y = IF bdp.on THEN [x EXCEPT !.sh.bytes = 0, !.sh.nextBdp = now + b.delay] ELSE x
    OBVIOUS
  <2>2. /\ task = "ponger" /\ task' = "conn" /\ now' = now /\ users' = users
        /\ (sign' = sign \/ sign' = now) /\ known' = TRUE
        /\ Keep(y) /\ bdp' = IF bdp.on THEN b ELSE bdp
    BY DEF PongerPong, BdpOn, Sees, Opened
  <2>3. /\ q \in PollRec /\ q.ka = p.ka /\ q.pingpong = "idle" /\ q.again = p.again
        /\ q.sh.sentAt = Never /\ q.sh.lastRead = now /\ q.sh.bytes = p.sh.bytes
        /\ q.sh.timedOut = p.sh.timedOut
    <3>1. now \in Nat /\ Never \in Int /\ "idle" \in WireState /\ p \in PollRec
      BY <1>0, <2>1 DEF GTypes, Never, WireState, PollOK
    <3> QED  BY <3>1 DEF PollRec, ShRec
  <2>4. PollOK(q)
    <3>1. now \in Nat /\ Interval \in Nat /\ p.sh.lastRead \in Nat /\ p.ka.at \in Int
      BY <1>0, <2>1, PingAssumption DEF GTypes, PollOK, PollRec, ShRec, KaRec
    <3>2. ShOK(q.sh, q.pingpong)
      BY <2>3, <3>1 DEF ShOK, Never
    <3>3. p.sh.lastRead <= now /\ KaOK(p.ka, p.sh)
      BY <2>1 DEF PollOK, ShOK
    <3>4. KaOK(q.ka, q.sh)
      BY <2>3, <3>1, <3>3 DEF KaOK
    <3> QED  BY <2>1, <2>3, <3>2, <3>4 DEF PollOK
  <2>5. Polls(q, x)
    BY <1>0, <2>4, KeepAlivePolls
  <2>6. x \in PollRec /\ x.sh = q.sh /\ x.pingpong = q.pingpong /\ x.ka.state # "PingSent"
    BY <2>3, <2>5 DEF Polls, PollOK, Waits
  <2>7. bdp \in BdpRec /\ sh.bytes \in Nat /\ bdp.bdp \in InitialWindow..Limit
        /\ bdp.delay \in 0..(4 * MaxDelay)
    BY <1>0 DEF GTypes, Rest, ShRec
  <2>8. /\ b \in BdpRec /\ b.on = bdp.on
        /\ b.bdp \in InitialWindow..Limit /\ b.delay \in 0..(4 * MaxDelay)
    BY <2>7, CalculateKeeps
  <2>9. now + b.delay \in Int
    BY <1>0, <2>8 DEF GTypes, BdpRec
  <2>10. /\ y \in PollRec /\ y.ka = x.ka /\ y.pingpong = x.pingpong /\ y.again = x.again
         /\ y.sh.sentAt = x.sh.sentAt /\ y.sh.lastRead = x.sh.lastRead
         /\ y.sh.timedOut = x.sh.timedOut /\ y.sh.bytes = IF bdp.on THEN 0 ELSE x.sh.bytes
    <3>1. CASE bdp.on
      BY <2>6, <2>9, <3>1 DEF PollRec, ShRec
    <3>2. CASE ~bdp.on
      BY <2>6, <3>2
    <3> QED  BY <3>1, <3>2
  <2>11. PollOK(y)
    BY <2>5, <2>10 DEF Polls, PollOK, ShOK, KaOK
  <2>12. /\ sh' \in ShRec /\ ka' \in KaRec /\ pingpong' \in WireState /\ woken' \in BOOLEAN
         /\ ShOK(sh, pingpong)' /\ KaOK(ka, sh)'
    BY <1>0, <2>2, <2>11, KeepTypes
  <2>13. GTypes'
    BY <1>0, <2>2, <2>7, <2>8, <2>12 DEF GTypes
  <2>14. sh' = y.sh /\ ka' = y.ka
    BY <2>2 DEF Keep
  <2>15. ~sh'.timedOut
    BY <1>0, <2>1, <2>2, <2>3, <2>6, <2>10, <2>14 DEF Rest, Keeps, Now
  <2>16. ~(sh'.bytes > 0)
    <3>1. x.sh.bytes = sh.bytes
      BY <2>1, <2>3, <2>6 DEF Keeps, Now
    <3>2. ~bdp.on => ~(sh.bytes > 0)
      BY <1>0 DEF Rest
    <3> QED  BY <2>10, <2>14, <3>1, <3>2
  <2>17. Rest'
    BY <2>2, <2>6, <2>7, <2>8, <2>10, <2>14, <2>15, <2>16 DEF Rest
  <2>18. TimeoutIsReal'
    BY <2>15 DEF TimeoutIsReal
  <2> QED  BY <2>12, <2>13, <2>17, <2>18 DEF GInv
<1>4. CASE ConnPoll \/ PeerAcks
  <2>1. /\ now' = now /\ sh' = sh /\ ka' = ka /\ bdp' = bdp /\ users' = users
        /\ pingpong # "idle" <=> pingpong' # "idle"
        /\ task # "done" /\ pingpong' \in {pingpong, "acked", "pong"} /\ task' \in {task, "parked"}
        /\ (sign' = sign \/ sign' = now) /\ woken' \in BOOLEAN /\ known' = known
    BY <1>0, <1>4 DEF ConnPoll, PeerAcks, Heard, GTypes
  <2>2. GTypes'
    BY <1>0, <2>1 DEF GTypes, WireState
  <2>3. ShOK(sh, pingpong)'
    BY <1>0, <2>1 DEF ShOK
  <2>4. KaOK(ka, sh)'
    BY <1>0, <2>1 DEF KaOK
  <2>5. Rest' /\ TimeoutIsReal'
    BY <1>0, <2>1 DEF Rest, TimeoutIsReal
  <2> QED  BY <2>2, <2>3, <2>4, <2>5 DEF GInv
<1>5. CASE \E n \in Sizes : RecordData(n)
  <2> PICK n \in Sizes : RecordData(n)
    BY <1>5
  <2> PICK r : r = [sh EXCEPT !.lastRead = ReadNow, !.bytes = sh.bytes + n, !.nextBdp = Never]
    OBVIOUS
  <2> PICK u : u = [sh |-> r, ka |-> ka, pingpong |-> pingpong, again |-> pingpong = "idle"]
    OBVIOUS
  <2> PICK x : x = SendPing(u)
    OBVIOUS
  <2> DEFINE sample == bdp.on /\ sh.nextBdp <= now
  <2> PICK v : v = [sh EXCEPT !.lastRead = ReadNow]
    OBVIOUS
  <2> DEFINE kept == IF sample
                     THEN IF sh.sentAt = Never THEN x
                          ELSE [x EXCEPT !.sh.sentAt = sh.sentAt, !.pingpong = pingpong, !.again = FALSE]
                     ELSE [sh |-> v, ka |-> ka, pingpong |-> pingpong, again |-> FALSE]
  <2> PICK y : y = kept
    OBVIOUS
  <2>1. /\ now' = now /\ bdp' = bdp /\ users' = users /\ task' = task /\ task # "done"
        /\ (sign' = sign \/ sign' = now) /\ known' = known
        /\ Keep(y)
    BY <1>0 DEF RecordData, BdpOn, Heard, Keep, GTypes
  <2> HIDE DEF kept
  <2>2. ReadNow \in Nat /\ ReadNow <= now /\ ReadNow >= sh.lastRead /\ n \in Nat /\ n > 0 /\ now \in Nat
    BY <1>0, PingAssumption DEF ReadNow, GTypes, ShOK, ShRec
  <2>3. /\ r \in ShRec /\ r.sentAt = sh.sentAt /\ r.lastRead = ReadNow /\ r.bytes = sh.bytes + n
        /\ r.timedOut = sh.timedOut
    <3>1. sh \in ShRec /\ Never \in Int
      BY <1>0 DEF GTypes, Never
    <3>2. sh.bytes + n \in Nat
      BY <2>2, <3>1 DEF ShRec
    <3> QED  BY <2>2, <3>1, <3>2 DEF ShRec
  <2>4. u \in PollRec /\ ShOK(u.sh, u.pingpong)
    BY <1>0, <2>2, <2>3 DEF GTypes, PollRec, ShOK
  <2>5. Keeps(u, x) /\ ShOK(x.sh, x.pingpong) /\ x.sh.sentAt # Never /\ x.ka = u.ka /\ x \in PollRec
    BY <2>2, <2>4, SendPingKeeps DEF Keeps
  <2>6. /\ x.sh.lastRead = ReadNow /\ x.sh.bytes = sh.bytes + n /\ x.sh.timedOut = sh.timedOut
        /\ x.ka = ka /\ (sh.sentAt # Never => x.sh.sentAt = sh.sentAt /\ x.pingpong = pingpong)
    BY <2>3, <2>5, ZenonT(90) DEF Keeps
  <2>7. /\ y \in PollRec /\ y.ka = ka /\ y.sh.lastRead = ReadNow /\ y.sh.timedOut = sh.timedOut
        /\ (sh.sentAt # Never => y.sh.sentAt = sh.sentAt /\ y.pingpong = pingpong)
    <3>1. CASE sample /\ sh.sentAt = Never
      BY <2>5, <2>6, <3>1 DEF kept
    <3>2. CASE sample /\ sh.sentAt # Never
      <4>0. sh.sentAt \in Int
        BY <1>0 DEF GTypes, ShRec
      <4>1. pingpong \in WireState /\ x \in PollRec
        BY <1>0, <2>5 DEF GTypes
      <4>2. y = [x EXCEPT !.sh.sentAt = sh.sentAt, !.pingpong = pingpong, !.again = FALSE]
        BY <3>2 DEF kept
      <4> PICK k : k = [x.sh EXCEPT !.sentAt = sh.sentAt]
        OBVIOUS
      <4>3. /\ k \in ShRec /\ k.sentAt = sh.sentAt
            /\ k.lastRead = x.sh.lastRead /\ k.timedOut = x.sh.timedOut
        BY <4>0, <4>1 DEF PollRec, ShRec
      <4>4. y = [sh |-> k, ka |-> x.ka, pingpong |-> pingpong, again |-> FALSE]
        BY <4>1, <4>2 DEF PollRec
      <4>5. y \in PollRec /\ y.ka = x.ka /\ y.pingpong = pingpong /\ y.sh = k
        BY <4>1, <4>3, <4>4 DEF PollRec
      <4> QED  BY <2>6, <4>3, <4>5
    <3>3. CASE ~sample
      <4>1. y = [sh |-> v, ka |-> ka, pingpong |-> pingpong, again |-> FALSE]
        BY <3>3 DEF kept
      <4>2. sh \in ShRec /\ ka \in KaRec /\ pingpong \in WireState
        BY <1>0 DEF GTypes
      <4>3. v \in ShRec /\ v.lastRead = ReadNow /\ v.timedOut = sh.timedOut /\ v.sentAt = sh.sentAt
        BY <2>2, <4>2 DEF ShRec
      <4>4. y \in PollRec /\ y.sh = v /\ y.ka = ka /\ y.pingpong = pingpong
        BY <4>1, <4>2, <4>3 DEF PollRec
      <4> QED  BY <4>3, <4>4
    <3> QED  BY <3>1, <3>2, <3>3
  <2>8. ShOK(y.sh, y.pingpong)
    <3>1. CASE sample /\ sh.sentAt = Never
      BY <2>5, <3>1 DEF kept
    <3>2. CASE sample /\ sh.sentAt # Never
      <4>1. y.sh.sentAt = sh.sentAt /\ y.pingpong = pingpong /\ y.sh.lastRead = ReadNow
        BY <3>2, <2>7
      <4> QED  BY <1>0, <2>2, <4>1 DEF ShOK
    <3>3. CASE ~sample
      <4>1. y.sh.sentAt = sh.sentAt /\ y.pingpong = pingpong /\ y.sh.lastRead = ReadNow
        BY <1>0, <3>3 DEF GTypes, ShRec, kept
      <4> QED  BY <1>0, <2>2, <4>1 DEF ShOK
    <3> QED  BY <3>1, <3>2, <3>3
  <2>9. KaOK(y.ka, y.sh)
    <3>1. /\ ka.state = "PingSent" => y.sh.sentAt = sh.sentAt
          /\ sh.lastRead \in Nat /\ ka.at \in Int /\ Interval \in Nat
      BY <1>0, <2>7, PingAssumption DEF Rest, GTypes, ShRec, KaRec
    <3> QED  BY <1>0, <2>2, <2>7, <3>1 DEF KaOK
  <2>10. PollOK(y)
    BY <2>7, <2>8, <2>9 DEF PollOK
  <2>11. /\ sh' \in ShRec /\ ka' \in KaRec /\ pingpong' \in WireState /\ woken' \in BOOLEAN
         /\ ShOK(sh, pingpong)' /\ KaOK(ka, sh)' /\ sh' = y.sh /\ ka' = ka
    BY <1>0, <2>1, <2>7, <2>10, KeepTypes DEF Keep
  <2>12. GTypes'
    BY <1>0, <2>1, <2>11 DEF GTypes
  <2>13. y.sh.bytes > 0 => bdp.on /\ y.sh.sentAt # Never
    <3>1. CASE sample
      BY <2>5, <2>7, <3>1 DEF kept
    <3>2. CASE ~sample
      <4>1. y.sh.bytes = sh.bytes /\ y.sh.sentAt = sh.sentAt
        BY <1>0, <3>2 DEF GTypes, ShRec, kept
      <4> QED  BY <1>0, <4>1 DEF Rest
    <3> QED  BY <3>1, <3>2
  <2>14. ~sh'.timedOut
    BY <1>0, <2>1, <2>7, <2>11 DEF Rest
  <2>15. ka'.state = "PingSent" => sh'.sentAt # Never
    BY <1>0, <2>7, <2>11 DEF Rest
  <2>16. Rest' /\ TimeoutIsReal'
    BY <1>0, <2>1, <2>11, <2>13, <2>14, <2>15 DEF Rest, TimeoutIsReal
  <2> QED  BY <2>11, <2>12, <2>16 DEF GInv
<1>6. CASE RecordNonData
  <2>1. /\ now' = now /\ bdp' = bdp /\ users' = users /\ task' = task /\ task # "done"
        /\ ka' = ka /\ pingpong' = pingpong /\ woken' = woken /\ known' = known
        /\ (sign' = sign \/ sign' = now)
        /\ sh' = [sh EXCEPT !.lastRead = ReadNow]
    BY <1>6 DEF RecordNonData, Heard
  <2>2. ReadNow \in Nat /\ ReadNow <= now /\ ReadNow >= sh.lastRead /\ now \in Nat
    BY <1>0 DEF ReadNow, GTypes, ShOK, ShRec
  <2>3. /\ sh' \in ShRec /\ sh'.sentAt = sh.sentAt /\ sh'.lastRead = ReadNow /\ sh'.bytes = sh.bytes
        /\ sh'.timedOut = sh.timedOut
    BY <1>0, <2>1, <2>2 DEF GTypes, ShRec
  <2>4. GTypes'
    BY <1>0, <2>1, <2>3 DEF GTypes
  <2>5. ShOK(sh, pingpong)'
    BY <1>0, <2>1, <2>2, <2>3 DEF ShOK
  <2>6. KaOK(ka, sh)'
    <3> PICK a, b : a = sh'.lastRead /\ b = sh.lastRead
      OBVIOUS
    <3>1. a \in Nat /\ b \in Nat /\ ka.at \in Int /\ Interval \in Nat /\ b <= a
      BY <1>0, <2>2, <2>3, PingAssumption DEF GTypes, ShRec, KaRec
    <3>2. ka.at <= b + Interval => ka.at <= a + Interval
      BY <3>1
    <3> QED  BY <1>0, <2>1, <2>3, <3>2 DEF KaOK
  <2>7. Rest' /\ TimeoutIsReal'
    BY <1>0, <2>1, <2>3 DEF Rest, TimeoutIsReal
  <2> QED  BY <2>4, <2>5, <2>6, <2>7 DEF GInv
<1>7. CASE \/ SendRequest
           \/ \E wakes \in BOOLEAN : PollPipe(wakes) \/ CloseStream(wakes) \/ DropClient(wakes)
  <2>1. /\ now' = now /\ sh' = sh /\ ka' = ka /\ bdp' = bdp /\ pingpong' = pingpong /\ task' = task
        /\ users' \in [client : BOOLEAN, opening : BOOLEAN, streams : {0, 1}]
        /\ woken' \in BOOLEAN /\ known' \in BOOLEAN
        /\ (sign' = sign \/ sign' = now)
    BY <1>0, <1>7 DEF SendRequest, PollPipe, CloseStream, DropClient, Opened, GTypes
  <2>2. GTypes'
    BY <1>0, <2>1 DEF GTypes
  <2>3. ShOK(sh, pingpong)' /\ KaOK(ka, sh)' /\ TimeoutIsReal'
    BY <1>0, <2>1 DEF ShOK, KaOK, TimeoutIsReal
  <2>4. Rest'
    BY <1>0, <2>1 DEF Rest
  <2> QED  BY <2>2, <2>3, <2>4 DEF GInv
<1>8. CASE Tick
  <2>1. /\ now' = now + 1 /\ sh' = sh /\ ka' = ka /\ bdp' = bdp /\ pingpong' = pingpong /\ task' = task
        /\ users' = users /\ sign' = sign /\ task # "done" /\ woken' \in BOOLEAN /\ known' = known
    BY <1>0, <1>8 DEF Tick, GTypes
  <2> PICK a, t : a = now /\ t = now'
    OBVIOUS
  <2>2. a \in Nat /\ t = a + 1 /\ t \in Nat /\ Timeout \in Nat
    BY <1>0, <2>1, PingAssumption DEF GTypes
  <2>3. GTypes'
    BY <1>0, <2>1, <2>2 DEF GTypes
  <2>4. sh.sentAt \in Int /\ sh.lastRead \in Nat /\ ka.sleep \in Int
    BY <1>0 DEF GTypes, ShRec, KaRec
  <2>5. ShOK(sh, pingpong)'
    <3>1. sh.sentAt \in Never..t /\ sh.lastRead <= t
      BY <1>0, <2>2, <2>4 DEF ShOK, Never
    <3> QED  BY <1>0, <2>1, <3>1 DEF ShOK
  <2>6. KaOK(ka, sh)'
    <3>1. ka.sleep <= a + Timeout => ka.sleep <= t + Timeout
      BY <2>2, <2>4
    <3> QED  BY <1>0, <2>1, <3>1 DEF KaOK
  <2>7. Rest' /\ TimeoutIsReal'
    BY <1>0, <2>1 DEF Rest, TimeoutIsReal
  <2> QED  BY <2>3, <2>5, <2>6, <2>7 DEF GInv
<1>9. CASE UNCHANGED gvars
  <2>1. GTypes'
    BY <1>0, <1>9 DEF gvars, GTypes
  <2>2. ShOK(sh, pingpong)' /\ KaOK(ka, sh)' /\ TimeoutIsReal'
    BY <1>0, <1>9 DEF gvars, ShOK, KaOK, TimeoutIsReal
  <2>3. Rest'
    BY <1>0, <1>9 DEF gvars, Rest
  <2> QED  BY <2>1, <2>2, <2>3 DEF GInv
<1> QED
  BY <1>1, <1>2, <1>3, <1>4, <1>5, <1>6, <1>7, <1>8, <1>9 DEF GNext

\* Shared, KeepAlive and h2's one ping agree in every behaviour, prompt or not.
THEOREM GInvariance == GSpec => []GInv
<1>1. GInit => GInv
  BY InitGInv
<1>2. GInv /\ [GNext]_gvars => GInv'
  BY StepGInv
<1> QED  BY <1>1, <1>2, PTL DEF GSpec

\* Keep-alive and the bandwidth estimate share one PING and agree on it.
THEOREM PingsAccounted == GSpec => []PingAccounting
<1>1. GInv => PingAccounting
  <2> SUFFICES ASSUME GInv
               PROVE  PingAccounting
    OBVIOUS
  <2>1. GTypeOK
    BY DEF GInv, GTypes, ShOK, Rest, ShRec, KaRec, KaState, WireState, GTypeOK
  <2>2. PingTracked /\ SampleHasPing
    BY DEF GInv, ShOK, Rest, PingTracked, SampleHasPing
  <2> QED  BY <2>1, <2>2 DEF PingAccounting
<1> QED  BY <1>1, GInvariance, PTL

-----------------------------------------------------------------------------
(* RInv is inductive when a woken task runs before time passes.            *)

\* It starts with every deadline ahead.
LEMMA InitRInv ==
  ASSUME GInit
  PROVE  RInv
<1>1. Interval \in Nat
  BY PingAssumption
<1>2. AckSeen
  BY DEF GInit, AckSeen
<1>3. Ahead /\ woken
  BY <1>1 DEF GInit, Ahead
<1> QED  BY <1>2, <1>3 DEF RInv

\* Where pings are due the connection does not count as idle.
LEMMA DueWakeful ==
  ASSUME GTypes, Due
  PROVE  ka.on /\ Wakeful
<1>1. CASE ka.whileIdle
  BY <1>1 DEF Due, Wakeful, WhileIdle
<1>2. CASE users.client /\ users.streams > 0
  <2>1. users.client = TRUE /\ users.streams = 1
    BY <1>2 DEF GTypes
  <2> QED  BY <2>1 DEF Due, Wakeful, IsIdle
<1> QED  BY <1>1, <1>2 DEF Due

\* Recorder::record_data leaves the timer alone.
LEMMA RecordDataKeeps ==
  ASSUME GInv, NEW n \in Sizes, RecordData(n)
  PROVE  /\ ka' = ka /\ pingpong' \in {pingpong, "out"} /\ (woken => woken')
         /\ sh'.lastRead = ReadNow /\ sh'.timedOut = sh.timedOut
<1> DEFINE r == [sh EXCEPT !.lastRead = ReadNow, !.bytes = @ + n, !.nextBdp = Never]
           u == [sh |-> r, ka |-> ka, pingpong |-> pingpong, again |-> pingpong = "idle"]
<1>0. sh \in ShRec /\ (pingpong = "idle" <=> sh.sentAt = Never)
  BY DEF GInv, GTypes, ShOK
<1>1. r \in ShRec /\ r.lastRead = ReadNow /\ r.timedOut = sh.timedOut /\ r.sentAt = sh.sentAt
  <2>1. now \in Nat /\ n \in Nat /\ Never \in Int
    BY PingAssumption DEF GInv, GTypes, Never
  <2>2. sh.bytes + n \in Nat /\ ReadNow \in Nat
    BY <1>0, <2>1 DEF ShRec, ReadNow
  <2> QED  BY <1>0, <2>1, <2>2 DEF ShRec
<1> HIDE DEF r
<1>2. CASE BdpOn /\ sh.nextBdp <= now /\ sh.sentAt = Never
  <2>1. Keep(SendPing(u))
    BY <1>2 DEF RecordData, r
  <2>2. SendPing(u).sh = [r EXCEPT !.sentAt = now] /\ SendPing(u).ka = ka /\ SendPing(u).pingpong = "out"
    BY <1>0, <1>2 DEF SendPing
  <2>3. sh' = [r EXCEPT !.sentAt = now] /\ ka' = ka /\ pingpong' = "out" /\ (woken => woken')
    BY <2>1, <2>2 DEF Keep
  <2>4. sh'.lastRead = r.lastRead /\ sh'.timedOut = r.timedOut
    BY <1>1, <2>3 DEF ShRec
  <2> QED  BY <1>1, <2>3, <2>4
<1>3. CASE BdpOn /\ sh.nextBdp <= now /\ sh.sentAt # Never
  <2>1. SendPing(u) = u
    BY <1>0, <1>3 DEF SendPing
  <2> DEFINE y == [u EXCEPT !.sh.sentAt = sh.sentAt, !.pingpong = pingpong, !.again = FALSE]
  <2>2. Keep(y)
    BY <1>3, <2>1 DEF RecordData, r
  <2>3. y.sh = [r EXCEPT !.sentAt = sh.sentAt] /\ y.ka = ka /\ y.pingpong = pingpong
    OBVIOUS
  <2> HIDE DEF y
  <2>4. sh' = [r EXCEPT !.sentAt = sh.sentAt] /\ ka' = ka /\ pingpong' = pingpong /\ (woken => woken')
    BY <2>2, <2>3 DEF Keep
  <2>5. sh'.lastRead = r.lastRead /\ sh'.timedOut = r.timedOut
    BY <1>1, <2>4 DEF ShRec
  <2> QED  BY <1>1, <2>4, <2>5
<1>4. CASE ~(BdpOn /\ sh.nextBdp <= now)
  <2>1. sh' = [sh EXCEPT !.lastRead = ReadNow] /\ ka' = ka /\ pingpong' = pingpong /\ woken' = woken
    BY <1>4 DEF RecordData
  <2> QED  BY <1>0, <2>1 DEF ShRec
<1> QED  BY <1>2, <1>3, <1>4

\* A later sign of the peer moves both deadlines back.
LEMMA Later ==
  \A a, b \in Nat, i, d \in Nat, t, s \in Int :
    a <= b => /\ t <= a + i => t <= b + i
              /\ s <= a + i + d => s <= b + i + d
OBVIOUS

\* The steps that hear of the peer and leave the timer alone push the
\* deadlines back and let no acknowledgement wait.
LEMMA HeardKeepsRInv ==
  ASSUME GInv, RInv, task # "done", task' = task, now' = now, users' = users, ka' = ka, Heard,
         sh'.timedOut = sh.timedOut, known' = known,
         sh'.lastRead = sh.lastRead \/ sh'.lastRead = ReadNow,
         woken => woken',
         pingpong' \in {pingpong, "out"} \/ (pingpong' = "acked" /\ woken')
  PROVE  RInv'
<1>0. /\ now \in Nat /\ sign \in Nat /\ sh.lastRead \in Nat /\ sh.lastRead <= now /\ ~sh.timedOut
      /\ Interval \in Nat /\ Timeout \in Nat /\ ka.sleep \in Int
  BY PingAssumption DEF GInv, GTypes, ShOK, Rest, ShRec, KaRec
<1>1. AckSeen /\ Ahead /\ (task \in {"conn", "parked"} /\ ~woken => Asleep)
  BY DEF RInv
<1>2. sign' = IF ka.on THEN now ELSE sign
  BY DEF Heard, KeepAliveOn
<1>3. AckSeen'
  BY <1>0, <1>1, <1>2 DEF AckSeen, ReadNow, KeepAliveOn
<1>4. sign' \in Nat /\ sign <= sign'
  BY <1>0, <1>1, <1>2 DEF AckSeen
<1>5. Ahead'
  <2> PICK a, b : a = sign /\ b = sign'
    OBVIOUS
  <2>1. a \in Nat /\ b \in Nat /\ a <= b
    BY <1>0, <1>4
  <2>2. /\ now <= a + Interval => now <= b + Interval
        /\ ka.sleep <= a + Interval + Timeout => ka.sleep <= b + Interval + Timeout
    <3>1. now \in Int /\ ka.sleep \in Int /\ Interval \in Nat /\ Timeout \in Nat
      BY <1>0
    <3>2. now <= a + Interval => now <= b + Interval
      BY <2>1, <3>1, Later
    <3>3. ka.sleep <= a + Interval + Timeout => ka.sleep <= b + Interval + Timeout
      BY <2>1, <3>1, Later
    <3> QED  BY <3>2, <3>3
  <2> QED  BY <1>1, <2>2 DEF Ahead, Watched, Due
<1>6. task' \in {"conn", "parked"} /\ ~woken' => Asleep'
  BY <1>1 DEF Asleep, Watched, Due
<1> QED  BY <1>3, <1>5, <1>6 DEF RInv

\* Every step of the Ponger, of the connection and of the recorders keeps RInv
\* when time passes only while the task sleeps.
LEMMA StepRInv ==
  ASSUME Prompt, GInv, GInv', RInv, [GNext]_gvars
  PROVE  RInv'
<1>0. /\ GTypes /\ ShOK(sh, pingpong) /\ KaOK(ka, sh) /\ Rest
      /\ AckSeen /\ Ahead /\ (task \in {"conn", "parked"} /\ ~woken => Asleep)
  BY DEF GInv, RInv
<1>a. /\ now \in Nat /\ sign \in Nat /\ sh.lastRead \in Nat /\ ka.sleep \in Int /\ ka.at \in Int
      /\ Interval \in Nat /\ Timeout \in Nat /\ Interval > 0 /\ Timeout > 0
  BY <1>0, PingAssumption DEF GTypes, ShRec, KaRec
<1>1. CASE Poll
  <2>1. /\ task = "parked" /\ task' = "ponger" /\ now' = now /\ sh' = sh /\ ka' = ka /\ pingpong' = pingpong
        /\ users' = users /\ sign' = sign /\ known' = known
    BY <1>1 DEF Poll
  <2>2. AckSeen'
    BY <1>0, <2>1 DEF AckSeen
  <2>3. Ahead'
    BY <1>0, <2>1 DEF Ahead, Watched, Due
  <2> QED  BY <2>1, <2>2, <2>3 DEF RInv
<1>2. CASE PongerNoPing \/ PongerWaits \/ PongerTimesOut
  <2> PICK p : p = Polled
    OBVIOUS
  <2>1. PollOK(p) /\ Polls(Now, p) /\ Keeps(Now, p) /\ (Waits(Now) <=> ka.state = "PingSent")
    BY PolledPolls DEF Polls
  <2>2. /\ task = "ponger" /\ now' = now /\ users' = users /\ (~PongerTimesOut => Sees)
        /\ (PongerTimesOut => UNCHANGED <<sign, known>>)
        /\ pingpong' = p.pingpong /\ task' = IF PongerTimesOut THEN "done" ELSE "conn"
        /\ ka' \in {p.ka, [p.ka EXCEPT !.armed = TRUE]} /\ sh' \in {p.sh, [p.sh EXCEPT !.timedOut = TRUE]}
        /\ woken' = (woken \/ p.again)
    <3>0. p \in PollRec
      BY <2>1 DEF PollOK
    <3>1. CASE PongerNoPing
      BY <1>2, <3>1 DEF PongerNoPing, Keep, PongerTimesOut, NoPong
    <3>2. CASE PongerWaits
      <4>1. Keep(IF p.ka.state = "PingSent" THEN [p EXCEPT !.ka.armed = TRUE] ELSE p)
            /\ task = "ponger" /\ now' = now /\ users' = users /\ Sees /\ task' = "conn"
            /\ ~PongerTimesOut
        BY <3>2 DEF PongerWaits, PongerTimesOut, NoPong
      <4>2. CASE p.ka.state = "PingSent"
        BY <3>0, <4>1, <4>2 DEF Keep, PollRec
      <4>3. CASE p.ka.state # "PingSent"
        BY <4>1, <4>3 DEF Keep
      <4> QED  BY <4>2, <4>3
    <3>3. CASE PongerTimesOut
      BY <3>0, <3>3 DEF Keep, PongerTimesOut, NoPong, PollRec
    <3> QED  BY <1>2, <3>1, <3>2, <3>3
  <2>3. /\ ka'.state = p.ka.state /\ ka'.sleep = p.ka.sleep /\ ka'.on = ka.on
        /\ ka'.whileIdle = ka.whileIdle /\ (p.ka.armed => ka'.armed) /\ sh'.lastRead = sh.lastRead
        /\ sh'.sentAt = p.sh.sentAt
    BY <2>1, <2>2 DEF PollOK, PollRec, KaRec, ShRec, Keeps, Now
  <2>4. /\ sign' \in {sign, now} /\ (Watched' => Due)
        /\ (Watched' => (Watched /\ sign' = sign) \/ sign' = now)
    BY <2>2, <2>3 DEF Watched, Due, Sees, Opened, KeepAliveOn, WhileIdle
  <2>5. pingpong' \in {pingpong, "out"} /\ pingpong' # "pong"
    <3>1. pingpong' \in {pingpong, "out"}
      BY <2>1, <2>2 DEF Keeps, Now
    <3>2. p.pingpong # "pong"
      BY <1>2, <2>1 DEF PongerNoPing, PongerWaits, PongerTimesOut, NoPong, PollOK, ShOK
    <3> QED  BY <2>2, <3>1, <3>2
  <2>6. sh'.timedOut => ka'.on /\ ka'.sleep <= now
    <3> SUFFICES ASSUME sh'.timedOut
                 PROVE  ka'.on /\ ka'.sleep <= now
      OBVIOUS
    <3>1. PongerTimesOut
      BY <2>2 DEF GInv, Rest
    <3> QED  BY <2>3, <3>1 DEF PongerTimesOut, Expired, KeepAliveOn
  <2>7. AckSeen'
    <3>1. sh.lastRead <= now
      BY <1>0 DEF ShOK
    <3> QED  BY <1>0, <1>a, <2>2, <2>3, <2>4, <2>5, <2>6, <3>1 DEF AckSeen
  <2>8. ka.state = "PingSent" => p.ka = ka
    BY <2>1 DEF Polls, Now
  <2>9. ka.state # "PingSent" /\ p.ka.state = "PingSent" => p.ka.sleep = now + Timeout
    BY <2>1 DEF Polls
  <2>10. Ahead'
    <3>1. task # "done"
      BY <2>2
    <3>2. Watched' /\ p.ka.state # "PingSent" => now <= sign' + Interval
      <4>1. now <= now + Interval
        BY <1>a
      <4> QED  BY <1>0, <2>4, <2>8, <3>1, <4>1 DEF Ahead
    <3>3. Watched' /\ p.ka.state = "PingSent" => p.ka.sleep <= sign' + Interval + Timeout
      <4> SUFFICES ASSUME Watched', p.ka.state = "PingSent"
                   PROVE  p.ka.sleep <= sign' + Interval + Timeout
        OBVIOUS
      <4>1. CASE sign' = now
        <5>1. p.ka.sleep \in Int /\ p.ka.sleep <= now + Timeout
          BY <2>1 DEF Polls, PollOK, PollRec, KaRec, KaOK
        <5> QED  BY <1>a, <4>1, <5>1
      <4>2. CASE Watched /\ sign' = sign /\ ka.state = "PingSent"
        BY <1>0, <2>8, <3>1, <4>2 DEF Ahead
      <4>3. CASE Watched /\ sign' = sign /\ ka.state # "PingSent"
        <5>1. now <= sign + Interval /\ p.ka.sleep = now + Timeout
          BY <1>0, <2>9, <3>1, <4>3 DEF Ahead
        <5> QED  BY <1>a, <4>3, <5>1
      <4> QED  BY <2>4, <4>1, <4>2, <4>3
    <3>4. p.ka.state = "PingSent" => now <= p.ka.sleep
      <4>1. CASE ka.state = "PingSent"
        BY <1>0, <2>8, <3>1, <4>1 DEF Ahead
      <4>2. CASE ka.state # "PingSent"
        BY <1>a, <2>9, <4>2
      <4> QED  BY <4>1, <4>2
    <3> QED  BY <2>2, <2>3, <3>2, <3>3, <3>4 DEF Ahead
  <2>11. ASSUME task' \in {"conn", "parked"}, ~woken'
         PROVE  Asleep'
    <3>1. ~p.again /\ ~PongerTimesOut
      BY <2>2, <2>11
    <3>2. Watched' => ka.on /\ Wakeful
      BY <1>0, <2>4, DueWakeful
    <3>3. Watched' => ka'.state # "Init"
      BY <2>1, <2>3, <3>1, <3>2 DEF Polls
    <3>4. Watched' /\ ka'.state = "Scheduled" => ka'.armed /\ ka'.sleep > now
      BY <2>1, <2>3, <3>2 DEF Polls
    <3>5. ASSUME ka'.state = "PingSent"
          PROVE  ka'.armed /\ ka'.sleep > now
      <4>1. p.sh.sentAt # Never /\ p.ka.state = "PingSent"
        BY <2>1, <2>3, <3>5 DEF Polls
      <4>2. PongerWaits
        BY <1>2, <3>1, <4>1 DEF PongerNoPing
      <4>3. ka' = [p.ka EXCEPT !.armed = TRUE]
        BY <2>1, <4>1, <4>2 DEF PongerWaits, Keep, PollOK, PollRec
      <4>4. ka.on
        BY <2>1, <4>1 DEF PollOK, KaOK
      <4>5. ~(p.ka.sleep <= now) /\ p.ka.sleep \in Int
        BY <2>1, <4>1, <4>2, <4>4 DEF PongerWaits, Expired, KeepAliveOn, PollOK, PollRec, KaRec
      <4> QED  BY <1>a, <2>1, <2>3, <4>3, <4>5 DEF PollOK, PollRec, KaRec
    <3> QED  BY <2>2, <3>3, <3>4, <3>5 DEF Asleep
  <2> QED  BY <2>7, <2>10, <2>11 DEF RInv
<1>3. CASE \E faster \in BOOLEAN : PongerPong(faster)
  <2> PICK faster \in BOOLEAN : PongerPong(faster)
    BY <1>3
  <2> PICK p : p = Polled
    OBVIOUS
  <2>1. PollOK(p) /\ Keeps(Now, p)
    BY PolledPolls DEF Polls
  <2> DEFINE r == [p EXCEPT !.pingpong = "idle", !.sh.sentAt = Never, !.sh.lastRead = now]
  <2> PICK q : q = r
    OBVIOUS
  <2>2. /\ q \in PollRec /\ q.ka = p.ka /\ q.pingpong = "idle"
        /\ q.sh.sentAt = Never /\ q.sh.lastRead = now
    <3>1. now \in Nat /\ Never \in Int /\ "idle" \in WireState /\ p \in PollRec
      BY <1>0, <2>1 DEF GTypes, Never, WireState, PollOK
    <3> QED  BY <3>1 DEF PollRec, ShRec
  <2> HIDE DEF r
  <2> PICK x : x = KeepAlive(q)
    OBVIOUS
  <2>3. PollOK(q)
    <3>1. p.sh.lastRead \in Nat /\ p.ka.at \in Int
      BY <2>1 DEF PollOK, PollRec, ShRec, KaRec
    <3>2. ShOK(q.sh, q.pingpong)
      BY <1>a, <2>2 DEF ShOK, Never
    <3>3. p.sh.lastRead <= now /\ KaOK(p.ka, p.sh)
      BY <2>1 DEF PollOK, ShOK
    <3>4. KaOK(q.ka, q.sh)
      BY <1>a, <2>2, <3>1, <3>3 DEF KaOK
    <3> QED  BY <2>1, <2>2, <3>2, <3>4 DEF PollOK
  <2>4. Polls(q, x)
    BY <1>0, <2>3, KeepAlivePolls
  <2>5. /\ x \in PollRec /\ x.sh = q.sh /\ x.pingpong = "idle" /\ x.ka.state # "PingSent"
        /\ x.ka.on = ka.on /\ x.ka.whileIdle = ka.whileIdle
    BY <2>2, <2>4 DEF Polls, PollOK, Waits
  <2> PICK b : b = Calculate(bdp, sh.bytes, faster)
    OBVIOUS
  <2> DEFINE k == [x EXCEPT !.sh.bytes = 0, !.sh.nextBdp = now + b.delay]
  <2>6. /\ k.sh.lastRead = x.sh.lastRead /\ k.ka = x.ka /\ k.pingpong = x.pingpong /\ k.again = x.again
    BY <2>5 DEF PollRec, ShRec
  <2>7. /\ task = "ponger" /\ task' = "conn" /\ now' = now /\ users' = users
        /\ sign' \in {sign, now}
        /\ (Keep(k) \/ Keep(x)) /\ p.pingpong = "pong"
    BY DEF PongerPong, r, Sees, Opened
  <2> HIDE DEF k
  <2>8. sh'.lastRead = now /\ ka' = x.ka /\ pingpong' = "idle" /\ woken' = (woken \/ x.again)
    BY <2>2, <2>5, <2>6, <2>7 DEF Keep
  <2>9. ka.on => sign = now
    BY <1>0, <2>1, <2>7 DEF Keeps, Now, AckSeen
  <2>10. ~sh'.timedOut
    BY <2>7 DEF GInv, Rest
  <2>11. AckSeen'
    BY <1>0, <1>a, <2>5, <2>7, <2>8, <2>9, <2>10 DEF AckSeen
  <2>12. Watched' => Due
    BY <2>5, <2>7, <2>8 DEF Watched, Due
  <2>13. Watched' => now <= sign' + Interval
    <3>1. Watched' => sign' = now
      BY <2>7, <2>9, <2>12 DEF Due
    <3>2. now <= now + Interval
      BY <1>a
    <3> QED  BY <3>1, <3>2
  <2>14. Ahead'
    BY <2>5, <2>7, <2>8, <2>13 DEF Ahead
  <2>15. ASSUME ~woken'
         PROVE  Asleep'
    <3>1. Watched' => ka.on /\ Wakeful
      BY <1>0, <2>12, DueWakeful
    <3> QED  BY <2>4, <2>5, <2>7, <2>8, <2>15, <3>1 DEF Asleep, Polls
  <2> QED  BY <2>11, <2>14, <2>15 DEF RInv
<1>4. CASE ConnPoll
  <2>1. /\ task = "conn" /\ task' = "parked" /\ now' = now /\ sh' = sh /\ ka' = ka
        /\ users' = users /\ sign' = sign /\ known' = known
        /\ pingpong' = (IF pingpong = "acked" THEN "pong" ELSE pingpong)
        /\ woken' = (woken \/ pingpong = "acked")
    BY <1>4 DEF ConnPoll
  <2>2. AckSeen'
    BY <1>0, <2>1 DEF AckSeen
  <2>3. Ahead'
    BY <1>0, <2>1 DEF Ahead, Watched, Due
  <2>4. ~woken' => Asleep'
    BY <1>0, <2>1 DEF Asleep, Watched, Due
  <2> QED  BY <2>2, <2>3, <2>4 DEF RInv
<1>5. CASE PeerAcks
  BY <1>5, HeardKeepsRInv DEF PeerAcks
<1>6. CASE \E n \in Sizes : RecordData(n)
  <2> PICK n \in Sizes : RecordData(n)
    BY <1>6
  <2>1. /\ ka' = ka /\ pingpong' \in {pingpong, "out"} /\ (woken => woken')
        /\ sh'.lastRead = ReadNow /\ sh'.timedOut = sh.timedOut
    BY RecordDataKeeps
  <2>2. task # "done" /\ task' = task /\ now' = now /\ users' = users /\ known' = known /\ Heard
    BY DEF RecordData
  <2> QED  BY <2>1, <2>2, HeardKeepsRInv
<1>7. CASE RecordNonData
  <2>1. sh'.lastRead = ReadNow /\ sh'.timedOut = sh.timedOut
    BY <1>0, <1>7 DEF RecordNonData, GTypes, ShRec
  <2> QED  BY <1>7, <2>1, HeardKeepsRInv DEF RecordNonData
<1>8. CASE \/ SendRequest
           \/ \E wakes \in BOOLEAN : PollPipe(wakes) \/ CloseStream(wakes) \/ DropClient(wakes)
  <2>1. /\ task' = task /\ now' = now /\ sh' = sh /\ ka' = ka /\ pingpong' = pingpong
        /\ (woken => woken') /\ sign' \in {sign, now}
        /\ (ka.on /\ ka.whileIdle => sign' = sign)
    BY <1>8 DEF SendRequest, PollPipe, CloseStream, DropClient, Opened, KeepAliveOn, WhileIdle
  <2>2. Watched' => Watched /\ sign' = sign
    <3>1. CASE SendRequest \/ \E wakes \in BOOLEAN : CloseStream(wakes) \/ DropClient(wakes)
      <4>1. /\ users'.client \in {users.client, FALSE} /\ users'.streams \in {users.streams, 0}
            /\ known' = known /\ sign' = sign
        <5>1. users \in [client : BOOLEAN, opening : BOOLEAN, streams : {0, 1}]
          BY <1>0 DEF GTypes
        <5> QED  BY <3>1, <5>1 DEF SendRequest, CloseStream, DropClient
      <4>2. users'.streams > 0 => users'.streams = users.streams
        BY <4>1
      <4> QED  BY <2>1, <4>1, <4>2 DEF Watched, Due
    <3>2. CASE \E wakes \in BOOLEAN : PollPipe(wakes)
      <4>1. known' = FALSE
        BY <3>2 DEF PollPipe
      <4> QED  BY <2>1, <4>1 DEF Watched, Due
    <3> QED  BY <1>8, <3>1, <3>2
  <2>3. AckSeen'
    <3>1. sh.lastRead <= now
      BY <1>0 DEF ShOK
    <3> QED  BY <1>0, <1>a, <2>1, <3>1 DEF AckSeen
  <2>4. Ahead'
    BY <1>0, <2>1, <2>2 DEF Ahead
  <2>5. task' \in {"conn", "parked"} /\ ~woken' => Asleep'
    BY <1>0, <2>1, <2>2 DEF Asleep
  <2> QED  BY <2>3, <2>4, <2>5 DEF RInv
<1>9. CASE Tick
  <2>1. /\ task = "parked" /\ ~woken /\ task' = task /\ now' = now + 1 /\ sh' = sh /\ ka' = ka /\ pingpong' = pingpong
        /\ users' = users /\ sign' = sign /\ known' = known
        /\ woken' = (woken \/ (ka.armed /\ ka.sleep <= now + 1))
    BY <1>9 DEF Tick
  <2>2. Asleep /\ ~sh.timedOut /\ (Watched' <=> Watched) /\ pingpong \notin {"acked", "pong"}
    BY <1>0, <2>1 DEF Rest, Watched, Due, AckSeen
  <2> PICK t \in Nat : t = now + 1
    BY <1>a
  <2>3. sign <= t
    BY <1>0, <1>a DEF AckSeen
  <2>4. AckSeen'
    BY <1>0, <2>1, <2>2, <2>3 DEF AckSeen
  <2>5. Watched /\ ka.state # "PingSent" => t <= sign + Interval
    <3> SUFFICES ASSUME Watched, ka.state # "PingSent"
                 PROVE  t <= sign + Interval
      OBVIOUS
    <3>1. ka.state = "Scheduled" /\ ka.sleep > now
      BY <1>0, <2>2 DEF Asleep, GTypes, KaRec, KaState
    <3>2. ka.sleep <= sh.lastRead + Interval /\ sh.lastRead <= sign
      BY <1>0, <3>1 DEF KaOK, AckSeen, Watched, Due
    <3> QED  BY <1>a, <3>1, <3>2
  <2>6. ka.state = "PingSent" => t <= ka.sleep
    BY <1>a, <2>2 DEF Asleep
  <2>7. Watched /\ ka.state = "PingSent" => ka.sleep <= sign + Interval + Timeout
    BY <1>0, <2>1 DEF Ahead
  <2>8. Ahead'
    BY <2>1, <2>2, <2>5, <2>6, <2>7 DEF Ahead
  <2>9. ~woken' => Asleep'
    <3>0. ~(ka.sleep <= t) => ka.sleep > t
      BY <1>a
    <3>1. ~woken' => ~ka.armed \/ ka.sleep > t
      BY <2>1, <3>0
    <3> QED  BY <2>1, <2>2, <3>1 DEF Asleep
  <2> QED  BY <2>4, <2>8, <2>9 DEF RInv
<1>10. CASE UNCHANGED gvars
  <2>1. /\ task' = task /\ now' = now /\ sh' = sh /\ ka' = ka /\ pingpong' = pingpong /\ woken' = woken
        /\ sign' = sign /\ users' = users /\ known' = known
    BY <1>10 DEF gvars
  <2>2. AckSeen'
    BY <1>0, <2>1 DEF AckSeen
  <2>3. Ahead' /\ (Asleep' <=> Asleep)
    BY <1>0, <2>1 DEF Ahead, Watched, Due, Asleep
  <2> QED  BY <1>0, <2>1, <2>2, <2>3 DEF RInv
<1> QED
  BY <1>1, <1>2, <1>3, <1>4, <1>5, <1>6, <1>7, <1>8, <1>9, <1>10 DEF GNext

\* With a prompt task RInv holds throughout.
LEMMA RInvariance ==
  ASSUME Prompt
  PROVE  GSpec => [](GInv /\ RInv)
<1>1. GInit => GInv /\ RInv
  BY InitGInv, InitRInv
<1>2. GInv /\ RInv /\ [GNext]_gvars => GInv' /\ RInv'
  BY StepGInv, StepRInv
<1> QED  BY <1>1, <1>2, PTL DEF GSpec

\* KeepAlive::maybe_timeout: a connection is given up only for a ping that was
\* out for the whole timeout and that the peer did not acknowledge in time.
THEOREM TimeoutsAreJust ==
  ASSUME Prompt
  PROVE  GSpec => []TimeoutJust
<1>1. GInv /\ RInv => TimeoutJust
  <2> SUFFICES ASSUME GInv, RInv
               PROVE  TimeoutJust
    OBVIOUS
  <2>1. AckInTimeKeeps
    BY DEF RInv, AckSeen, AckInTimeKeeps, Deadline
  <2> QED  BY <2>1 DEF GInv, TimeoutJust
<1> QED  BY <1>1, RInvariance, PTL

\* "the connection will be closed if a pong is not received": no wake-up is
\* lost, so a silent peer is found out Interval + Timeout after its last sign;
\* without while_idle, after the Ponger was first polled with the stream open.
THEOREM SilentPeersDetected ==
  ASSUME Prompt
  PROVE  GSpec => []DeadPeerDetected
<1>1. GInv /\ RInv => DeadPeerDetected
  <2> SUFFICES ASSUME GInv, RInv, ka.on, now > sign + Interval + Timeout, task # "done",
                      WhileIdle \/ (users.client /\ users.streams > 0 /\ known)
               PROVE  FALSE
    BY DEF DeadPeerDetected, Overdue, KeepAliveOn
  <2>1. Watched /\ Ahead
    BY DEF Watched, Due, WhileIdle, RInv
  <2>2. now \in Nat /\ sign \in Nat /\ Interval \in Nat /\ Timeout \in Nat /\ ka.sleep \in Int
    BY PingAssumption DEF GInv, GTypes, KaRec
  <2> QED  BY <2>1, <2>2 DEF Ahead
<1> QED  BY <1>1, RInvariance, PTL
=============================================================================
