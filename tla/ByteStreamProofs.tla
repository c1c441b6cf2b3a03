--------------------------- MODULE ByteStreamProofs ---------------------------
(***************************************************************************)
(* Proofs about StreamRead, WriteBuffer and BufferedRead: every byte that  *)
(* is given to a reader or to the socket, or that the socket gives,        *)
(* arrives once and in order.                                              *)
(***************************************************************************)
EXTENDS BufferedRead, StreamRead, WriteBuffer, SequenceLemmas, SequenceTheorems

-----------------------------------------------------------------------------
(* FlattenSeq.                                                             *)

\* The function FlattenSeq computes with.
Flattens(f, q) ==
  f = [i \in 1 .. Len(q) |-> IF i = 1 THEN q[i] ELSE f[i - 1] \o q[i]]

\* There is one, built up from shorter ones.
LEMMA FlattensExists ==
  ASSUME NEW S, NEW q \in Seq(S)
  PROVE  \E f : Flattens(f, q)
<1> DEFINE Upto(n, f) == f = [i \in 1 .. n |-> IF i = 1 THEN q[i] ELSE f[i - 1] \o q[i]]
           T == {n \in Nat : \E f : Upto(n, f)}
<1>1. 0 \in T
  <2>1. Upto(0, <<>>)  OBVIOUS
  <2> QED  BY <2>1, Zenon
<1>2. ASSUME NEW n \in Nat, n \in T PROVE n + 1 \in T
  <2>1. PICK f : Upto(n, f)  BY <1>2, Zenon
  <2> DEFINE g == [i \in 1 .. n + 1 |-> IF i <= n THEN f[i] ELSE IF n = 0 THEN q[i] ELSE f[n] \o q[i]]
             h == [i \in 1 .. n + 1 |-> IF i = 1 THEN q[i] ELSE g[i - 1] \o q[i]]
  <2>2. ASSUME NEW i \in 1 .. n + 1 PROVE g[i] = h[i]
    <3>1. CASE i <= n
      <4>1. i \in 1 .. n  BY <3>1
      <4>2. f[i] = IF i = 1 THEN q[i] ELSE f[i - 1] \o q[i]  BY <2>1, <4>1
      <4>3. i # 1 => i - 1 \in 1 .. n + 1 /\ i - 1 <= n  BY <3>1
      <4> QED  BY <3>1, <4>2, <4>3
    <3>2. CASE i = n + 1
      <4>1. ~(i <= n) /\ (i = 1 <=> n = 0) /\ i - 1 = n  BY <3>2
      <4>2. n # 0 => n \in 1 .. n + 1 /\ n <= n  OBVIOUS
      <4> QED  BY <4>1, <4>2
    <3> QED  BY <3>1, <3>2
  <2>3. g = h
    <3> HIDE DEF Upto
    <3>1. DOMAIN g = DOMAIN h  OBVIOUS
    <3> QED  BY <2>2, <3>1
  <2>4. Upto(n + 1, g)  BY <2>3, Zenon
  <2>5. n + 1 \in Nat  OBVIOUS
  <2> QED  BY <2>4, <2>5, Zenon
<1>3. Nat \subseteq T
  <2> HIDE DEF T
  <2> QED  BY <1>1, <1>2, SetInduction
<1>4. Len(q) \in T
  <2> HIDE DEF T
  <2> QED  BY <1>3
<1> QED  BY <1>4, Zenon DEF Flattens

\* What FlattenSeq is.
LEMMA FlattenIs ==
  ASSUME NEW S, NEW q \in Seq(S)
  PROVE  \E f : Flattens(f, q) /\ FlattenSeq(q) = (IF Len(q) = 0 THEN q ELSE f[Len(q)])
<1> DEFINE f == CHOOSE g : g = [i \in 1 .. Len(q) |-> IF i = 1 THEN q[i] ELSE g[i - 1] \o q[i]]
<1>1. \E g : g = [i \in 1 .. Len(q) |-> IF i = 1 THEN q[i] ELSE g[i - 1] \o q[i]]
  BY FlattensExists, Zenon DEF Flattens
<1>2. Flattens(f, q)  BY <1>1, Zenon DEF Flattens
<1>3. FlattenSeq(q) = IF Len(q) = 0 THEN q ELSE f[Len(q)]  BY Zenon DEF FlattenSeq
<1> QED  BY <1>2, <1>3, Zenon

\* Its equation.
LEMMA FlattensAt ==
  ASSUME NEW f, NEW q, Flattens(f, q), NEW i \in 1 .. Len(q)
  PROVE  f[i] = IF i = 1 THEN q[i] ELSE f[i - 1] \o q[i]
<1> DEFINE F == [j \in 1 .. Len(q) |-> IF j = 1 THEN q[j] ELSE f[j - 1] \o q[j]]
<1>1. F[i] = IF i = 1 THEN q[i] ELSE f[i - 1] \o q[i]  OBVIOUS
<1>2. f = F  BY Zenon DEF Flattens
<1> HIDE DEF F
<1> QED  BY <1>1, <1>2, Zenon

\* Where two sequences agree, so do their flattenings.
LEMMA FlattensAgree ==
  ASSUME NEW f, NEW g, NEW q, NEW r, Flattens(f, q), Flattens(g, r),
         Len(q) \in Nat, Len(r) \in Nat, Len(q) <= Len(r),
         \A i \in 1 .. Len(q) : q[i] = r[i]
  PROVE  \A i \in 1 .. Len(q) : f[i] = g[i]
<1> DEFINE T == {n \in Nat : n \in 1 .. Len(q) => f[n] = g[n]}
<1>1. 0 \in T  OBVIOUS
<1>2. ASSUME NEW n \in Nat, n \in T PROVE n + 1 \in T
  <2> SUFFICES ASSUME n + 1 \in 1 .. Len(q) PROVE f[n + 1] = g[n + 1]  OBVIOUS
  <2>1. n + 1 \in 1 .. Len(q) /\ n + 1 \in 1 .. Len(r) /\ q[n + 1] = r[n + 1]  OBVIOUS
  <2>2. f[n + 1] = IF n + 1 = 1 THEN q[n + 1] ELSE f[n + 1 - 1] \o q[n + 1]
    BY <2>1, FlattensAt, SMTT(20)
  <2>3. g[n + 1] = IF n + 1 = 1 THEN r[n + 1] ELSE g[n + 1 - 1] \o r[n + 1]
    BY <2>1, FlattensAt, SMTT(20)
  <2>4. n + 1 # 1 => f[n] = g[n] /\ n + 1 - 1 = n  BY <1>2
  <2> QED  BY <2>1, <2>2, <2>3, <2>4
<1>3. Nat \subseteq T
  <2> HIDE DEF T
  <2> QED  BY <1>1, <1>2, SetInduction
<1> QED  BY <1>3

\* Flattening nothing.
LEMMA FlattenEmpty == FlattenSeq(<<>>) = <<>>
BY DEF FlattenSeq

\* Flattening one sequence more.
LEMMA FlattenAppend ==
  ASSUME NEW S, NEW q \in Seq(Seq(S)), NEW s \in Seq(S)
  PROVE  FlattenSeq(Append(q, s)) = FlattenSeq(q) \o s
<1> DEFINE r == Append(q, s)
<1>1. r \in Seq(Seq(S)) /\ Len(r) = Len(q) + 1 /\ Len(q) \in Nat /\ r[Len(r)] = s
      /\ \A i \in 1 .. Len(q) : q[i] = r[i]
  OBVIOUS
<1> HIDE DEF r
<1>2. PICK f : Flattens(f, q) /\ FlattenSeq(q) = IF Len(q) = 0 THEN q ELSE f[Len(q)]
  BY FlattenIs, Zenon
<1>3. PICK g : Flattens(g, r) /\ FlattenSeq(r) = IF Len(r) = 0 THEN r ELSE g[Len(r)]
  BY <1>1, FlattenIs, Zenon
<1>4. FlattenSeq(r) = g[Len(r)]  BY <1>1, <1>3
<1>5. Len(r) \in 1 .. Len(r) /\ (Len(r) = 1 <=> Len(q) = 0) /\ Len(r) - 1 = Len(q)  BY <1>1
<1>6. g[Len(r)] = IF Len(q) = 0 THEN s ELSE g[Len(q)] \o s  BY <1>1, <1>3, <1>5 DEF Flattens
<1>7. CASE Len(q) = 0
  <2>1. q = <<>> /\ FlattenSeq(q) = <<>>  BY <1>7, FlattenEmpty
  <2> QED  BY <1>4, <1>6, <1>7, <2>1 DEF r
<1>8. CASE Len(q) # 0
  <2>1. \A i \in 1 .. Len(q) : f[i] = g[i]
    <3>1. Len(q) <= Len(r) /\ Len(r) \in Nat  BY <1>1
    <3>2. Flattens(f, q) /\ Flattens(g, r)  BY <1>2, <1>3
    <3>3. Len(q) \in Nat /\ \A i \in 1 .. Len(q) : q[i] = r[i]  BY <1>1
    <3> QED  BY <3>1, <3>2, <3>3, FlattensAgree, SMTT(90)
  <2>2. Len(q) \in 1 .. Len(q)  BY <1>1, <1>8
  <2> QED  BY <1>2, <1>4, <1>6, <1>8, <2>1, <2>2 DEF r
<1> QED  BY <1>7, <1>8

\* A flattening is a sequence of the elements.
LEMMA FlattenType ==
  ASSUME NEW S, NEW q \in Seq(Seq(S))
  PROVE  FlattenSeq(q) \in Seq(S)
<1> DEFINE T == {n \in Nat : \A r \in Seq(Seq(S)) : Len(r) = n => FlattenSeq(r) \in Seq(S)}
<1>1. 0 \in T
  <2> SUFFICES ASSUME NEW r \in Seq(Seq(S)), Len(r) = 0 PROVE FlattenSeq(r) \in Seq(S)  OBVIOUS
  <2>1. r = <<>> /\ <<>> \in Seq(S)  OBVIOUS
  <2> QED  BY <2>1, FlattenEmpty, Zenon
<1>2. ASSUME NEW n \in Nat, n \in T PROVE n + 1 \in T
  <2> SUFFICES ASSUME NEW r \in Seq(Seq(S)), Len(r) = n + 1 PROVE FlattenSeq(r) \in Seq(S)  OBVIOUS
  <2> DEFINE p == SubSeq(r, 1, n)  s == r[n + 1]
  <2>1. p \in Seq(Seq(S)) /\ Len(p) = n /\ s \in Seq(S) /\ r = Append(p, s)  OBVIOUS
  <2> HIDE DEF p, s
  <2>2. FlattenSeq(p) \in Seq(S)  BY <1>2, <2>1
  <2>3. FlattenSeq(r) = FlattenSeq(p) \o s  BY <2>1, FlattenAppend
  <2> QED  BY <2>1, <2>2, <2>3
<1>3. Nat \subseteq T
  <2> HIDE DEF T
  <2> QED  BY <1>1, <1>2, SetInduction
<1>4. Len(q) \in T  BY <1>3
<1> QED  BY <1>4

\* Flattening a concatenation.
LEMMA FlattenConcat ==
  ASSUME NEW S, NEW p \in Seq(Seq(S)), NEW q \in Seq(Seq(S))
  PROVE  FlattenSeq(p \o q) = FlattenSeq(p) \o FlattenSeq(q)
<1> DEFINE T == {n \in Nat : \A r \in Seq(Seq(S)) :
                   Len(r) = n => FlattenSeq(p \o r) = FlattenSeq(p) \o FlattenSeq(r)}
<1>0. FlattenSeq(p) \in Seq(S)  BY FlattenType
<1>a. ASSUME NEW a \in Seq(S), NEW b \in Seq(S), NEW c \in Seq(S)
      PROVE  (a \o b) \o c = a \o (b \o c)
  BY ConcatAssociative, SMTT(90)
<1>1. 0 \in T
  <2> SUFFICES ASSUME NEW r \in Seq(Seq(S)), Len(r) = 0
               PROVE  FlattenSeq(p \o r) = FlattenSeq(p) \o FlattenSeq(r)
    OBVIOUS
  <2>1. r = <<>> /\ p \o r = p  OBVIOUS
  <2>2. FlattenSeq(p) \o <<>> = FlattenSeq(p)  BY <1>0
  <2> QED  BY <2>1, <2>2, FlattenEmpty
<1>2. ASSUME NEW n \in Nat, n \in T PROVE n + 1 \in T
  <2> SUFFICES ASSUME NEW r \in Seq(Seq(S)), Len(r) = n + 1
               PROVE  FlattenSeq(p \o r) = FlattenSeq(p) \o FlattenSeq(r)
    OBVIOUS
  <2> DEFINE u == SubSeq(r, 1, n)  s == r[n + 1]
  <2>1. u \in Seq(Seq(S)) /\ Len(u) = n /\ s \in Seq(S) /\ r = Append(u, s)  OBVIOUS
  <2> HIDE DEF u, s
  <2>2. p \o r = Append(p \o u, s) /\ p \o u \in Seq(Seq(S))  BY <2>1
  <2>3. FlattenSeq(r) = FlattenSeq(u) \o s /\ FlattenSeq(u) \in Seq(S)  BY <2>1, FlattenAppend, FlattenType
  <2>4. FlattenSeq(p \o r) = FlattenSeq(p \o u) \o s  BY <2>1, <2>2, FlattenAppend
  <2>5. FlattenSeq(p \o u) = FlattenSeq(p) \o FlattenSeq(u)  BY <1>2, <2>1
  <2>6. (FlattenSeq(p) \o FlattenSeq(u)) \o s = FlattenSeq(p) \o (FlattenSeq(u) \o s)
    BY <1>0, <1>a, <2>1, <2>3, Zenon
  <2> QED  BY <2>3, <2>4, <2>5, <2>6
<1>3. Nat \subseteq T
  <2> HIDE DEF T
  <2> QED  BY <1>1, <1>2, SetInduction
<1>4. Len(q) \in T  BY <1>3
<1> QED  BY <1>4

\* Flattening one sequence.
LEMMA FlattenOne ==
  ASSUME NEW S, NEW s \in Seq(S)
  PROVE  FlattenSeq(<<s>>) = s
<1>1. <<s>> = Append(<<>>, s) /\ <<>> \in Seq(Seq(S)) /\ <<>> \o s = s  OBVIOUS
<1> QED  BY <1>1, FlattenAppend, FlattenEmpty

\* The first sequence, then the others.
LEMMA FlattenHead ==
  ASSUME NEW S, NEW q \in Seq(Seq(S)), q # <<>>
  PROVE  /\ Head(q) \in Seq(S) /\ Tail(q) \in Seq(Seq(S))
         /\ FlattenSeq(q) = Head(q) \o FlattenSeq(Tail(q))
<1>1. q = <<Head(q)>> \o Tail(q) /\ <<Head(q)>> \in Seq(Seq(S)) /\ Tail(q) \in Seq(Seq(S)) /\ Head(q) \in Seq(S)
  OBVIOUS
<1>2. FlattenSeq(<<Head(q)>> \o Tail(q)) = FlattenSeq(<<Head(q)>>) \o FlattenSeq(Tail(q))
  BY <1>1, FlattenConcat, Zenon
<1>3. FlattenSeq(<<Head(q)>>) = Head(q)  BY <1>1, FlattenOne, Zenon
<1> QED  BY <1>1, <1>2, <1>3, Zenon

-----------------------------------------------------------------------------
(* The inductive invariant of StreamRead.                                  *)

\* The variables have their types.
STypeOK ==
  /\ kind \in {"body", "tunnel", "socket"} /\ total \in Nat /\ declared \in Nat \cup {Unknown}
  /\ peer \in [given : Nat, empties : Nat, eos : BOOLEAN, trailers : BOOLEAN, reset : Reasons \cup {NoReset}]
  /\ queue \in Seq(Seq(Nat)) /\ credit \in Nat /\ unclaimed \in Nat
  /\ pre \in Seq(Nat) /\ tbuf \in Seq(Nat) /\ got \in Seq(Nat)
  /\ hint \in Nat \cup {Unknown} /\ done \in BOOLEAN /\ gotTrailers \in BOOLEAN
  /\ seen \in {"head", "live", "end", "err"}

\* What the peer may have done: an end follows all of the data, trailers are
\* those of a body, and a socket is reset only by its loss, before its end.
PeerSound ==
  /\ declared \in {Unknown, total} /\ peer.given <= total
  /\ peer.eos => peer.given = total
  /\ peer.trailers => peer.eos /\ kind = "body"
  /\ kind = "socket" => peer.reset \in {NoReset, "io"}

\* Where bytes may be: only a socket has a prefix to rewind and only a tunnel
\* keeps the rest of a frame; nothing is read before the hand-over, and an
\* end that was seen left nothing behind.
PlacesSound ==
  /\ kind # "socket" => pre = <<>>
  /\ kind # "tunnel" => tbuf = <<>>
  /\ seen = "head" => pre = <<>> /\ tbuf = <<>> /\ got = <<>> /\ ~done
  /\ done => kind = "body" /\ Drained
  /\ seen = "end" => pre = <<>> /\ tbuf = <<>> /\ Drained

\* The inductive invariant.
SInv == STypeOK /\ PeerSound /\ PlacesSound /\ StreamExact /\ WindowKept

-----------------------------------------------------------------------------
(* Cutting and joining.                                                    *)

\* Concatenation is associative, and the empty sequence is its unit.
LEMMA Joins ==
  ASSUME NEW S
  PROVE  /\ \A a, b, c \in Seq(S) : (a \o b) \o c = a \o (b \o c)
         /\ \A a \in Seq(S) : a \o <<>> = a /\ <<>> \o a = a
         /\ \A a, b \in Seq(S) : a \o b \in Seq(S) /\ Len(a \o b) = Len(a) + Len(b)
<1>1. ASSUME NEW a \in Seq(S), NEW b \in Seq(S), NEW c \in Seq(S)
      PROVE  (a \o b) \o c = a \o (b \o c)
  BY ConcatAssociative, SMTT(20)
<1>2. \A a \in Seq(S) : a \o <<>> = a /\ <<>> \o a = a  OBVIOUS
<1>3. \A a, b \in Seq(S) : a \o b \in Seq(S) /\ Len(a \o b) = Len(a) + Len(b)  OBVIOUS
<1> QED  BY <1>1, <1>2, <1>3, Zenon

\* The same for bytes: joining is associative.
LEMMA Assoc == \A x, y, z \in Seq(Nat) : (x \o y) \o z = x \o (y \o z)
BY Joins, Zenon

\* The empty sequence is a unit of joining.
LEMMA Unit == \A x \in Seq(Nat) : x \o <<>> = x /\ <<>> \o x = x
BY Joins, Zenon

\* Joined bytes are bytes.
LEMMA JoinType == \A x, y \in Seq(Nat) : x \o y \in Seq(Nat)
BY Joins, Zenon

\* Lengths add up.
LEMMA JoinLen == \A x, y \in Seq(Nat) : Len(x \o y) = Len(x) + Len(y)
BY Joins, ZenonT(90)

\* A read takes the front of a buffer and leaves the rest.
LEMMA Cut ==
  ASSUME NEW S, NEW s \in Seq(S), NEW n \in Nat
  PROVE  /\ Prefix(s, n) \in Seq(S) /\ Len(Prefix(s, n)) = Least(n, Len(s))
         /\ Rest(s, Least(n, Len(s))) \in Seq(S)
         /\ Len(Rest(s, Least(n, Len(s)))) = Len(s) - Least(n, Len(s))
         /\ s = Prefix(s, n) \o Rest(s, Least(n, Len(s)))
         /\ Least(n, Len(s)) \in 0 .. Len(s)
<1> DEFINE k == Least(n, Len(s))
<1>1. k \in 0 .. Len(s)  BY DEF Least
<1>2. Prefix(s, n) = SubSeq(s, 1, k)  BY DEF Prefix
<1> HIDE DEF k
<1>3. SubSeq(s, 1, k) \in Seq(S) /\ Len(SubSeq(s, 1, k)) = k
      /\ \A i \in 1 .. k : SubSeq(s, 1, k)[i] = s[i]
  BY <1>1
<1>4. Rest(s, k) \in Seq(S) /\ Len(Rest(s, k)) = Len(s) - k
      /\ \A i \in 1 .. Len(s) - k : Rest(s, k)[i] = s[k + i]
  BY <1>1, WithoutFirst DEF Rest
<1>5. s = SubSeq(s, 1, k) \o Rest(s, k)
  <2> DEFINE a == SubSeq(s, 1, k)  b == Rest(s, k)
  <2>1. a \in Seq(S) /\ Len(a) = k /\ \A i \in 1 .. k : a[i] = s[i]  BY <1>3
  <2>2. b \in Seq(S) /\ Len(b) = Len(s) - k /\ \A i \in 1 .. Len(s) - k : b[i] = s[k + i]  BY <1>4
  <2> HIDE DEF a, b
  <2>3. Len(a \o b) = Len(s) /\ a \o b \in Seq(S)  BY <1>1, <2>1, <2>2
  <2>4. ASSUME NEW i \in 1 .. Len(s) PROVE s[i] = (a \o b)[i]
    <3>1. CASE i <= k
      <4>1. i \in 1 .. k  BY <1>1, <3>1
      <4>2. (a \o b)[i] = a[i]  BY <2>1, <2>2, <4>1
      <4> QED  BY <2>1, <4>1, <4>2
    <3>2. CASE i > k
      <4>1. i - k \in 1 .. Len(s) - k /\ k + (i - k) = i  BY <1>1, <3>2
      <4>2. (a \o b)[i] = b[i - k]  BY <1>1, <2>1, <2>2, <3>2
      <4> QED  BY <2>2, <4>1, <4>2
    <3>3. i <= k \/ i > k  BY <1>1
    <3> QED  BY <3>1, <3>2, <3>3, Zenon
  <2>5. s = a \o b
    <3> DEFINE c == a \o b
    <3>1. c \in Seq(S) /\ Len(c) = Len(s) /\ \A i \in 1 .. Len(s) : s[i] = c[i]  BY <2>3, <2>4, Zenon
    <3> HIDE DEF c
    <3>2. s = c  BY <3>1, SeqEqual, SMTT(20)
    <3> QED  BY <3>2 DEF c
  <2> QED  BY <2>5 DEF a, b
<1> QED  BY <1>1, <1>2, <1>3, <1>4, <1>5 DEF k

\* Numbered bytes.
LEMMA Numbers ==
  ASSUME NEW a \in Nat, NEW n \in Nat
  PROVE  /\ Numbered(a, n) \in Seq(Nat) /\ Len(Numbered(a, n)) = n
         /\ Numbered(0, a) \in Seq(Nat) /\ Len(Numbered(0, a)) = a
         /\ Numbered(0, a) \o Numbered(a, n) = Numbered(0, a + n)
<1>1. Numbered(a, n) \in Seq(Nat) /\ Len(Numbered(a, n)) = n /\ \A i \in 1 .. n : Numbered(a, n)[i] = a + i
  BY DEF Numbered
<1>2. Numbered(0, a) \in Seq(Nat) /\ Len(Numbered(0, a)) = a /\ \A i \in 1 .. a : Numbered(0, a)[i] = i
  BY DEF Numbered
<1>3. Numbered(0, a + n) \in Seq(Nat) /\ Len(Numbered(0, a + n)) = a + n
      /\ \A i \in 1 .. a + n : Numbered(0, a + n)[i] = i
  BY DEF Numbered
<1> DEFINE s == Numbered(0, a)  t == Numbered(a, n)  u == Numbered(0, a + n)
<1>4. s \o t = u
  <2> HIDE DEF s, t, u
  <2>1. s \in Seq(Nat) /\ Len(s) = a /\ \A i \in 1 .. a : s[i] = i  BY <1>2 DEF s
  <2>2. t \in Seq(Nat) /\ Len(t) = n /\ \A i \in 1 .. n : t[i] = a + i  BY <1>1 DEF t
  <2>3. u \in Seq(Nat) /\ Len(u) = a + n /\ \A i \in 1 .. a + n : u[i] = i  BY <1>3 DEF u
  <2>4. s \o t \in Seq(Nat) /\ Len(s \o t) = a + n  BY <2>1, <2>2
  <2>5. ASSUME NEW i \in 1 .. a + n PROVE (s \o t)[i] = u[i]
    <3>1. CASE i <= a  BY <2>1, <2>2, <2>3, <3>1
    <3>2. CASE i > a
      <4>1. i - a \in 1 .. n /\ a + (i - a) = i  BY <3>2
      <4>2. (s \o t)[i] = t[i - a]  BY <2>1, <2>2, <3>2
      <4> QED  BY <2>2, <2>3, <4>1, <4>2
    <3>3. i <= a \/ i > a  OBVIOUS
    <3> QED  BY <3>1, <3>2, <3>3, Zenon
  <2> QED  BY <2>3, <2>4, <2>5, SeqEqual, SMTT(90)
<1> QED  BY <1>1, <1>2, <1>4

\* Everything, in the order in which it is read.
Line(g, p, t, f) == g \o p \o t \o f

\* The front of the prefix is read.
LEMMA LinePrefixRead ==
  ASSUME NEW g \in Seq(Nat), NEW a \in Seq(Nat), NEW b \in Seq(Nat), NEW t \in Seq(Nat), NEW f \in Seq(Nat)
  PROVE  Line(g \o a, b, t, f) = Line(g, a \o b, t, f)
<1>e. g \o a \o b = g \o (a \o b)  BY Assoc, ZenonT(90)
<1> QED  BY <1>e, Zenon DEF Line

\* The front of what a tunnel kept is read.
LEMMA LineKeptRead ==
  ASSUME NEW g \in Seq(Nat), NEW a \in Seq(Nat), NEW b \in Seq(Nat), NEW f \in Seq(Nat)
  PROVE  Line(g \o a, <<>>, b, f) = Line(g, <<>>, a \o b, f)
<1>e. g \o a \o <<>> = g \o a /\ g \o <<>> = g  BY Unit, JoinType, Zenon
<1>f. g \o a \o b = g \o (a \o b)  BY Assoc, ZenonT(90)
<1> QED  BY <1>e, <1>f, Zenon DEF Line

\* The front of the queue is read.
LEMMA LineQueueRead ==
  ASSUME NEW g \in Seq(Nat), NEW a \in Seq(Nat), NEW f \in Seq(Nat)
  PROVE  Line(g \o a, <<>>, <<>>, f) = Line(g, <<>>, <<>>, a \o f)
<1>e. g \o a \o <<>> = g \o a /\ g \o <<>> = g  BY Unit, JoinType, Zenon
<1>f. g \o a \o f = g \o (a \o f)  BY Assoc, Zenon
<1> QED  BY <1>e, <1>f, Zenon DEF Line

\* The front of the queue becomes the prefix.
LEMMA LinePrefixTaken ==
  ASSUME NEW g \in Seq(Nat), NEW a \in Seq(Nat), NEW f \in Seq(Nat)
  PROVE  Line(g, a, <<>>, f) = Line(g, <<>>, <<>>, a \o f)
<1>e. g \o a \o <<>> = g \o a /\ g \o <<>> = g  BY Unit, JoinType, Zenon
<1>f. g \o a \o f = g \o (a \o f)  BY Assoc, Zenon
<1> QED  BY <1>e, <1>f, Zenon DEF Line

\* A frame is split into what is read and what is kept.
LEMMA LineFrameSplit ==
  ASSUME NEW g \in Seq(Nat), NEW a \in Seq(Nat), NEW b \in Seq(Nat), NEW f \in Seq(Nat)
  PROVE  Line(g \o a, <<>>, b, f) = Line(g, <<>>, <<>>, (a \o b) \o f)
<1>e. g \o a \o <<>> = g \o a /\ g \o <<>> = g  BY Unit, JoinType, Zenon
<1>f. g \o a \o b = g \o (a \o b)  BY Assoc, ZenonT(90)
<1>d. a \o b \in Seq(Nat)  BY JoinType, Zenon
<1>g. g \o (a \o b) \o f = g \o ((a \o b) \o f)  BY Assoc, <1>d, ZenonT(90)
<1> QED  BY <1>e, <1>f, <1>g, Zenon DEF Line

\* How long the line is.
LEMMA LineLength ==
  ASSUME NEW g \in Seq(Nat), NEW p \in Seq(Nat), NEW t \in Seq(Nat), NEW f \in Seq(Nat)
  PROVE  Line(g, p, t, f) \in Seq(Nat) /\ Len(Line(g, p, t, f)) = Len(g) + Len(p) + Len(t) + Len(f)
<1>d. g \o p \in Seq(Nat)  BY JoinType, Zenon
<1>h. g \o p \o t \in Seq(Nat)  BY JoinType, <1>d, Zenon
<1>e. g \o p \in Seq(Nat) /\ g \o p \o t \in Seq(Nat) /\ g \o p \o t \o f \in Seq(Nat)  BY JoinType, <1>d, <1>h, Zenon
<1>f. /\ Len(g \o p) = Len(g) + Len(p)
      /\ Len(g \o p \o t) = Len(g \o p) + Len(t)
      /\ Len(g \o p \o t \o f) = Len(g \o p \o t) + Len(f)
  BY JoinLen, <1>e, Zenon
<1> QED  BY <1>e, <1>f, Zenon DEF Line

\* The same with a queue of frames: a frame arrives behind everything, x.
LEMMA Arrives ==
  ASSUME NEW x \in Seq(Nat), NEW q \in Seq(Seq(Nat)), NEW a \in Nat, NEW n \in Nat
  PROVE  /\ Append(q, Numbered(a, n)) \in Seq(Seq(Nat)) /\ Append(q, Numbered(a, n)) # <<>>
         /\ x \o FlattenSeq(q) = Numbered(0, a) =>
              x \o FlattenSeq(Append(q, Numbered(a, n))) = Numbered(0, a + n)
         /\ Len(FlattenSeq(Append(q, Numbered(a, n)))) = Len(FlattenSeq(q)) + n
<1>0. PICK u : u = Numbered(a, n)  OBVIOUS
<1>1. PICK v : v = FlattenSeq(q)  OBVIOUS
<1>2. u \in Seq(Nat) /\ Len(u) = n /\ Numbered(0, a) \o u = Numbered(0, a + n)  BY <1>0, Numbers
<1>3. v \in Seq(Nat)  BY <1>1, FlattenType
<1>4. u \in Seq(Nat)  BY <1>2
<1>5. FlattenSeq(Append(q, u)) = v \o u  BY <1>1, <1>4, FlattenAppend
<1>6. Append(q, u) \in Seq(Seq(Nat)) /\ Append(q, u) # <<>>  BY <1>4, AppendProperties, ZenonT(90)
<1>7. (x \o v) \o u = x \o (v \o u)  BY <1>3, <1>4, Assoc, Zenon
<1>8. Len(v \o u) = Len(v) + n  BY <1>2, <1>3, JoinLen, Zenon
<1> QED  BY <1>0, <1>1, <1>2, <1>5, <1>6, <1>7, <1>8, Zenon

\* The first frame is read whole.
LEMMA TakesFrame ==
  ASSUME NEW g \in Seq(Nat), NEW q \in Seq(Seq(Nat)), q # <<>>
  PROVE  /\ g \o Head(q) \in Seq(Nat) /\ Tail(q) \in Seq(Seq(Nat))
         /\ Line(g \o Head(q), <<>>, <<>>, FlattenSeq(Tail(q))) = Line(g, <<>>, <<>>, FlattenSeq(q))
         /\ Len(Head(q)) \in Nat
         /\ Len(FlattenSeq(q)) = Len(Head(q)) + Len(FlattenSeq(Tail(q)))
         /\ Len(g \o Head(q)) = Len(g) + Len(Head(q))
<1> DEFINE h == Head(q)  r == Tail(q)  F == FlattenSeq(r)
<1>1. h \in Seq(Nat) /\ r \in Seq(Seq(Nat)) /\ FlattenSeq(q) = h \o F  BY FlattenHead
<1>2. F \in Seq(Nat)  BY <1>1, FlattenType
<1> HIDE DEF h, r, F
<1>3. Line(g \o h, <<>>, <<>>, F) = Line(g, <<>>, <<>>, h \o F)  BY <1>1, <1>2, LineQueueRead
<1>4. g \o h \in Seq(Nat) /\ Len(h) \in Nat /\ Len(h \o F) = Len(h) + Len(F) /\ Len(g \o h) = Len(g) + Len(h)
  BY <1>1, <1>2
<1> QED  BY <1>1, <1>3, <1>4, Zenon DEF h, r, F

\* The prefix is read in part or whole.
LEMMA TakesPrefix ==
  ASSUME NEW g \in Seq(Nat), NEW p \in Seq(Nat), NEW t \in Seq(Nat), NEW f \in Seq(Nat), NEW n \in Nat
  PROVE  /\ g \o Prefix(p, n) \in Seq(Nat) /\ Rest(p, Least(n, Len(p))) \in Seq(Nat)
         /\ Line(g \o Prefix(p, n), Rest(p, Least(n, Len(p))), t, f) = Line(g, p, t, f)
<1> DEFINE a == Prefix(p, n)  b == Rest(p, Least(n, Len(p)))
<1>1. a \in Seq(Nat) /\ b \in Seq(Nat) /\ p = a \o b  BY Cut
<1> HIDE DEF a, b
<1>2. Line(g \o a, b, t, f) = Line(g, a \o b, t, f)  BY <1>1, LinePrefixRead
<1>3. g \o a \in Seq(Nat)  BY <1>1
<1> QED  BY <1>1, <1>2, <1>3, Zenon DEF a, b

\* What a tunnel kept is read in part or whole.
LEMMA TakesKept ==
  ASSUME NEW g \in Seq(Nat), NEW t \in Seq(Nat), NEW f \in Seq(Nat), NEW n \in Nat
  PROVE  /\ g \o Prefix(t, n) \in Seq(Nat) /\ Rest(t, Least(n, Len(t))) \in Seq(Nat)
         /\ Least(n, Len(t)) \in Nat /\ Len(t) = Least(n, Len(t)) + Len(Rest(t, Least(n, Len(t))))
         /\ Line(g \o Prefix(t, n), <<>>, Rest(t, Least(n, Len(t))), f) = Line(g, <<>>, t, f)
<1> DEFINE k == Least(n, Len(t))  a == Prefix(t, n)  b == Rest(t, k)
<1>1. a \in Seq(Nat) /\ b \in Seq(Nat) /\ t = a \o b /\ k \in 0 .. Len(t) /\ Len(b) = Len(t) - k  BY Cut
<1> HIDE DEF k, a, b
<1>2. Line(g \o a, <<>>, b, f) = Line(g, <<>>, a \o b, f)  BY <1>1, LineKeptRead
<1>3. g \o a \in Seq(Nat)  BY <1>1
<1>4. k \in Nat /\ Len(t) = k + Len(b)  BY <1>1
<1> QED  BY <1>1, <1>2, <1>3, <1>4, Zenon DEF k, a, b

\* A tunnel reads from the first frame and keeps its rest.
LEMMA SplitsFrame ==
  ASSUME NEW g \in Seq(Nat), NEW q \in Seq(Seq(Nat)), q # <<>>, NEW n \in Nat
  PROVE  /\ g \o Prefix(Head(q), n) \in Seq(Nat) /\ Tail(q) \in Seq(Seq(Nat))
         /\ Rest(Head(q), Least(n, Len(Head(q)))) \in Seq(Nat)
         /\ Least(n, Len(Head(q))) \in Nat
         /\ Len(FlattenSeq(q)) = Least(n, Len(Head(q))) + Len(Rest(Head(q), Least(n, Len(Head(q)))))
                                 + Len(FlattenSeq(Tail(q)))
         /\ Line(g \o Prefix(Head(q), n), <<>>, Rest(Head(q), Least(n, Len(Head(q)))), FlattenSeq(Tail(q)))
            = Line(g, <<>>, <<>>, FlattenSeq(q))
<1> DEFINE h == Head(q)  r == Tail(q)  F == FlattenSeq(r)
           k == Least(n, Len(h))  a == Prefix(h, n)  b == Rest(h, k)
<1>1. h \in Seq(Nat) /\ r \in Seq(Seq(Nat)) /\ FlattenSeq(q) = h \o F  BY FlattenHead
<1>2. F \in Seq(Nat)  BY <1>1, FlattenType
<1> HIDE DEF h, r, F
<1>3. a \in Seq(Nat) /\ b \in Seq(Nat) /\ h = a \o b /\ k \in 0 .. Len(h) /\ Len(b) = Len(h) - k  BY <1>1, Cut
<1> HIDE DEF k, a, b
<1>4. Line(g \o a, <<>>, b, F) = Line(g, <<>>, <<>>, (a \o b) \o F)  BY <1>2, <1>3, LineFrameSplit
<1>5. g \o a \in Seq(Nat)  BY <1>3
<1>6. k \in Nat /\ Len(h \o F) = k + Len(b) + Len(F)  BY <1>1, <1>2, <1>3
<1> QED  BY <1>1, <1>3, <1>4, <1>5, <1>6, Zenon DEF h, r, F, k, a, b

\* A socket reads from what arrived first and leaves the rest where it is.
LEMMA TakesFront ==
  ASSUME NEW g \in Seq(Nat), NEW q \in Seq(Seq(Nat)), q # <<>>, NEW n \in Nat, n < Len(Head(q))
  PROVE  /\ g \o Prefix(Head(q), n) \in Seq(Nat)
         /\ <<Rest(Head(q), n)>> \o Tail(q) \in Seq(Seq(Nat))
         /\ Line(g \o Prefix(Head(q), n), <<>>, <<>>, FlattenSeq(<<Rest(Head(q), n)>> \o Tail(q)))
            = Line(g, <<>>, <<>>, FlattenSeq(q))
<1> DEFINE h == Head(q)  r == Tail(q)  F == FlattenSeq(r)  a == Prefix(h, n)  b == Rest(h, n)
<1>1. h \in Seq(Nat) /\ r \in Seq(Seq(Nat)) /\ FlattenSeq(q) = h \o F  BY FlattenHead
<1>2. F \in Seq(Nat)  BY <1>1, FlattenType
<1>0. n < Len(h)  OBVIOUS
<1> HIDE DEF h, r, F
<1>3. Least(n, Len(h)) = n  BY <1>0, <1>1 DEF Least
<1>4. a \in Seq(Nat) /\ b \in Seq(Nat) /\ h = a \o b  BY <1>1, <1>3, Cut
<1> HIDE DEF a, b
<1>5. <<b>> \in Seq(Seq(Nat)) /\ <<b>> \o r \in Seq(Seq(Nat)) /\ g \o a \in Seq(Nat) /\ b \o F \in Seq(Nat)
  BY <1>1, <1>2, <1>4
<1>6. FlattenSeq(<<b>> \o r) = FlattenSeq(<<b>>) \o F  BY <1>1, <1>5, FlattenConcat DEF F
<1>7. FlattenSeq(<<b>>) = b  BY <1>4, FlattenOne
<1>8. Line(g \o a, <<>>, <<>>, b \o F) = Line(g, <<>>, <<>>, a \o (b \o F))  BY <1>4, <1>5, LineQueueRead
<1>9. (a \o b) \o F = a \o (b \o F)  BY <1>2, <1>4, Assoc, ZenonT(90)
<1> QED  BY <1>1, <1>4, <1>5, <1>6, <1>7, <1>8, <1>9, Zenon DEF h, r, F, a, b

\* The first pieces of the queue become the prefix.
LEMMA TakesOver ==
  ASSUME NEW q \in Seq(Seq(Nat)), NEW k \in 0 .. Len(q)
  PROVE  /\ FlattenSeq(SubSeq(q, 1, k)) \in Seq(Nat) /\ Rest(q, k) \in Seq(Seq(Nat))
         /\ Line(<<>>, FlattenSeq(SubSeq(q, 1, k)), <<>>, FlattenSeq(Rest(q, k)))
            = Line(<<>>, <<>>, <<>>, FlattenSeq(q))
         /\ k = 0 => FlattenSeq(SubSeq(q, 1, k)) = <<>> /\ Rest(q, k) = q
<1> DEFINE a == SubSeq(q, 1, k)  b == Rest(q, k)
<1>0. Least(k, Len(q)) = k /\ k \in Nat  BY DEF Least
<1>1. a \in Seq(Seq(Nat)) /\ b \in Seq(Seq(Nat)) /\ q = a \o b
  BY <1>0, Cut DEF Prefix
<1>2. k = 0 => a = <<>> /\ b = q  BY DEF Rest
<1> HIDE DEF a, b
<1>3. FlattenSeq(a) \in Seq(Nat) /\ FlattenSeq(b) \in Seq(Nat)  BY <1>1, FlattenType
<1>4. FlattenSeq(q) = FlattenSeq(a) \o FlattenSeq(b)  BY <1>1, FlattenConcat
<1>5. Line(<<>>, FlattenSeq(a), <<>>, FlattenSeq(b)) = Line(<<>>, <<>>, <<>>, FlattenSeq(a) \o FlattenSeq(b))
  <2>1. <<>> \in Seq(Nat)  OBVIOUS
  <2> QED  BY <1>3, <2>1, LinePrefixTaken
<1> QED  BY <1>1, <1>2, <1>3, <1>4, <1>5, FlattenEmpty, Zenon DEF a, b

\* The invariant holds initially.
LEMMA StreamInit == SInit => SInv
<1> SUFFICES ASSUME SInit PROVE SInv  OBVIOUS
<1> USE StreamAssumption
<1>1. STypeOK
  <2>1. <<>> \in Seq(Seq(Nat)) /\ <<>> \in Seq(Nat)  OBVIOUS
  <2> QED  BY <2>1 DEF SInit, STypeOK, NoReset, Reasons
<1>2. PeerSound  BY DEF SInit, PeerSound, NoReset
<1>3. PlacesSound  BY DEF SInit, PlacesSound
<1>4. BytesInOrder
  <2>1. Numbered(0, 0) = <<>>  BY DEF Numbered
  <2>2. <<>> \o <<>> \o <<>> \o <<>> = <<>>  OBVIOUS
  <2> QED  BY <2>1, <2>2, FlattenEmpty DEF SInit, BytesInOrder
<1>5. WindowKept  BY FlattenEmpty DEF SInit, WindowKept, Held
<1>6. CleanEndIsWhole /\ HintHonest  BY DEF SInit, CleanEndIsWhole, HintHonest
<1> QED  BY <1>1, <1>2, <1>3, <1>4, <1>5, <1>6 DEF SInv, StreamExact

\* What the invariant says of the bytes.
LEMMA StreamFacts ==
  ASSUME SInv
  PROVE  /\ FlattenSeq(queue) \in Seq(Nat)
         /\ Line(got, pre, tbuf, FlattenSeq(queue)) = Numbered(0, peer.given)
         /\ Len(got) + Len(pre) + Len(tbuf) + Len(FlattenSeq(queue)) = peer.given
         /\ Len(got) \in Nat /\ Len(pre) \in Nat /\ Len(tbuf) \in Nat /\ Len(FlattenSeq(queue)) \in Nat
         /\ peer.given \in Nat
<1>1. queue \in Seq(Seq(Nat)) /\ got \in Seq(Nat) /\ pre \in Seq(Nat) /\ tbuf \in Seq(Nat) /\ peer.given \in Nat
  BY DEF SInv, STypeOK
<1>2. FlattenSeq(queue) \in Seq(Nat)  BY <1>1, FlattenType
<1>3. Line(got, pre, tbuf, FlattenSeq(queue)) = Numbered(0, peer.given)
  BY Zenon DEF SInv, StreamExact, BytesInOrder, Line
<1>4. Len(Line(got, pre, tbuf, FlattenSeq(queue))) = Len(got) + Len(pre) + Len(tbuf) + Len(FlattenSeq(queue))
  BY <1>1, <1>2, LineLength, SMTT(20)
<1>5. Len(Numbered(0, peer.given)) = peer.given  BY <1>1, Numbers
<1>6. Len(got) \in Nat /\ Len(pre) \in Nat /\ Len(tbuf) \in Nat  BY <1>1
<1>7. Len(FlattenSeq(queue)) \in Nat  BY <1>2
<1> QED  BY <1>1, <1>2, <1>3, <1>4, <1>5, <1>6, <1>7, Zenon

\* The peer sends a frame.
LEMMA StepPeerSends ==
  ASSUME SInv, NEW n \in 0 .. Window, NEW last \in BOOLEAN, PeerSends(n, last)
  PROVE  SInv'
<1> USE StreamAssumption
<1>0. SInv /\ PeerSends(n, last) /\ n \in Nat  OBVIOUS
<1>1. STypeOK /\ PeerSound /\ PlacesSound /\ BytesInOrder /\ CleanEndIsWhole /\ HintHonest /\ WindowKept
  BY DEF SInv, StreamExact
<1>2. Line(got, pre, tbuf, FlattenSeq(queue)) = Numbered(0, peer.given) /\ peer.given \in Nat
      /\ Len(FlattenSeq(queue)) \in Nat /\ Len(tbuf) \in Nat
  BY StreamFacts
<1>4. queue \in Seq(Seq(Nat)) /\ got \in Seq(Nat) /\ pre \in Seq(Nat) /\ tbuf \in Seq(Nat)  BY <1>1 DEF STypeOK
<1>5. queue' = Append(queue, Numbered(peer.given, n))  BY <1>0, Zenon DEF PeerSends
<1>6. /\ queue' \in Seq(Seq(Nat)) /\ queue' # <<>>
      /\ Line(got, pre, tbuf, FlattenSeq(queue')) = Numbered(0, peer.given + n)
      /\ Len(FlattenSeq(queue')) = Len(FlattenSeq(queue)) + n
  <2>1. got \o pre \in Seq(Nat)  BY <1>4, JoinType, Zenon
  <2>2. got \o pre \o tbuf \in Seq(Nat)  BY <1>4, <2>1, JoinType, Zenon
  <2>3. PICK x \in Seq(Nat) : x = got \o pre \o tbuf  BY <2>2, Zenon
  <2>4. PICK q \in Seq(Seq(Nat)), a \in Nat : q = queue /\ a = peer.given  BY <1>2, <1>4, Zenon
  <2>5. /\ Append(q, Numbered(a, n)) \in Seq(Seq(Nat)) /\ Append(q, Numbered(a, n)) # <<>>
        /\ x \o FlattenSeq(q) = Numbered(0, a) =>
             x \o FlattenSeq(Append(q, Numbered(a, n))) = Numbered(0, a + n)
        /\ Len(FlattenSeq(Append(q, Numbered(a, n)))) = Len(FlattenSeq(q)) + n
    <3>1. n \in Nat  OBVIOUS
    <3> QED  BY <3>1, Arrives, Zenon
  <2> QED  BY <1>2, <1>5, <2>3, <2>4, <2>5, Zenon DEF Line
<1>8. UNCHANGED <<kind, total, declared, pre, tbuf, hint, done, got, gotTrailers, seen, unclaimed>>
  BY <1>0, Zenon DEF PeerSends, Reader
<1>9. /\ peer'.given = peer.given + n /\ peer'.trailers = peer.trailers /\ peer'.reset = NoReset
      /\ peer'.eos = last /\ peer.reset = NoReset /\ ~peer.eos
  BY <1>0, <1>1 DEF PeerSends, Sending, STypeOK
<1>t. peer' \in [given : Nat, empties : Nat, eos : BOOLEAN, trailers : BOOLEAN, reset : Reasons \cup {NoReset}]
  <2>1. PICK k : k = (IF n = 0 /\ ~last THEN peer.empties + 1 ELSE peer.empties)  OBVIOUS
  <2>2. peer' = [peer EXCEPT !.given = @ + n, !.eos = last, !.empties = k]  BY <1>0, <2>1, Zenon DEF PeerSends
  <2>3. peer \in [given : Nat, empties : Nat, eos : BOOLEAN, trailers : BOOLEAN, reset : Reasons \cup {NoReset}]
    BY <1>1 DEF STypeOK
  <2>4. k \in Nat /\ peer.given + n \in Nat  BY <1>0, <2>1, <2>3
  <2> QED  BY <2>2, <2>3, <2>4
<1>a. credit' \in Nat /\ (kind # "socket" => credit' = credit - n)  BY <1>0, <1>1 DEF PeerSends, STypeOK
<1>b. STypeOK'  BY <1>1, <1>6, <1>8, <1>t, <1>a DEF STypeOK
<1>c. PeerSound'  BY <1>0, <1>1, <1>2, <1>8, <1>9 DEF PeerSends, PeerSound
<1>d. ~done /\ seen # "end" /\ PlacesSound'
  BY <1>1, <1>8, <1>9 DEF PlacesSound, Drained
<1>e. BytesInOrder'
  <2>1. got \o pre \o tbuf \o FlattenSeq(queue') = Numbered(0, peer'.given)
    BY <1>6, <1>9, Zenon DEF Line
  <2> QED  BY <1>8, <2>1, Zenon DEF BytesInOrder
<1>f. WindowKept'
  <2>1. credit \in Nat /\ unclaimed \in Nat  BY <1>1 DEF STypeOK
  <2>2. Len(FlattenSeq(queue')) = Len(FlattenSeq(queue)) + n  BY <1>6
  <2>3. Len(FlattenSeq(queue)) \in Nat /\ Len(tbuf) \in Nat  BY <1>2
  <2>4. credit' + unclaimed' + Held' = credit + unclaimed + Held \/ kind = "socket"
    BY <1>0, <1>8, <1>a, <2>1, <2>2, <2>3 DEF Held
  <2> QED  BY <1>1, <1>8, <2>4 DEF WindowKept
<1>g. CleanEndIsWhole'  BY <1>8, <1>d DEF CleanEndIsWhole
<1>h. HintHonest'  BY <1>1, <1>8 DEF HintHonest
<1> QED  BY <1>b, <1>c, <1>d, <1>e, <1>f, <1>g, <1>h DEF SInv, StreamExact

\* What moves no bytes keeps the statements about them.
LEMMA BytesStay ==
  ASSUME SInv, UNCHANGED <<kind, total, queue, pre, tbuf, got, hint>>, peer'.given = peer.given,
         credit' \in Nat, unclaimed' \in Nat, credit' + unclaimed' = credit + unclaimed
  PROVE  BytesInOrder' /\ WindowKept' /\ (HintHonest' \/ seen' # seen)
<1>1. BytesInOrder /\ WindowKept /\ HintHonest /\ credit \in Nat /\ unclaimed \in Nat
  BY DEF SInv, StreamExact, STypeOK
<1>2. BytesInOrder'  BY <1>1, Zenon DEF BytesInOrder
<1>3. Held' = Held /\ Held \in Nat
  <2>1. Held' = Held  BY Zenon DEF Held
  <2>2. Len(FlattenSeq(queue)) \in Nat /\ Len(tbuf) \in Nat  BY StreamFacts
  <2> QED  BY <2>1, <2>2 DEF Held
<1>4. WindowKept'
  <2> HIDE DEF Held
  <2> QED  BY <1>1, <1>3 DEF WindowKept
<1>5. HintHonest' \/ seen' # seen  BY <1>1 DEF HintHonest
<1> QED  BY <1>2, <1>4, <1>5

\* The peer ends the stream.
LEMMA StepPeerEnds ==
  ASSUME SInv, NEW trailers \in BOOLEAN, PeerEnds(trailers)
  PROVE  SInv'
<1>1. STypeOK /\ PeerSound /\ PlacesSound /\ BytesInOrder /\ CleanEndIsWhole /\ HintHonest /\ WindowKept
  BY DEF SInv, StreamExact
<1>2. UNCHANGED <<kind, total, declared, pre, tbuf, hint, done, got, gotTrailers, seen, unclaimed, queue, credit>>
  BY Zenon DEF PeerEnds, Reader
<1>3. /\ peer'.given = peer.given /\ peer'.trailers = trailers /\ peer'.reset = NoReset /\ peer'.eos
      /\ peer.reset = NoReset /\ ~peer.eos /\ peer.given = total /\ (trailers => kind = "body")
      /\ peer' \in [given : Nat, empties : Nat, eos : BOOLEAN, trailers : BOOLEAN, reset : Reasons \cup {NoReset}]
  BY <1>1 DEF PeerEnds, Sending, STypeOK
<1>4. credit \in Nat /\ unclaimed \in Nat  BY <1>1 DEF STypeOK
<1>5. STypeOK'  BY <1>1, <1>2, <1>3 DEF STypeOK
<1>6. PeerSound'  BY <1>1, <1>2, <1>3 DEF PeerSound
<1>7. ~done /\ seen # "end" /\ PlacesSound'  BY <1>1, <1>2, <1>3 DEF PlacesSound, Drained
<1>8. BytesInOrder' /\ WindowKept' /\ HintHonest'
  BY <1>2, <1>3, <1>4, BytesStay
<1>9. CleanEndIsWhole'  BY <1>2, <1>7 DEF CleanEndIsWhole
<1> QED  BY <1>5, <1>6, <1>7, <1>8, <1>9 DEF SInv, StreamExact

\* The peer resets the stream, or the connection is lost.
LEMMA StepPeerResets ==
  ASSUME SInv, NEW reason \in Reasons, PeerResets(reason)
  PROVE  SInv'
<1>1. STypeOK /\ PeerSound /\ PlacesSound /\ BytesInOrder /\ CleanEndIsWhole /\ HintHonest /\ WindowKept
  BY DEF SInv, StreamExact
<1>2. UNCHANGED <<kind, total, declared, pre, tbuf, hint, done, got, gotTrailers, seen, unclaimed, queue, credit>>
  BY Zenon DEF PeerResets, Reader
<1>3. /\ peer'.given = peer.given /\ peer'.trailers = peer.trailers /\ peer'.reset = reason
      /\ peer'.eos = peer.eos /\ seen \in {"head", "live"} /\ (kind = "socket" => reason = "io")
      /\ reason # NoReset
      /\ peer' \in [given : Nat, empties : Nat, eos : BOOLEAN, trailers : BOOLEAN, reset : Reasons \cup {NoReset}]
  BY <1>1 DEF PeerResets, STypeOK, Reasons, NoReset
<1>4. credit \in Nat /\ unclaimed \in Nat  BY <1>1 DEF STypeOK
<1>5. STypeOK'  BY <1>1, <1>2, <1>3 DEF STypeOK
<1>6. PeerSound'  BY <1>1, <1>2, <1>3 DEF PeerSound
<1>7. PlacesSound'  BY <1>1, <1>2, <1>3 DEF PlacesSound, Drained
<1>8. BytesInOrder' /\ WindowKept' /\ HintHonest'
  BY <1>2, <1>3, <1>4, BytesStay
<1>9. CleanEndIsWhole'  BY <1>2, <1>3 DEF CleanEndIsWhole
<1> QED  BY <1>5, <1>6, <1>7, <1>8, <1>9 DEF SInv, StreamExact

\* Released capacity is announced.
LEMMA StepWindowUpdate ==
  ASSUME SInv, WindowUpdate
  PROVE  SInv'
<1>1. STypeOK /\ PeerSound /\ PlacesSound /\ BytesInOrder /\ CleanEndIsWhole /\ HintHonest /\ WindowKept
  BY DEF SInv, StreamExact
<1>2. UNCHANGED <<kind, total, declared, pre, tbuf, hint, done, got, gotTrailers, seen, queue, peer>>
  BY Zenon DEF WindowUpdate, Reader
<1>3. credit' \in Nat /\ unclaimed' \in Nat /\ credit' + unclaimed' = credit + unclaimed
  BY <1>1 DEF WindowUpdate, STypeOK
<1>5. STypeOK'  BY <1>1, <1>2, <1>3 DEF STypeOK
<1>6. PeerSound' /\ PlacesSound'  BY <1>1, <1>2 DEF PeerSound, PlacesSound, Drained
<1>8. BytesInOrder' /\ WindowKept' /\ HintHonest'
  BY <1>2, <1>3, BytesStay
<1>9. CleanEndIsWhole'  BY <1>1, <1>2 DEF CleanEndIsWhole
<1> QED  BY <1>5, <1>6, <1>8, <1>9 DEF SInv, StreamExact

\* Sums are associative.
LEMMA SumAssoc == \A c, u, h \in Nat : c + u + h = c + (u + h)
OBVIOUS

\* What every step of the reader keeps, if it moves bytes along the line and
\* releases as much of the window as it takes off it.
LEMMA ReadKeeps ==
  ASSUME SInv, Stays, queue' \in Seq(Seq(Nat)),
         got' \in Seq(Nat), pre' \in Seq(Nat), tbuf' \in Seq(Nat), unclaimed' \in Nat,
         Line(got', pre', tbuf', FlattenSeq(queue')) = Line(got, pre, tbuf, FlattenSeq(queue)),
         kind # "socket" => unclaimed' + Held' = unclaimed + Held,
         hint' \in Nat \cup {Unknown}, done' \in BOOLEAN, gotTrailers' \in BOOLEAN,
         seen' \in {"head", "live", "end", "err"}
  PROVE  STypeOK' /\ PeerSound' /\ BytesInOrder' /\ WindowKept'
<1>1. STypeOK /\ PeerSound /\ WindowKept  BY DEF SInv, StreamExact
<1>2. UNCHANGED <<kind, total, declared, peer, credit>>  BY Zenon DEF Stays
<1>3. STypeOK'  BY <1>1, <1>2 DEF STypeOK
<1>4. PeerSound'  BY <1>1, <1>2 DEF PeerSound
<1>5. BytesInOrder'
  <2>1. Line(got, pre, tbuf, FlattenSeq(queue)) = Numbered(0, peer.given)  BY StreamFacts
  <2> QED  BY <1>2, <2>1, Zenon DEF BytesInOrder, Line
<1>6. WindowKept'
  <2>1. Len(FlattenSeq(queue)) \in Nat /\ Len(tbuf) \in Nat  BY StreamFacts
  <2>2. FlattenSeq(queue') \in Seq(Nat)  BY FlattenType
  <2>3. Len(FlattenSeq(queue')) \in Nat /\ Len(tbuf') \in Nat  BY <2>2
  <2>4. credit \in Nat /\ unclaimed \in Nat  BY <1>1 DEF STypeOK
  <2>5. Held \in Nat /\ Held' \in Nat  BY <2>1, <2>3 DEF Held
  <2>6. credit + unclaimed + Held = credit + (unclaimed + Held)  BY <2>4, <2>5, SumAssoc, ZenonT(90)
  <2>7. credit + unclaimed' + Held' = credit + (unclaimed' + Held')  BY <2>4, <2>5, SumAssoc, ZenonT(90)
  <2> QED  BY <1>1, <1>2, <2>6, <2>7, Zenon DEF WindowKept
<1> QED  BY <1>3, <1>4, <1>5, <1>6, Zenon

\* Nothing is queued: nothing is held.
LEMMA NothingQueued ==
  ASSUME SInv, queue = <<>>, pre = <<>>, tbuf = <<>>
  PROVE  Len(got) = peer.given
<1>1. Len(<<>>) = 0  OBVIOUS
<1>2. FlattenSeq(queue) = <<>>  BY FlattenEmpty, Zenon
<1>3. Len(got) + Len(<<>>) + Len(<<>>) + Len(<<>>) = peer.given /\ Len(got) \in Nat
  BY <1>2, StreamFacts, Zenon
<1> QED  BY <1>1, <1>3

\* The stream is handed over.
LEMMA StepOpen ==
  ASSUME SInv, Open
  PROVE  SInv'
<1> USE StreamAssumption
<1>1. STypeOK /\ PeerSound /\ PlacesSound /\ BytesInOrder /\ CleanEndIsWhole /\ HintHonest /\ WindowKept
  BY DEF SInv, StreamExact
<1>2. UNCHANGED <<kind, total, declared, peer, credit, unclaimed, tbuf, done, got, gotTrailers>>
  BY Zenon DEF Open
<1>3. seen = "head" /\ seen' = "live" /\ hint' = IF kind = "body" THEN Hint ELSE Unknown  BY DEF Open
<1>4. pre = <<>> /\ tbuf = <<>> /\ got = <<>> /\ ~done  BY <1>1, <1>3 DEF PlacesSound
<1>5. PICK k \in IF kind = "socket" THEN 0 .. Len(queue) ELSE {0} :
        pre' = FlattenSeq(SubSeq(queue, 1, k)) /\ queue' = Rest(queue, k)
  BY Zenon DEF Open
<1>6. queue \in Seq(Seq(Nat)) /\ k \in 0 .. Len(queue) /\ (kind # "socket" => k = 0)
  BY <1>1, <1>5 DEF STypeOK
<1>7. /\ pre' \in Seq(Nat) /\ queue' \in Seq(Seq(Nat))
      /\ Line(<<>>, pre', <<>>, FlattenSeq(queue')) = Line(<<>>, <<>>, <<>>, FlattenSeq(queue))
      /\ kind # "socket" => pre' = <<>> /\ queue' = queue
  BY <1>5, <1>6, TakesOver
<1>8. Line(got', pre', tbuf', FlattenSeq(queue')) = Line(got, pre, tbuf, FlattenSeq(queue))
  BY <1>2, <1>4, <1>7, Zenon
<1>9. kind # "socket" => unclaimed' + Held' = unclaimed + Held  BY <1>2, <1>7, Zenon DEF Held
<1>a. hint' \in Nat \cup {Unknown}  BY <1>1, <1>3 DEF Hint, STypeOK
<1>b. Stays  BY <1>2, Zenon DEF Stays
<1>c. STypeOK' /\ PeerSound' /\ BytesInOrder' /\ WindowKept'
  <2>1. got' \in Seq(Nat) /\ tbuf' \in Seq(Nat) /\ unclaimed' \in Nat /\ done' \in BOOLEAN
        /\ gotTrailers' \in BOOLEAN /\ seen' \in {"head", "live", "end", "err"}
    BY <1>1, <1>2, <1>3 DEF STypeOK
  <2> QED  BY <1>7, <1>8, <1>9, <1>a, <1>b, <2>1, ReadKeeps
<1>d. PlacesSound'  BY <1>1, <1>2, <1>3, <1>4, <1>7 DEF PlacesSound
<1>e. CleanEndIsWhole'  BY <1>3 DEF CleanEndIsWhole
<1>f. HintHonest'
  <2> SUFFICES ASSUME kind = "body", hint' # Unknown PROVE hint' \in Nat /\ hint' = total - Len(got)
    BY <1>2 DEF HintHonest
  <2>1. Len(got) = 0 /\ total \in Nat  BY <1>1, <1>4 DEF STypeOK
  <2>2. CASE declared = total  BY <1>3, <2>1, <2>2 DEF Hint
  <2>3. CASE declared = Unknown
    <3>1. hint' = 0 /\ IsEndStream  BY <1>3, <2>3 DEF Hint
    <3>2. queue = <<>> /\ peer.given = total  BY <1>1, <3>1 DEF IsEndStream, PeerSound
    <3>3. Len(got) = peer.given  BY <1>4, <3>2, NothingQueued
    <3> QED  BY <2>1, <3>1, <3>2, <3>3
  <2> QED  BY <1>1, <2>2, <2>3 DEF PeerSound
<1> QED  BY <1>c, <1>d, <1>e, <1>f DEF SInv, StreamExact

\* A body gives a frame.
LEMMA StepBodyData ==
  ASSUME SInv, BodyData
  PROVE  SInv'
<1> USE StreamAssumption
<1>1. STypeOK /\ PeerSound /\ PlacesSound /\ BytesInOrder /\ CleanEndIsWhole /\ HintHonest /\ WindowKept
  BY DEF SInv, StreamExact
<1>2. UNCHANGED <<kind, total, declared, peer, credit, pre, tbuf, done, gotTrailers, seen>> /\ Stays
  BY Zenon DEF BodyData, Stays
<1>3. kind = "body" /\ seen = "live" /\ ~done /\ queue # <<>> /\ got' = got \o Head(queue) /\ queue' = Tail(queue)
      /\ unclaimed' = unclaimed + Len(Head(queue))
      /\ hint' = IF hint = Unknown THEN hint ELSE hint - Len(Head(queue))
  BY Zenon DEF BodyData
<1>4. pre = <<>> /\ tbuf = <<>>  BY <1>1, <1>3 DEF PlacesSound
<1>5. queue \in Seq(Seq(Nat)) /\ got \in Seq(Nat) /\ unclaimed \in Nat  BY <1>1 DEF STypeOK
<1>6. /\ got' \in Seq(Nat) /\ queue' \in Seq(Seq(Nat))
      /\ Line(got', <<>>, <<>>, FlattenSeq(queue')) = Line(got, <<>>, <<>>, FlattenSeq(queue))
      /\ Len(Head(queue)) \in Nat
      /\ Len(FlattenSeq(queue)) = Len(Head(queue)) + Len(FlattenSeq(queue'))
      /\ Len(got') = Len(got) + Len(Head(queue))
  BY <1>3, <1>5, TakesFrame
<1>7. Line(got', pre', tbuf', FlattenSeq(queue')) = Line(got, pre, tbuf, FlattenSeq(queue))
  BY <1>2, <1>4, <1>6, Zenon
<1>8. FlattenSeq(queue') \in Seq(Nat)  BY <1>6, FlattenType
<1>8a. Len(FlattenSeq(queue')) \in Nat /\ Len(<<>>) = 0  BY <1>8
<1>9. unclaimed' + Held' = unclaimed + Held
  <2>1. Held = Len(FlattenSeq(queue)) + 0 /\ Held' = Len(FlattenSeq(queue')) + 0
    BY <1>2, <1>4, <1>8a, Zenon DEF Held
  <2>2. PICK l \in Nat, f \in Nat, u \in Nat : l = Len(Head(queue)) /\ f = Len(FlattenSeq(queue')) /\ u = unclaimed
    BY <1>5, <1>6, <1>8a, Zenon
  <2>3. Held = (l + f) + 0 /\ Held' = f + 0 /\ unclaimed' = u + l  BY <1>3, <1>6, <2>1, <2>2, Zenon
  <2> QED  BY <2>2, <2>3
<1>a. hint # Unknown => hint' \in Nat /\ hint' = total - Len(got')
  <2> SUFFICES ASSUME hint # Unknown PROVE hint' \in Nat /\ hint' = total - Len(got')  OBVIOUS
  <2>1. hint \in Nat /\ hint = total - Len(got)  BY <1>1, <1>3 DEF HintHonest
  <2>2. Len(got) + Len(FlattenSeq(queue)) = peer.given /\ Len(got) \in Nat
    <3>1. Len(got) + Len(<<>>) + Len(<<>>) + Len(FlattenSeq(queue)) = peer.given
          /\ Len(got) \in Nat /\ Len(FlattenSeq(queue)) \in Nat
      BY <1>4, StreamFacts, Zenon
    <3> QED  BY <1>8a, <3>1
  <2>3. peer.given <= total /\ total \in Nat /\ peer.given \in Nat  BY <1>1 DEF PeerSound, STypeOK
  <2>4. hint' = hint - Len(Head(queue))  BY <1>3
  <2>5. PICK l \in Nat, f \in Nat, g \in Nat :
          l = Len(Head(queue)) /\ f = Len(FlattenSeq(queue')) /\ g = Len(got)
    BY <1>6, <1>8a, <2>2, Zenon
  <2>6. g + (l + f) = peer.given /\ Len(got') = g + l /\ hint' = hint - l /\ hint = total - g
    BY <1>6, <2>1, <2>2, <2>4, <2>5, Zenon
  <2> QED  BY <2>1, <2>3, <2>5, <2>6
<1>b. hint' \in Nat \cup {Unknown}  BY <1>3, <1>a
<1>c. STypeOK' /\ PeerSound' /\ BytesInOrder' /\ WindowKept'
  <2>1. pre' \in Seq(Nat) /\ tbuf' \in Seq(Nat) /\ unclaimed' \in Nat /\ done' \in BOOLEAN
        /\ gotTrailers' \in BOOLEAN /\ seen' \in {"head", "live", "end", "err"}
    BY <1>1, <1>2, <1>3, <1>6 DEF STypeOK
  <2> QED  BY <1>2, <1>6, <1>7, <1>9, <1>b, <2>1, ReadKeeps
<1>d. PlacesSound'  BY <1>1, <1>2, <1>3, <1>4 DEF PlacesSound
<1>e. CleanEndIsWhole'  BY <1>2, <1>3 DEF CleanEndIsWhole
<1>f. HintHonest'  BY <1>2, <1>3, <1>a DEF HintHonest
<1> QED  BY <1>c, <1>d, <1>e, <1>f DEF SInv, StreamExact

\* A step of a body's reader that takes no bytes.
LEMMA StepBodyEnds ==
  ASSUME SInv, BodyReset \/ BodyDataDone \/ BodyTrailers
  PROVE  SInv'
<1>1. STypeOK /\ PeerSound /\ PlacesSound /\ BytesInOrder /\ CleanEndIsWhole /\ HintHonest /\ WindowKept
  BY DEF SInv, StreamExact
<1>2. UNCHANGED <<kind, total, declared, peer, credit, queue, unclaimed, pre, tbuf, hint, got>> /\ Stays
      /\ kind = "body" /\ seen = "live"
  BY Zenon DEF BodyReset, BodyDataDone, BodyTrailers, Stays
<1>3. pre = <<>> /\ tbuf = <<>>  BY <1>1, <1>2 DEF PlacesSound
<1>4. Line(got', pre', tbuf', FlattenSeq(queue')) = Line(got, pre, tbuf, FlattenSeq(queue))
  BY <1>2, Zenon
<1>5. unclaimed' + Held' = unclaimed + Held  BY <1>2, Zenon DEF Held
<1>6. done' \in BOOLEAN /\ gotTrailers' \in BOOLEAN /\ seen' \in {"live", "end", "err"}
      /\ (done' => Drained) /\ (seen' = "end" => Drained)
  BY <1>1 DEF BodyReset, BodyDataDone, BodyTrailers, STypeOK, PlacesSound, Fails
<1>7. STypeOK' /\ PeerSound' /\ BytesInOrder' /\ WindowKept'
  <2>1. /\ pre' \in Seq(Nat) /\ tbuf' \in Seq(Nat) /\ got' \in Seq(Nat) /\ unclaimed' \in Nat
        /\ queue' \in Seq(Seq(Nat)) /\ hint' \in Nat \cup {Unknown}
        /\ seen' \in {"head", "live", "end", "err"}
    BY <1>1, <1>2, <1>6 DEF STypeOK
  <2> QED  BY <1>2, <1>4, <1>5, <1>6, <2>1, ReadKeeps
<1>8. Drained' = Drained  BY <1>2, Zenon DEF Drained
<1>9. PlacesSound'  BY <1>2, <1>3, <1>6, <1>8 DEF PlacesSound
<1>a. CleanEndIsWhole'
  <2> SUFFICES ASSUME seen' = "end" PROVE CleanEndIsWhole'  BY DEF CleanEndIsWhole
  <2>1. Drained  BY <1>6
  <2>2. queue = <<>>  BY <2>1 DEF Drained
  <2>3. Len(got) = peer.given  BY <1>3, <2>2, NothingQueued
  <2>4. peer.reset \in {NoReset, "NO_ERROR"} /\ (peer.trailers => gotTrailers')
    BY <1>1, <1>2 DEF BodyReset, BodyDataDone, BodyTrailers, STypeOK, Fails
  <2> QED  BY <1>2, <2>1, <2>3, <2>4 DEF CleanEndIsWhole, Drained
<1>b. HintHonest'  BY <1>1, <1>2 DEF HintHonest
<1> QED  BY <1>7, <1>9, <1>a, <1>b DEF SInv, StreamExact

\* Rewind gives back what was read with the head.
LEMMA StepRewindRead ==
  ASSUME SInv, NEW n \in ReadSizes, RewindRead(n)
  PROVE  SInv'
<1>1. STypeOK /\ PeerSound /\ PlacesSound /\ BytesInOrder /\ CleanEndIsWhole /\ HintHonest /\ WindowKept
  BY DEF SInv, StreamExact
<1>2. UNCHANGED <<kind, total, declared, peer, credit, queue, unclaimed, tbuf, hint, done, gotTrailers, seen>> /\ Stays
  BY Zenon DEF RewindRead, Stays
<1>3. seen = "live" /\ kind # "body" /\ pre # <<>>
      /\ got' = got \o Prefix(pre, n) /\ pre' = Rest(pre, Least(n, Len(pre)))
  BY Zenon DEF RewindRead
<1>4. got \in Seq(Nat) /\ pre \in Seq(Nat) /\ tbuf \in Seq(Nat)  BY <1>1 DEF STypeOK
<1>5. FlattenSeq(queue) \in Seq(Nat)  BY StreamFacts
<1>6. n \in Nat  BY StreamAssumption
<1>7. kind = "socket"  BY <1>1, <1>3 DEF PlacesSound
<1>8. got' \in Seq(Nat) /\ pre' \in Seq(Nat)
      /\ Line(got', pre', tbuf, FlattenSeq(queue)) = Line(got, pre, tbuf, FlattenSeq(queue))
  BY <1>3, <1>4, <1>5, <1>6, TakesPrefix
<1>9. Line(got', pre', tbuf', FlattenSeq(queue')) = Line(got, pre, tbuf, FlattenSeq(queue))
  BY <1>2, <1>8, Zenon
<1>a. STypeOK' /\ PeerSound' /\ BytesInOrder' /\ WindowKept'
  <2>1. /\ tbuf' \in Seq(Nat) /\ unclaimed' \in Nat /\ queue' \in Seq(Seq(Nat)) /\ hint' \in Nat \cup {Unknown}
        /\ done' \in BOOLEAN /\ gotTrailers' \in BOOLEAN /\ seen' \in {"head", "live", "end", "err"}
    BY <1>1, <1>2 DEF STypeOK
  <2> QED  BY <1>2, <1>7, <1>8, <1>9, <2>1, ReadKeeps
<1>b. PlacesSound'  BY <1>1, <1>2, <1>3, <1>7 DEF PlacesSound
<1>c. CleanEndIsWhole' /\ HintHonest'  BY <1>2, <1>3 DEF CleanEndIsWhole, HintHonest
<1> QED  BY <1>a, <1>b, <1>c DEF SInv, StreamExact

\* An upgraded socket is read.
LEMMA StepSocketRead ==
  ASSUME SInv, NEW n \in ReadSizes, SocketRead(n)
  PROVE  SInv'
<1>1. STypeOK /\ PeerSound /\ PlacesSound /\ BytesInOrder /\ CleanEndIsWhole /\ HintHonest /\ WindowKept
  BY DEF SInv, StreamExact
<1>2. UNCHANGED <<kind, total, declared, peer, credit, pre, unclaimed, tbuf, hint, done, gotTrailers, seen>> /\ Stays
  BY Zenon DEF SocketRead, Stays
<1>3. kind = "socket" /\ seen = "live" /\ pre = <<>> /\ queue # <<>> /\ got' = got \o Prefix(Head(queue), n)
      /\ queue' = IF n >= Len(Head(queue)) THEN Tail(queue) ELSE <<Rest(Head(queue), n)>> \o Tail(queue)
  BY Zenon DEF SocketRead
<1>4. got \in Seq(Nat) /\ queue \in Seq(Seq(Nat)) /\ tbuf = <<>>  BY <1>1, <1>3 DEF STypeOK, PlacesSound
<1>5. n \in Nat  BY StreamAssumption
<1>6. Head(queue) \in Seq(Nat) /\ Len(Head(queue)) \in Nat
  <2>1. Head(queue) \in Seq(Nat)  BY <1>3, <1>4, FlattenHead
  <2> QED  BY <2>1
<1>7. got' \in Seq(Nat) /\ queue' \in Seq(Seq(Nat))
      /\ Line(got', <<>>, <<>>, FlattenSeq(queue')) = Line(got, <<>>, <<>>, FlattenSeq(queue))
  <2>1. CASE n >= Len(Head(queue))
    <3>1. Prefix(Head(queue), n) = Head(queue)
      <4>1. PICK h \in Seq(Nat) : h = Head(queue)  BY <1>6, Zenon
      <4>2. Least(n, Len(h)) = Len(h)
        <5>1. n >= Len(h) /\ Len(h) \in Nat  BY <2>1, <4>1
        <5> QED  BY <1>5, <5>1 DEF Least
      <4>3. SubSeq(h, 1, Len(h)) = h  BY SubSeqFull
      <4> QED  BY <4>1, <4>2, <4>3, Zenon DEF Prefix
    <3>2. got' = got \o Head(queue) /\ queue' = Tail(queue)  BY <1>3, <2>1, <3>1, Zenon
    <3> QED  BY <1>3, <1>4, <3>2, TakesFrame
  <2>2. CASE n < Len(Head(queue))
    <3>1. ~(n >= Len(Head(queue)))  BY <1>5, <1>6, <2>2
    <3>2. queue' = <<Rest(Head(queue), n)>> \o Tail(queue)  BY <1>3, <3>1, Zenon
    <3> QED  BY <1>3, <1>4, <1>5, <2>2, <3>2, TakesFront
  <2>3. n >= Len(Head(queue)) \/ n < Len(Head(queue))  BY <1>5, <1>6
  <2> QED  BY <2>1, <2>2, <2>3, Zenon
<1>9. Line(got', pre', tbuf', FlattenSeq(queue')) = Line(got, pre, tbuf, FlattenSeq(queue))
  BY <1>2, <1>3, <1>4, <1>7, Zenon
<1>a. STypeOK' /\ PeerSound' /\ BytesInOrder' /\ WindowKept'
  <2>1. /\ tbuf' \in Seq(Nat) /\ unclaimed' \in Nat /\ pre' \in Seq(Nat) /\ hint' \in Nat \cup {Unknown}
        /\ done' \in BOOLEAN /\ gotTrailers' \in BOOLEAN /\ seen' \in {"head", "live", "end", "err"}
    BY <1>1, <1>2 DEF STypeOK
  <2> QED  BY <1>2, <1>3, <1>7, <1>9, <2>1, ReadKeeps
<1>b. PlacesSound'  BY <1>1, <1>2, <1>3, <1>4 DEF PlacesSound
<1>c. CleanEndIsWhole' /\ HintHonest'  BY <1>2, <1>3 DEF CleanEndIsWhole, HintHonest
<1> QED  BY <1>a, <1>b, <1>c DEF SInv, StreamExact

\* A tunnel skips an empty frame.
LEMMA StepTunnelSkip ==
  ASSUME SInv, TunnelSkip
  PROVE  SInv'
<1>1. STypeOK /\ PeerSound /\ PlacesSound /\ BytesInOrder /\ CleanEndIsWhole /\ HintHonest /\ WindowKept
  BY DEF SInv, StreamExact
<1>2. UNCHANGED <<kind, total, declared, peer, credit, pre, unclaimed, tbuf, hint, done, got, gotTrailers, seen>> /\ Stays
  BY Zenon DEF TunnelSkip, Stays
<1>3. kind = "tunnel" /\ seen = "live" /\ tbuf = <<>> /\ queue # <<>> /\ Head(queue) = <<>> /\ queue' = Tail(queue)
  BY Zenon DEF TunnelSkip
<1>4. queue \in Seq(Seq(Nat)) /\ pre = <<>>  BY <1>1, <1>3 DEF STypeOK, PlacesSound
<1>5. queue' \in Seq(Seq(Nat)) /\ FlattenSeq(queue) = Head(queue) \o FlattenSeq(queue')  BY <1>3, <1>4, FlattenHead
<1>6. FlattenSeq(queue') \in Seq(Nat)  BY <1>5, FlattenType
<1>7. FlattenSeq(queue') = FlattenSeq(queue)  BY <1>3, <1>5, <1>6, Unit, Zenon
<1>8. Line(got', pre', tbuf', FlattenSeq(queue')) = Line(got, pre, tbuf, FlattenSeq(queue))  BY <1>2, <1>7, Zenon
<1>9. unclaimed' + Held' = unclaimed + Held  BY <1>2, <1>7, Zenon DEF Held
<1>a. STypeOK' /\ PeerSound' /\ BytesInOrder' /\ WindowKept'
  <2>1. /\ tbuf' \in Seq(Nat) /\ unclaimed' \in Nat /\ pre' \in Seq(Nat) /\ hint' \in Nat \cup {Unknown}
        /\ got' \in Seq(Nat)
        /\ done' \in BOOLEAN /\ gotTrailers' \in BOOLEAN /\ seen' \in {"head", "live", "end", "err"}
    BY <1>1, <1>2 DEF STypeOK
  <2> QED  BY <1>2, <1>5, <1>8, <1>9, <2>1, ReadKeeps
<1>b. PlacesSound'  BY <1>1, <1>2, <1>3, <1>4 DEF PlacesSound
<1>c. CleanEndIsWhole' /\ HintHonest'  BY <1>2, <1>3 DEF CleanEndIsWhole, HintHonest
<1> QED  BY <1>a, <1>b, <1>c DEF SInv, StreamExact

\* A tunnel is read.
LEMMA StepTunnelRead ==
  ASSUME SInv, NEW n \in ReadSizes, TunnelRead(n)
  PROVE  SInv'
<1>1. STypeOK /\ PeerSound /\ PlacesSound /\ BytesInOrder /\ CleanEndIsWhole /\ HintHonest /\ WindowKept
  BY DEF SInv, StreamExact
<1>2. UNCHANGED <<kind, total, declared, peer, credit, pre, hint, done, gotTrailers, seen>> /\ Stays
      /\ kind = "tunnel" /\ seen = "live"
  BY Zenon DEF TunnelRead, Stays
<1>3. pre = <<>> /\ ~done  BY <1>1, <1>2 DEF PlacesSound
<1>4. got \in Seq(Nat) /\ queue \in Seq(Seq(Nat)) /\ tbuf \in Seq(Nat) /\ unclaimed \in Nat  BY <1>1 DEF STypeOK
<1>5. n \in Nat  BY StreamAssumption
<1>6. FlattenSeq(queue) \in Seq(Nat) /\ Len(FlattenSeq(queue)) \in Nat  BY StreamFacts
<1>7. /\ got' \in Seq(Nat) /\ tbuf' \in Seq(Nat) /\ queue' \in Seq(Seq(Nat)) /\ unclaimed' \in Nat
      /\ Line(got', <<>>, tbuf', FlattenSeq(queue')) = Line(got, <<>>, tbuf, FlattenSeq(queue))
      /\ unclaimed' + Held' = unclaimed + Held
  <2>1. CASE tbuf = <<>>
    <3>1. queue # <<>> /\ queue' = Tail(queue) /\ got' = got \o Prefix(Head(queue), n)
          /\ tbuf' = Rest(Head(queue), Least(n, Len(Head(queue))))
          /\ unclaimed' = unclaimed + Least(n, Len(Head(queue)))
      BY <2>1, Zenon DEF TunnelRead
    <3>2. /\ got' \in Seq(Nat) /\ queue' \in Seq(Seq(Nat)) /\ tbuf' \in Seq(Nat)
          /\ Least(n, Len(Head(queue))) \in Nat
          /\ Len(FlattenSeq(queue)) = Least(n, Len(Head(queue))) + Len(tbuf') + Len(FlattenSeq(queue'))
          /\ Line(got', <<>>, tbuf', FlattenSeq(queue')) = Line(got, <<>>, <<>>, FlattenSeq(queue))
      BY <1>4, <1>5, <3>1, SplitsFrame
    <3>3. FlattenSeq(queue') \in Seq(Nat)  BY <3>2, FlattenType
    <3>4. Len(FlattenSeq(queue')) \in Nat /\ Len(tbuf') \in Nat /\ Len(<<>>) = 0  BY <3>2, <3>3
    <3>5. PICK l \in Nat, f \in Nat, t \in Nat, u \in Nat :
            /\ l = Least(n, Len(Head(queue))) /\ f = Len(FlattenSeq(queue'))
            /\ t = Len(tbuf') /\ u = unclaimed
      BY <1>4, <3>2, <3>4, Zenon
    <3>6. Held = l + t + f + 0 /\ Held' = f + t /\ unclaimed' = u + l
      BY <2>1, <3>1, <3>2, <3>4, <3>5, Zenon DEF Held
    <3>a. (u + l) + (f + t) = u + (l + t + f + 0) /\ u + l \in Nat  OBVIOUS
    <3>7. unclaimed' \in Nat /\ unclaimed' + Held' = unclaimed + Held  BY <3>5, <3>6, <3>a, Zenon
    <3> QED  BY <2>1, <3>2, <3>7, Zenon
  <2>2. CASE tbuf # <<>>
    <3>1. queue' = queue /\ got' = got \o Prefix(tbuf, n) /\ tbuf' = Rest(tbuf, Least(n, Len(tbuf)))
          /\ unclaimed' = unclaimed + Least(n, Len(tbuf))
      BY <2>2, Zenon DEF TunnelRead
    <3>2. /\ got' \in Seq(Nat) /\ tbuf' \in Seq(Nat) /\ Least(n, Len(tbuf)) \in Nat
          /\ Len(tbuf) = Least(n, Len(tbuf)) + Len(tbuf')
          /\ Line(got', <<>>, tbuf', FlattenSeq(queue)) = Line(got, <<>>, tbuf, FlattenSeq(queue))
      BY <1>4, <1>5, <1>6, <3>1, TakesKept
    <3>4. Len(tbuf') \in Nat  BY <3>2
    <3>5. PICK l \in Nat, f \in Nat, t \in Nat, u \in Nat :
            /\ l = Least(n, Len(tbuf)) /\ f = Len(FlattenSeq(queue)) /\ t = Len(tbuf') /\ u = unclaimed
      BY <1>4, <1>6, <3>2, <3>4, Zenon
    <3>6. Held = f + (l + t) /\ Held' = f + t /\ unclaimed' = u + l
      BY <3>1, <3>2, <3>5, Zenon DEF Held
    <3>a. (u + l) + (f + t) = u + (f + (l + t)) /\ u + l \in Nat  OBVIOUS
    <3>7. unclaimed' \in Nat /\ unclaimed' + Held' = unclaimed + Held  BY <3>5, <3>6, <3>a, Zenon
    <3> QED  BY <1>4, <3>1, <3>2, <3>7, Zenon
  <2> QED  BY <2>1, <2>2, Zenon
<1>9. Line(got', pre', tbuf', FlattenSeq(queue')) = Line(got, pre, tbuf, FlattenSeq(queue))
  BY <1>2, <1>3, <1>7, Zenon
<1>a. STypeOK' /\ PeerSound' /\ BytesInOrder' /\ WindowKept'
  <2>1. /\ pre' \in Seq(Nat) /\ hint' \in Nat \cup {Unknown}
        /\ done' \in BOOLEAN /\ gotTrailers' \in BOOLEAN /\ seen' \in {"head", "live", "end", "err"}
    BY <1>1, <1>2 DEF STypeOK
  <2> QED  BY <1>2, <1>7, <1>9, <2>1, ReadKeeps
<1>b. PlacesSound'  BY <1>2, <1>3 DEF PlacesSound
<1>c. CleanEndIsWhole' /\ HintHonest'  BY <1>2 DEF CleanEndIsWhole, HintHonest
<1> QED  BY <1>a, <1>b, <1>c DEF SInv, StreamExact

\* The reader of a tunnel or socket is told of the end.
LEMMA StepStreamEnds ==
  ASSUME SInv, StreamEnds
  PROVE  SInv'
<1>1. STypeOK /\ PeerSound /\ PlacesSound /\ BytesInOrder /\ CleanEndIsWhole /\ HintHonest /\ WindowKept
  BY DEF SInv, StreamExact
<1>2. UNCHANGED <<kind, total, declared, peer, credit, unclaimed, pre, tbuf, hint, done, got, gotTrailers>> /\ Stays
      /\ kind # "body" /\ pre = <<>> /\ tbuf = <<>> /\ queue' = <<>>
  BY Zenon DEF StreamEnds, Stays
<1>3. seen' = IF peer.reset \in {NoReset, "NO_ERROR", "CANCEL"} THEN "end" ELSE "err"  BY DEF StreamEnds
<1>4. (queue = <<>> \/ queue = <<<<>>>>) /\ (peer.eos \/ peer.reset # NoReset)  BY DEF StreamEnds, Drained
<1>5. FlattenSeq(queue) = <<>> /\ FlattenSeq(queue') = <<>>
  <2>1. <<>> \in Seq(Nat)  OBVIOUS
  <2>2. FlattenSeq(<<<<>>>>) = <<>>  BY <2>1, FlattenOne
  <2> QED  BY <1>2, <1>4, <2>2, FlattenEmpty, Zenon
<1>6. Line(got', pre', tbuf', FlattenSeq(queue')) = Line(got, pre, tbuf, FlattenSeq(queue))  BY <1>2, <1>5, Zenon
<1>7. unclaimed' + Held' = unclaimed + Held  BY <1>2, <1>5, Zenon DEF Held
<1>8. STypeOK' /\ PeerSound' /\ BytesInOrder' /\ WindowKept'
  <2>1. /\ tbuf' \in Seq(Nat) /\ unclaimed' \in Nat /\ pre' \in Seq(Nat) /\ hint' \in Nat \cup {Unknown}
        /\ got' \in Seq(Nat)
        /\ done' \in BOOLEAN /\ gotTrailers' \in BOOLEAN /\ seen' \in {"head", "live", "end", "err"}
    BY <1>1, <1>2, <1>3 DEF STypeOK
  <2>2. queue' \in Seq(Seq(Nat))
    <3>1. <<>> \in Seq(Seq(Nat))  OBVIOUS
    <3> QED  BY <1>2, <3>1, Zenon
  <2> QED  BY <1>2, <1>6, <1>7, <2>1, <2>2, ReadKeeps
<1>9. Drained'  BY <1>2, <1>4 DEF Drained
<1>a. PlacesSound'  BY <1>1, <1>2, <1>3, <1>9 DEF PlacesSound
<1>b. Len(got) = peer.given
  <2>1. Len(<<>>) = 0  OBVIOUS
  <2>2. Len(got) + Len(<<>>) + Len(<<>>) + Len(<<>>) = peer.given /\ Len(got) \in Nat
    BY <1>2, <1>5, StreamFacts, Zenon
  <2> QED  BY <2>1, <2>2
<1>c. ~peer.trailers \/ kind = "body"  BY <1>1 DEF PeerSound
<1>d. CleanEndIsWhole'
  <2>1. kind \in {"tunnel", "socket"} /\ (kind = "socket" => peer.reset \in {NoReset, "io"})
    BY <1>1, <1>2 DEF STypeOK, PeerSound
  <2>2. peer.reset = "CANCEL" => kind = "tunnel"  BY <2>1 DEF NoReset
  <2>3. seen' = "end" => peer.reset \in {NoReset, "NO_ERROR", "CANCEL"}  BY <1>3
  <2> QED  BY <1>2, <1>4, <1>b, <1>c, <2>2, <2>3 DEF CleanEndIsWhole
<1>e. HintHonest'  BY <1>2 DEF HintHonest
<1> QED  BY <1>8, <1>a, <1>d, <1>e DEF SInv, StreamExact

\* Every step keeps the invariant.
LEMMA StreamStep == SInv /\ [SNext]_svars => SInv'
<1> SUFFICES ASSUME SInv, [SNext]_svars PROVE SInv'  OBVIOUS
<1>1. CASE UNCHANGED svars
  <2>1. STypeOK /\ PeerSound /\ PlacesSound /\ BytesInOrder /\ CleanEndIsWhole /\ HintHonest /\ WindowKept
    BY Zenon DEF SInv, StreamExact
  <2>2. UNCHANGED <<kind, total, declared, peer, queue, credit, unclaimed, pre, tbuf, hint, done, got, gotTrailers, seen>>
    BY <1>1, Zenon DEF svars
  <2>3. STypeOK'  BY <2>1, <2>2, ZenonT(90) DEF STypeOK
  <2>4. PeerSound'  BY <2>1, <2>2, Zenon DEF PeerSound
  <2>5. PlacesSound'  BY <2>1, <2>2, Zenon DEF PlacesSound, Drained
  <2>6. BytesInOrder' /\ HintHonest'  BY <2>1, <2>2, Zenon DEF BytesInOrder, HintHonest
  <2>7. CleanEndIsWhole'  BY <2>1, <2>2, Zenon DEF CleanEndIsWhole
  <2>8. WindowKept'  BY <2>1, <2>2, Zenon DEF WindowKept, Held
  <2> QED  BY <2>3, <2>4, <2>5, <2>6, <2>7, <2>8, Zenon DEF SInv, StreamExact
<1>2. ASSUME NEW n \in 0 .. Window, NEW last \in BOOLEAN, PeerSends(n, last) PROVE SInv'
  BY <1>2, StepPeerSends
<1>3. ASSUME NEW trailers \in BOOLEAN, PeerEnds(trailers) PROVE SInv'  BY <1>3, StepPeerEnds
<1>4. ASSUME NEW reason \in Reasons, PeerResets(reason) PROVE SInv'  BY <1>4, StepPeerResets
<1>5. CASE WindowUpdate  BY <1>5, StepWindowUpdate
<1>6. CASE Open  BY <1>6, StepOpen
<1>7. CASE BodyData  BY <1>7, StepBodyData
<1>8. CASE BodyReset \/ BodyDataDone \/ BodyTrailers  BY <1>8, StepBodyEnds
<1>9. ASSUME NEW n \in ReadSizes, RewindRead(n) PROVE SInv'  BY <1>9, StepRewindRead
<1>10. ASSUME NEW n \in ReadSizes, SocketRead(n) PROVE SInv'  BY <1>10, StepSocketRead
<1>11. ASSUME NEW n \in ReadSizes, TunnelRead(n) PROVE SInv'  BY <1>11, StepTunnelRead
<1>12. CASE TunnelSkip  BY <1>12, StepTunnelSkip
<1>13. CASE StreamEnds  BY <1>13, StepStreamEnds
<1> QED
  BY <1>1, <1>2, <1>3, <1>4, <1>5, <1>6, <1>7, <1>8, <1>9, <1>10, <1>11, <1>12, <1>13, Zenon
  DEF SNext, Reads

\* The invariant always holds.
LEMMA StreamInvariance == SSpec => []SInv
<1>1. SInit => SInv  BY StreamInit
<1>2. SInv /\ [SNext]_svars => SInv'  BY StreamStep
<1> QED  BY <1>1, <1>2, PTL DEF SSpec

\* The readers of HTTP/2 bodies, tunnels and upgraded sockets get every byte
\* once and in order, whatever the sizes of frames, windows and reads; a
\* clean end comes after all of them and the trailers, and a length that was
\* announced is the length that is left.
THEOREM StreamsExact == SSpec => []StreamExact
<1>1. SInv => StreamExact  BY DEF SInv
<1> QED  BY <1>1, StreamInvariance, PTL

\* No part of the flow-control window of an HTTP/2 stream is lost or given
\* out twice, however its frames are read.
THEOREM WindowsKept == SSpec => []WindowKept
<1>1. SInv => WindowKept  BY DEF SInv
<1> QED  BY <1>1, StreamInvariance, PTL

-----------------------------------------------------------------------------
(* WriteBuffer: cutting and joining.                                       *)

\* The largest of some numbers below a bound.
LEMMA MaxUpto ==
  ASSUME NEW L \in Nat, NEW T, T \subseteq 0 .. L, T # {}
  PROVE  Max(T) \in T /\ \A i \in T : i <= Max(T)
<1> DEFINE U == {j \in 0 .. L : L - j \in T}
<1>1. U \subseteq Nat  OBVIOUS
<1>2. U # {}
  <2>1. PICK i \in T : TRUE  OBVIOUS
  <2>2. L - i \in 0 .. L /\ L - (L - i) = i  BY <2>1
  <2> QED  BY <2>1, <2>2
<1>3. PICK m \in U : \A k \in U : m <= k
  <2> HIDE DEF U
  <2> QED  BY <1>1, <1>2, LeastNumber
<1>4. L - m \in T /\ \A i \in T : L - m >= i
  <2>1. L - m \in T /\ m \in 0 .. L  BY <1>3
  <2>2. ASSUME NEW i \in T PROVE L - m >= i
    <3>1. i \in 0 .. L /\ L - i \in 0 .. L /\ L - (L - i) = i  OBVIOUS
    <3>2. L - i \in U  BY <3>1
    <3>3. m <= L - i  BY <1>3, <3>2
    <3> QED  BY <2>1, <3>1, <3>3
  <2> QED  BY <2>1, <2>2
<1>5. \E x \in T : \A y \in T : x >= y  BY <1>4
<1>6. Max(T) \in T /\ \A y \in T : Max(T) >= y  BY <1>5, Zenon DEF Max
<1>7. \A y \in T : y \in Int  OBVIOUS
<1> QED  BY <1>6, <1>7

\* Two ways of cutting a sequence in front of or behind the same place.
LEMMA SamePrefix ==
  ASSUME NEW x \in Seq(Nat), NEW y \in Seq(Nat), NEW c \in Seq(Nat), NEW z \in Seq(Nat),
         x \o y = c \o z, Len(x) <= Len(c)
  PROVE  SubSeq(c, 1, Len(x)) = x
<1> DEFINE n == Len(x)  s == SubSeq(c, 1, n)
<1>1. n \in Nat /\ n <= Len(c) /\ Len(c) \in Nat  OBVIOUS
<1>2. s \in Seq(Nat) /\ Len(s) = n /\ \A i \in 1 .. n : s[i] = c[i]
  <2> HIDE DEF n
  <2> QED  BY <1>1
<1>3. ASSUME NEW i \in 1 .. n PROVE c[i] = x[i]
  <2>1. (x \o y)[i] = x[i]  BY ConcatProperties
  <2>2. i \in 1 .. Len(c)  BY <1>1
  <2>3. (c \o z)[i] = c[i]  BY <2>2, ConcatProperties
  <2> QED  BY <2>1, <2>3, Zenon
<1> HIDE DEF s
<1>4. s = x
  <2>1. Len(s) = Len(x) /\ \A i \in 1 .. Len(x) : s[i] = x[i]  BY <1>2, <1>3, Zenon
  <2>2. s \in Seq(Nat)  BY <1>2
  <2> QED  BY <2>1, <2>2, SeqEqual
<1> QED  BY <1>4 DEF s

\* What follows the first part of a join.
LEMMA RestOfJoin ==
  ASSUME NEW x \in Seq(Nat), NEW v \in Seq(Nat)
  PROVE  SubSeq(x \o v, Len(x) + 1, Len(x \o v)) = v
<1>1. PICK w : w = x \o v  OBVIOUS
<1>2. w \in Seq(Nat) /\ Len(w) = Len(x) + Len(v)
      /\ \A i \in 1 .. Len(x) + Len(v) : w[i] = IF i <= Len(x) THEN x[i] ELSE v[i - Len(x)]
  BY <1>1, ConcatProperties, Zenon
<1>3. PICK l \in Nat, m \in Nat : l = Len(x) /\ m = Len(v)  OBVIOUS
<1>4. l \in 0 .. Len(w)  BY <1>2, <1>3
<1>5. PICK s : s = SubSeq(w, l + 1, Len(w))  OBVIOUS
<1>6. s \in Seq(Nat) /\ Len(s) = m /\ \A i \in 1 .. m : s[i] = w[l + i]
  <2>1. s \in Seq(Nat) /\ Len(s) = Len(w) - l /\ \A i \in 1 .. (Len(w) - l) : s[i] = w[l + i]
    BY <1>2, <1>4, <1>5, WithoutFirst
  <2>2. Len(w) - l = m  BY <1>2, <1>3
  <2> QED  BY <2>1, <2>2, Zenon
<1>7. ASSUME NEW i \in 1 .. m PROVE s[i] = v[i]
  <2>1. l + i \in 1 .. l + m /\ ~(l + i <= l) /\ (l + i) - l = i  OBVIOUS
  <2>2. w[l + i] = v[i]  BY <1>2, <1>3, <2>1, Zenon
  <2> QED  BY <1>6, <2>2, Zenon
<1>8. s = v
  <2>1. Len(s) = Len(v) /\ \A i \in 1 .. Len(s) : s[i] = v[i]  BY <1>3, <1>6, <1>7, Zenon
  <2>2. s \in Seq(Nat)  BY <1>6
  <2> QED  BY <2>1, <2>2, SeqEqual
<1> QED  BY <1>1, <1>3, <1>5, <1>8, Zenon

\* The rest of a buffer to which something is added.
LEMMA RestGrows ==
  ASSUME NEW b \in Seq(Nat), NEW u \in Seq(Nat), NEW p \in 0 .. Len(b)
  PROVE  SubSeq(b \o u, p + 1, Len(b \o u)) = SubSeq(b, p + 1, Len(b)) \o u
<1>1. PICK x : x = SubSeq(b, 1, p)  OBVIOUS
<1>2. PICK y : y = Rest(b, p)  OBVIOUS
<1>3. Least(p, Len(b)) = p /\ p \in Nat  BY DEF Least
<1>4. x \in Seq(Nat) /\ Len(x) = p /\ y \in Seq(Nat) /\ b = x \o y
  <2>1. Prefix(b, p) = x  BY <1>1, <1>3, Zenon DEF Prefix
  <2>2. /\ Prefix(b, p) \in Seq(Nat) /\ Len(Prefix(b, p)) = Least(p, Len(b))
        /\ Rest(b, Least(p, Len(b))) \in Seq(Nat)
        /\ b = Prefix(b, p) \o Rest(b, Least(p, Len(b)))
    BY <1>3, Cut
  <2> QED  BY <1>2, <1>3, <2>1, <2>2, Zenon
<1>5. b \o u = x \o (y \o u)  BY <1>4, Assoc
<1>6. y \o u \in Seq(Nat)  BY <1>4, JoinType
<1>7. PICK v \in Seq(Nat) : v = y \o u  BY <1>6
<1>8. SubSeq(x \o v, p + 1, Len(x \o v)) = v
  <2>1. x \in Seq(Nat) /\ Len(x) = p  BY <1>4
  <2> QED  BY <2>1, RestOfJoin
<1> QED  BY <1>2, <1>5, <1>7, <1>8, Zenon DEF Rest

\* A sequence with an element in front.
LEMMA FrontAdded ==
  \A y \in Seq(Nat), r \in Seq(Seq(Nat)) :
    /\ <<y>> \in Seq(Seq(Nat)) /\ <<y>> \o r \in Seq(Seq(Nat)) /\ Len(<<y>> \o r) = Len(r) + 1
    /\ \A i \in 1 .. Len(r) + 1 : (<<y>> \o r)[i] = IF i = 1 THEN y ELSE r[i - 1]
<1>1. ASSUME NEW S PROVE \A y \in S, r \in Seq(S) :
        /\ <<y>> \in Seq(S) /\ <<y>> \o r \in Seq(S) /\ Len(<<y>> \o r) = Len(r) + 1
        /\ \A i \in 1 .. Len(r) + 1 : (<<y>> \o r)[i] = IF i = 1 THEN y ELSE r[i - 1]
  OBVIOUS
<1> QED  BY <1>1

\* A sequence is its first k elements, the next one and the others.
LEMMA ThreeParts ==
  ASSUME NEW q \in Seq(Seq(Nat)), NEW k \in 0 .. Len(q), k # Len(q)
  PROVE  /\ SubSeq(q, 1, k) \in Seq(Seq(Nat)) /\ q[k + 1] \in Seq(Nat)
         /\ SubSeq(q, k + 2, Len(q)) \in Seq(Seq(Nat))
         /\ Len(SubSeq(q, k + 2, Len(q))) = Len(q) - k - 1
         /\ \A i \in 1 .. (Len(q) - k - 1) : SubSeq(q, k + 2, Len(q))[i] = q[k + 1 + i]
         /\ SubSeq(q, 1, k + 1) = Append(SubSeq(q, 1, k), q[k + 1])
         /\ q = Append(SubSeq(q, 1, k), q[k + 1]) \o SubSeq(q, k + 2, Len(q))
<1>1. SubSeq(q, 1, k) \in Seq(Seq(Nat)) /\ q[k + 1] \in Seq(Nat)  OBVIOUS
<1>2. k + 1 \in 0 .. Len(q) /\ (k + 1) + 1 = k + 2 /\ Len(q) - (k + 1) = Len(q) - k - 1 /\ k + 1 \in Nat  OBVIOUS
<1>3. /\ SubSeq(q, k + 2, Len(q)) \in Seq(Seq(Nat))
      /\ Len(SubSeq(q, k + 2, Len(q))) = Len(q) - k - 1
      /\ \A i \in 1 .. (Len(q) - k - 1) : SubSeq(q, k + 2, Len(q))[i] = q[k + 1 + i]
  <2>1. PICK m \in 0 .. Len(q) : m = k + 1  BY <1>2, Zenon
  <2>2. /\ SubSeq(q, m + 1, Len(q)) \in Seq(Seq(Nat))
        /\ Len(SubSeq(q, m + 1, Len(q))) = Len(q) - m
        /\ \A i \in 1 .. (Len(q) - m) : SubSeq(q, m + 1, Len(q))[i] = q[m + i]
    BY WithoutFirst
  <2>3. m + 1 = k + 2 /\ Len(q) - m = Len(q) - k - 1  BY <2>1
  <2> QED  BY <2>1, <2>2, <2>3, Zenon
<1>4. SubSeq(q, 1, k + 1) = Append(SubSeq(q, 1, k), q[k + 1])  BY SMTT(60)
<1>5. Least(k + 1, Len(q)) = k + 1
  <2>1. ~(k + 1 < Len(q)) => k + 1 = Len(q)  OBVIOUS
  <2> QED  BY <2>1, Zenon DEF Least
<1>6. q = SubSeq(q, 1, k + 1) \o SubSeq(q, k + 2, Len(q))
  <2>1. q = Prefix(q, k + 1) \o Rest(q, Least(k + 1, Len(q)))  BY <1>2, Cut, ZenonT(90)
  <2> QED  BY <1>2, <1>5, <2>1, Zenon DEF Prefix, Rest
<1> QED  BY <1>1, <1>3, <1>4, <1>6, Zenon

\* The queue of a buffer.
Buffers(q) == q \in Seq(Seq(Nat)) /\ \A i \in DOMAIN q : q[i] # <<>>

\* BufList::advance on a queue q.
DroppedFrom(q, n) ==
  LET k == Max({i \in 0 .. Len(q) : Total(First(q, i)) <= n})
      part == n - Total(First(q, k))
  IN  IF k = Len(q) THEN <<>>
      ELSE <<SubSeq(q[k + 1], part + 1, Len(q[k + 1]))>> \o SubSeq(q, k + 2, Len(q))

\* It takes n bytes off the front, and leaves no empty buffer.
LEMMA DropsExactly ==
  ASSUME NEW q, Buffers(q), NEW n \in 0 .. Len(FlattenSeq(q))
  PROVE  /\ Buffers(DroppedFrom(q, n)) /\ Len(DroppedFrom(q, n)) <= Len(q)
         /\ \E x \in Seq(Nat) : Len(x) = n /\ FlattenSeq(q) = x \o FlattenSeq(DroppedFrom(q, n))
<1> DEFINE T == {i \in 0 .. Len(q) : Total(First(q, i)) <= n}
<1>1. q \in Seq(Seq(Nat)) /\ Len(q) \in Nat /\ \A i \in 1 .. Len(q) : q[i] # <<>>  BY DEF Buffers
<1>2. FlattenSeq(q) \in Seq(Nat) /\ Len(FlattenSeq(q)) \in Nat
  <2>1. FlattenSeq(q) \in Seq(Nat)  BY <1>1, FlattenType
  <2> QED  BY <2>1
<1>3. \A i \in 0 .. Len(q) : First(q, i) = SubSeq(q, 1, i)
  <2> TAKE i \in 0 .. Len(q)
  <2>1. (IF i < Len(q) THEN i ELSE Len(q)) = i  BY <1>1
  <2> QED  BY <2>1, Zenon DEF First
<1>4. 0 \in T
  <2>1. 0 \in 0 .. Len(q) /\ SubSeq(q, 1, 0) = <<>> /\ Len(<<>>) = 0 /\ 0 <= n  BY <1>1, <1>2
  <2>2. Total(First(q, 0)) = 0  BY <1>3, <2>1, FlattenEmpty, Zenon DEF Total
  <2> QED  BY <2>1, <2>2
<1>5. PICK k : k = Max(T)  OBVIOUS
<1>6. k \in T /\ \A i \in T : i <= k
  <2>1. T \subseteq 0 .. Len(q) /\ T # {}  BY <1>4
  <2> HIDE DEF T
  <2> QED  BY <1>1, <1>5, <2>1, MaxUpto
<1>7. k \in 0 .. Len(q) /\ Total(First(q, k)) <= n  BY <1>6
<1>8. First(q, k) = SubSeq(q, 1, k)  BY <1>3, <1>7
<1>9. CASE k = Len(q)
  <2>1. DroppedFrom(q, n) = <<>>  BY <1>5, <1>9, Zenon DEF DroppedFrom
  <2>2. SubSeq(q, 1, Len(q)) = q  BY <1>1, SubSeqFull
  <2>3. Len(FlattenSeq(q)) <= n  BY <1>7, <1>8, <1>9, <2>2, Zenon DEF Total
  <2>4. Len(FlattenSeq(q)) = n  BY <1>2, <2>3
  <2>5. FlattenSeq(q) = FlattenSeq(q) \o FlattenSeq(<<>>)  BY <1>2, FlattenEmpty, Unit, Zenon
  <2>6. Buffers(<<>>) /\ Len(<<>>) <= Len(q)  BY <1>1 DEF Buffers
  <2> QED  BY <1>2, <2>1, <2>4, <2>5, <2>6, Zenon
<1>10. CASE k # Len(q)
  <2>1. PICK a, h, r : a = SubSeq(q, 1, k) /\ h = q[k + 1] /\ r = SubSeq(q, k + 2, Len(q))  OBVIOUS
  <2>2. /\ a \in Seq(Seq(Nat)) /\ h \in Seq(Nat) /\ r \in Seq(Seq(Nat))
        /\ Len(r) = Len(q) - k - 1
        /\ \A i \in 1 .. (Len(q) - k - 1) : r[i] = q[k + 1 + i]
        /\ SubSeq(q, 1, k + 1) = Append(a, h)
        /\ q = Append(a, h) \o r
    BY <1>1, <1>7, <1>10, <2>1, ThreeParts
  <2>3. PICK f \in Seq(Nat), g \in Seq(Nat) : f = FlattenSeq(a) /\ g = FlattenSeq(r)
    BY <2>2, FlattenType
  <2>4. FlattenSeq(Append(a, h)) = f \o h  BY <2>2, <2>3, FlattenAppend
  <2>5. Append(a, h) \in Seq(Seq(Nat))  BY <2>2, AppendProperties
  <2>6. FlattenSeq(q) = (f \o h) \o g  BY <2>2, <2>3, <2>4, <2>5, FlattenConcat
  <2>7. Len(f) <= n /\ n < Len(f) + Len(h)
    <3>1. Total(First(q, k)) = Len(f)  BY <1>8, <2>1, <2>3, Zenon DEF Total
    <3>2. k + 1 \in 0 .. Len(q) /\ ~(k + 1 <= k)  BY <1>1, <1>7, <1>10
    <3>3. ~(Total(First(q, k + 1)) <= n)
      <4>1. k + 1 \notin T
        <5> HIDE DEF T
        <5> QED  BY <1>6, <3>2, Zenon
      <4> QED  BY <3>2, <4>1
    <3>4. Total(First(q, k + 1)) = Len(f \o h)  BY <1>3, <2>2, <2>4, <3>2, Zenon DEF Total
    <3>5. Len(f \o h) = Len(f) + Len(h)  BY <2>2, JoinLen
    <3>6. Len(f) \in Nat /\ Len(h) \in Nat /\ n \in Int  BY <2>2, <1>2
    <3> QED  BY <1>7, <3>1, <3>3, <3>4, <3>5, <3>6
  <2>8. PICK m \in Nat : m = n - Len(f) /\ m < Len(h)
    <3>1. Len(f) \in Nat /\ Len(h) \in Nat /\ n \in Int  BY <2>2, <1>2
    <3>2. n - Len(f) \in Nat /\ n - Len(f) < Len(h)  BY <2>7, <3>1
    <3> QED  BY <3>2, Zenon
  <2>9. PICK y : y = SubSeq(h, m + 1, Len(h))  OBVIOUS
  <2>10. PICK z \in Seq(Nat) : /\ z = Prefix(h, m) /\ Len(z) = m /\ h = z \o y /\ y \in Seq(Nat)
                               /\ Len(y) = Len(h) - m
    <3>1. Least(m, Len(h)) = m  BY <2>2, <2>8 DEF Least
    <3>2. Rest(h, Least(m, Len(h))) = y  BY <2>9, <3>1, Zenon DEF Rest
    <3>3. /\ Prefix(h, m) \in Seq(Nat) /\ Len(Prefix(h, m)) = Least(m, Len(h))
          /\ Rest(h, Least(m, Len(h))) \in Seq(Nat)
          /\ Len(Rest(h, Least(m, Len(h)))) = Len(h) - Least(m, Len(h))
          /\ h = Prefix(h, m) \o Rest(h, Least(m, Len(h)))
      BY <2>2, <2>8, Cut
    <3> QED  BY <3>1, <3>2, <3>3, Zenon
  <2>11. DroppedFrom(q, n) = <<y>> \o r
    <3>1. Total(First(q, k)) = Len(f)  BY <1>8, <2>1, <2>3, Zenon DEF Total
    <3> QED  BY <1>5, <1>10, <2>1, <2>8, <2>9, <3>1, Zenon DEF DroppedFrom
  <2>12. y # <<>>
    <3>1. Len(y) # 0  BY <2>2, <2>8, <2>10
    <3> QED  BY <3>1
  <2>13. <<y>> \in Seq(Seq(Nat)) /\ <<y>> \o r \in Seq(Seq(Nat)) /\ Len(<<y>> \o r) = Len(r) + 1
         /\ \A i \in 1 .. Len(r) + 1 : (<<y>> \o r)[i] = IF i = 1 THEN y ELSE r[i - 1]
    <3>1. y \in Seq(Nat) /\ r \in Seq(Seq(Nat))  BY <2>2, <2>10
    <3> QED  BY <3>1, FrontAdded, ZenonT(90)
  <2>14. Buffers(<<y>> \o r) /\ Len(<<y>> \o r) <= Len(q)
    <3>1. PICK s : s = <<y>> \o r  OBVIOUS
    <3>2. s \in Seq(Seq(Nat)) /\ Len(s) = Len(r) + 1 /\ \A i \in 1 .. Len(r) + 1 : s[i] = IF i = 1 THEN y ELSE r[i - 1]
      BY <2>13, <3>1, Zenon
    <3>3. ASSUME NEW i \in 1 .. Len(r) + 1 PROVE s[i] # <<>>
      <4>1. CASE i = 1  BY <2>12, <3>2, <4>1
      <4>2. CASE i # 1
        <5>1. i - 1 \in 1 .. (Len(q) - k - 1) /\ k + 1 + (i - 1) \in 1 .. Len(q)
          BY <1>1, <1>7, <1>10, <2>2, <4>2
        <5>2. s[i] = q[k + 1 + (i - 1)]  BY <2>2, <3>2, <4>2, <5>1, Zenon
        <5> QED  BY <1>1, <5>1, <5>2, Zenon
      <4> QED  BY <4>1, <4>2
    <3>4. DOMAIN s = 1 .. Len(r) + 1  BY <3>2
    <3>5. Buffers(s)  BY <3>2, <3>3, <3>4, Zenon DEF Buffers
    <3>6. Len(s) <= Len(q)
      <4>1. Len(q) \in Nat /\ k \in Nat  BY <1>1, <1>7
      <4>2. Len(r) = Len(q) - (k + 1)  BY <1>1, <1>7, <2>2
      <4> QED  BY <3>2, <4>1, <4>2
    <3> QED  BY <3>1, <3>5, <3>6, Zenon
  <2>15. FlattenSeq(<<y>> \o r) = y \o g
    <3>1. FlattenSeq(<<y>>) = y  BY <2>10, FlattenOne
    <3>2. FlattenSeq(<<y>> \o r) = FlattenSeq(<<y>>) \o FlattenSeq(r)  BY <2>2, <2>13, FlattenConcat, ZenonT(90)
    <3> QED  BY <2>3, <3>1, <3>2, Zenon
  <2>16. PICK x \in Seq(Nat) : x = f \o z /\ Len(x) = n
    <3>1. f \o z \in Seq(Nat) /\ Len(f \o z) = Len(f) + Len(z)  BY JoinType, JoinLen
    <3>2. Len(f) + Len(z) = n
      <4>1. Len(f) \in Nat /\ n \in Int  BY <1>2
      <4> QED  BY <2>8, <2>10, <4>1
    <3> QED  BY <3>1, <3>2, Zenon
  <2>17. (f \o h) \o g = x \o (y \o g)
    <3>1. f \o (z \o y) = (f \o z) \o y  BY <2>10, Assoc, ZenonT(90)
    <3>2. (x \o y) \o g = x \o (y \o g)  BY <2>10, Assoc, ZenonT(90)
    <3> QED  BY <2>10, <2>16, <3>1, <3>2, Zenon
  <2>18. FlattenSeq(q) = x \o FlattenSeq(<<y>> \o r)  BY <2>6, <2>15, <2>17, Zenon
  <2> QED  BY <2>11, <2>14, <2>16, <2>18, Zenon
<1> QED  BY <1>9, <1>10, Zenon

\* The first M slices of a head and the queue q are the front of what waits.
Shows(r, q, M, front) ==
  /\ FlattenSeq(First(front \o q, M)) \in Seq(Nat)
  /\ \E z \in Seq(Nat) : FlattenSeq(First(front \o q, M)) \o z = r \o FlattenSeq(q)

\* What one write is shown is the front of what waits.
LEMMA ShownInOrder ==
  ASSUME NEW r \in Seq(Nat), NEW q \in Seq(Seq(Nat)), NEW M \in Nat, NEW front,
         front = IF Len(r) > 0 THEN <<r>> ELSE <<>>
  PROVE  Shows(r, q, M, front)
<1>1. front \in Seq(Seq(Nat)) /\ FlattenSeq(front) = r
  <2>1. CASE Len(r) > 0
    <3>1. front = <<r>>  BY <2>1
    <3>2. <<r>> \in Seq(Seq(Nat))  OBVIOUS
    <3> QED  BY <3>1, <3>2, FlattenOne, Zenon
  <2>2. CASE ~(Len(r) > 0)
    <3>1. front = <<>> /\ r = <<>>  BY <2>2
    <3>2. <<>> \in Seq(Seq(Nat))  OBVIOUS
    <3> QED  BY <3>1, <3>2, FlattenEmpty, Zenon
  <2> QED  BY <2>1, <2>2, Zenon
<1>2. PICK l \in Seq(Seq(Nat)) : l = front \o q
  <2>1. \A S : \A x, y \in Seq(S) : x \o y \in Seq(S)  BY Joins, Zenon
  <2>2. front \o q \in Seq(Seq(Nat))  BY <1>1, <2>1, Zenon
  <2> QED  BY <2>2, Zenon
<1>3. FlattenSeq(l) = r \o FlattenSeq(q)
  <2>1. FlattenSeq(front \o q) = FlattenSeq(front) \o FlattenSeq(q)  BY <1>1, FlattenConcat
  <2> QED  BY <1>1, <1>2, <2>1, Zenon
<1>4. PICK m \in 0 .. Len(l) : m = IF M < Len(l) THEN M ELSE Len(l)
  <2>1. Len(l) \in Nat  BY <1>2
  <2> QED  BY <2>1, SMTT(60)
<1>5. First(l, M) = SubSeq(l, 1, m)  BY <1>4, Zenon DEF First
<1>6. SubSeq(l, 1, m) \in Seq(Seq(Nat)) /\ Rest(l, m) \in Seq(Seq(Nat)) /\ l = SubSeq(l, 1, m) \o Rest(l, m)
  <2>1. Least(m, Len(l)) = m /\ m \in Nat
    <3>1. Len(l) \in Nat /\ m \in Nat  BY <1>2
    <3>2. ~(m < Len(l)) => m = Len(l)  BY <1>4, <3>1
    <3> QED  BY <3>1, <3>2, Zenon DEF Least
  <2>2. /\ Prefix(l, m) \in Seq(Seq(Nat)) /\ Rest(l, Least(m, Len(l))) \in Seq(Seq(Nat))
        /\ l = Prefix(l, m) \o Rest(l, Least(m, Len(l)))
    <3>1. m \in Nat  BY <2>1
    <3> QED  BY <3>1, Cut, SMTT(30)
  <2>3. Prefix(l, m) = SubSeq(l, 1, m)  BY <2>1, Zenon DEF Prefix
  <2> QED  BY <2>1, <2>2, <2>3, Zenon
<1>7. FlattenSeq(SubSeq(l, 1, m)) \in Seq(Nat) /\ FlattenSeq(Rest(l, m)) \in Seq(Nat)  BY <1>6, FlattenType
<1>8. FlattenSeq(SubSeq(l, 1, m) \o Rest(l, m)) = FlattenSeq(SubSeq(l, 1, m)) \o FlattenSeq(Rest(l, m))
  BY <1>6, FlattenConcat
<1> QED  BY <1>2, <1>3, <1>5, <1>6, <1>7, <1>8, Zenon DEF Shows

\* Advancing inside the headers.
LEMMA HeadAdvances ==
  ASSUME NEW b \in Seq(Nat), NEW p \in 0 .. Len(b), NEW n \in Nat, n < Len(b) - p
  PROVE  \E x \in Seq(Nat) : /\ Len(x) = n
                             /\ SubSeq(b, p + 1, Len(b)) = x \o SubSeq(b, p + n + 1, Len(b))
<1>1. p + n \in 0 .. Len(b) /\ p \in Nat /\ p + n \in Nat /\ Len(b) \in Nat  OBVIOUS
<1>2. PICK u, v \in Seq(Nat) : b = u \o v /\ Len(u) = p + n /\ v = SubSeq(b, p + n + 1, Len(b))
  <2>1. Least(p + n, Len(b)) = p + n  BY <1>1 DEF Least
  <2>2. /\ Prefix(b, p + n) \in Seq(Nat) /\ Len(Prefix(b, p + n)) = Least(p + n, Len(b))
        /\ Rest(b, Least(p + n, Len(b))) \in Seq(Nat)
        /\ b = Prefix(b, p + n) \o Rest(b, Least(p + n, Len(b)))
    BY <1>1, Cut
  <2> QED  BY <2>1, <2>2, Zenon DEF Rest
<1>3. PICK w, x \in Seq(Nat) : u = w \o x /\ Len(w) = p /\ Len(x) = n
  <2>1. Least(p, Len(u)) = p  BY <1>1, <1>2 DEF Least
  <2>2. /\ Prefix(u, p) \in Seq(Nat) /\ Len(Prefix(u, p)) = Least(p, Len(u))
        /\ Rest(u, Least(p, Len(u))) \in Seq(Nat)
        /\ Len(Rest(u, Least(p, Len(u)))) = Len(u) - Least(p, Len(u))
        /\ u = Prefix(u, p) \o Rest(u, Least(p, Len(u)))
    BY <1>1, <1>2, Cut
  <2>3. Len(u) - p = n  BY <1>1, <1>2
  <2> QED  BY <2>1, <2>2, <2>3, Zenon
<1>4. b = w \o (x \o v)  BY <1>2, <1>3, Assoc, ZenonT(90)
<1>5. PICK y \in Seq(Nat) : y = x \o v  BY <1>2, <1>3, JoinType, Zenon
<1>6. SubSeq(w \o y, Len(w) + 1, Len(w \o y)) = y  BY <1>3, <1>5, RestOfJoin
<1> QED  BY <1>2, <1>3, <1>4, <1>5, <1>6, Zenon

-----------------------------------------------------------------------------
(* The inductive invariant of WriteBuffer.                                 *)

\* The variables have their types.
WTypeOK ==
  /\ flatten \in BOOLEAN /\ mid \in BOOLEAN /\ failed \in BOOLEAN
  /\ bytes \in Seq(Nat) /\ taken \in Seq(Nat) /\ pos \in 0 .. Len(bytes) /\ cap \in Nat
  /\ bufs \in Seq(Seq(Nat)) /\ qrem \in Nat /\ ahead \in Nat /\ given \in Nat

\* The inductive invariant: what the heads since the last body add is what
\* the bound leaves open, and nothing else can.
WInv == WTypeOK /\ WriteExact

\* What waits, in numbers.
LEMMA WaitingFacts ==
  ASSUME WTypeOK, OrderKept
  PROVE  /\ Len(taken) + Remaining = given /\ Len(taken) \in Nat /\ Remaining \in Nat
         /\ HeadRem \in Nat /\ qrem = Total(bufs) /\ Total(bufs) \in Nat
<1>1. PICK t \in Seq(Nat), b \in Seq(Nat), q \in Seq(Seq(Nat)), a \in Nat :
        t = taken /\ b = bytes /\ q = bufs /\ a = given
  BY Zenon DEF WTypeOK
<1>2. PICK p \in 0 .. Len(b) : p = pos  BY <1>1, Zenon DEF WTypeOK
<1>3. t \o SubSeq(b, p + 1, Len(b)) \o FlattenSeq(q) = [i \in 1 .. a |-> i]
  BY <1>1, <1>2, Zenon DEF OrderKept
<1>4. /\ Len(t) + ((Len(b) - p) + Total(q)) = a
      /\ Len(t) \in Nat /\ Len(b) - p \in Nat /\ Total(q) \in Nat
  <2>1. PICK r \in Seq(Nat) : r = SubSeq(b, p + 1, Len(b)) /\ Len(r) = Len(b) - p
    <3>1. SubSeq(b, p + 1, Len(b)) \in Seq(Nat) /\ Len(SubSeq(b, p + 1, Len(b))) = Len(b) - p  BY WithoutFirst
    <3> QED  BY <3>1, Zenon
  <2>2. PICK f \in Seq(Nat) : f = FlattenSeq(q)
    <3>1. FlattenSeq(q) \in Seq(Nat)  BY FlattenType
    <3> QED  BY <3>1, Zenon
  <2>3. PICK s : s = [i \in 1 .. a |-> i]  OBVIOUS
  <2>4. Len(s) = a  BY <2>3
  <2>5. t \o r \o f = s  BY <1>3, <2>1, <2>2, <2>3, Zenon
  <2>6. Len(t \o r \o f) = Len(t) + Len(r) + Len(f)
    <3>1. t \o r \in Seq(Nat)  BY JoinType, Zenon
    <3>2. Len(t \o r) = Len(t) + Len(r) /\ Len(t \o r \o f) = Len(t \o r) + Len(f)  BY <3>1, JoinLen, Zenon
    <3> QED  BY <3>2, Zenon
  <2>7. PICK lt, lr, lf \in Nat : lt = Len(t) /\ lr = Len(r) /\ lf = Len(f)
    <3>1. Len(t) \in Nat /\ Len(r) \in Nat /\ Len(f) \in Nat  BY <2>1, <2>2, SMTT(30)
    <3> QED  BY <3>1, Zenon
  <2>8. lt + lr + lf = a  BY <2>4, <2>5, <2>6, <2>7, Zenon
  <2>9. lt + (lr + lf) = a  BY <2>8
  <2> QED  BY <2>1, <2>2, <2>7, <2>9, Zenon DEF Total
<1>5. PICK l \in Nat, h \in Nat, f \in Nat : l = Len(t) /\ h = Len(b) - p /\ f = Total(q)  BY <1>4, Zenon
<1>6. qrem = f /\ HeadRem = h /\ Remaining = h + f
  BY <1>1, <1>2, <1>5, Zenon DEF OrderKept, HeadRem, Remaining
<1>7. h + f \in Nat  OBVIOUS
<1> QED  BY <1>1, <1>2, <1>4, <1>5, <1>6, <1>7, Zenon

\* The largest lengths.
LEMMA Lengths ==
  /\ \A n \in HeadLens : n \in Nat \ {0}
  /\ Max(FrameLens) \in Nat /\ \A n \in FrameLens : n \in Nat \ {0} /\ n <= Max(FrameLens)
  /\ BodyMost \in Nat
<1>1. Max(FrameLens) \in FrameLens /\ \A n \in FrameLens : Max(FrameLens) >= n
  <2>1. \E m \in FrameLens : \A n \in FrameLens : m >= n  BY WriteAssumption
  <2> QED  BY <2>1, Zenon DEF Max
<1>2. Max(FrameLens) \in Nat /\ \A n \in FrameLens : n \in Nat \ {0} /\ n <= Max(FrameLens)
  BY <1>1, WriteAssumption
<1>3. BodyMost \in Nat  BY <1>2, WriteAssumption DEF BodyMost
<1> QED  BY <1>2, <1>3, WriteAssumption

\* Numbers from one.
LEMMA CountedIs == \A a \in Nat : [i \in 1 .. a |-> i] = Numbered(0, a)
BY DEF Numbered

\* The invariant holds initially.
LEMMA WriteInit == WInit => WInv
<1> SUFFICES ASSUME WInit PROVE WInv  OBVIOUS
<1> USE WriteAssumption
<1>1. WTypeOK
  <2>1. <<>> \in Seq(Nat) /\ <<>> \in Seq(Seq(Nat)) /\ 0 \in 0 .. Len(<<>>)  OBVIOUS
  <2>2. 0 \in Nat /\ InitCap \in Nat /\ FALSE \in BOOLEAN  OBVIOUS
  <2> QED  BY <2>1, <2>2, Zenon DEF WInit, WTypeOK
<1>2. OrderKept
  <2>1. SubSeq(<<>>, 1, Len(<<>>)) = <<>> /\ <<>> \o <<>> \o <<>> = <<>> /\ [i \in 1 .. 0 |-> i] = <<>> /\ Len(<<>>) = 0
    OBVIOUS
  <2>2. 0 + 1 = 1 /\ DOMAIN <<>> = {}  OBVIOUS
  <2> QED  BY <2>1, <2>2, FlattenEmpty, Zenon DEF WInit, OrderKept, Total
<1>3. Remaining = 0 /\ Len(bufs) = 0
  <2>1. Len(<<>>) = 0  OBVIOUS
  <2> QED  BY <2>1 DEF WInit, Remaining, HeadRem
<1>4. BufferBounded
  <2>1. ahead = 0  BY Zenon DEF WInit
  <2> QED  BY <1>3, <2>1, Lengths DEF BufferBounded
<1> QED  BY <1>1, <1>2, <1>4 DEF WInv, WriteExact

\* What was given is counted: nothing but a longer line counts further.
LEMMA GivenGrows ==
  ASSUME NEW x \in Seq(Nat), NEW a \in Nat, NEW n \in Nat, x = [i \in 1 .. a |-> i]
  PROVE  x \o [i \in 1 .. n |-> a + i] = [i \in 1 .. a + n |-> i]
<1>1. Numbered(0, a) \o Numbered(a, n) = Numbered(0, a + n)  BY Numbers
<1>2. [i \in 1 .. n |-> a + i] = Numbered(a, n)  BY DEF Numbered
<1>3. a + n \in Nat  OBVIOUS
<1>4. [i \in 1 .. a |-> i] = Numbered(0, a) /\ [i \in 1 .. a + n |-> i] = Numbered(0, a + n)
  BY <1>3, CountedIs, Zenon
<1> QED  BY <1>1, <1>2, <1>4, Zenon

\* n more bytes u in the headers b, of which c is left to be written, with
\* nothing in the queue: in place, and behind what is left of them.
Grows(t, b, p, a, n, u, c) ==
  /\ u = [i \in 1 .. n |-> a + i] => b \o u \in Seq(Nat) /\ Len(b \o u) = Len(b) + n
  /\ u = [i \in 1 .. n |-> a + i] /\ c = SubSeq(b, p + 1, Len(b))
       => c \o u \in Seq(Nat) /\ Len(c \o u) = Len(b) - p + n
  /\ u = [i \in 1 .. n |-> a + i] /\ c = SubSeq(b, p + 1, Len(b)) /\ t \o c \o <<>> = [i \in 1 .. a |-> i]
       => /\ t \o SubSeq(b \o u, p + 1, Len(b \o u)) \o <<>> = [i \in 1 .. a + n |-> i]
          /\ t \o SubSeq(c \o u, 0 + 1, Len(c \o u)) \o <<>> = [i \in 1 .. a + n |-> i]

\* They keep the order.
LEMMA HeadersGrow ==
  ASSUME NEW t \in Seq(Nat), NEW b \in Seq(Nat), NEW p \in 0 .. Len(b), NEW a \in Nat, NEW n \in Nat,
         NEW u, NEW c
  PROVE  Grows(t, b, p, a, n, u, c)
<1>1. PICK v \in Seq(Nat) : v = [i \in 1 .. n |-> a + i] /\ Len(v) = n
  <2>1. [i \in 1 .. n |-> a + i] \in Seq(Nat) /\ Len([i \in 1 .. n |-> a + i]) = n  OBVIOUS
  <2> QED  BY <2>1, Zenon
<1>2. PICK d \in Seq(Nat) : d = SubSeq(b, p + 1, Len(b)) /\ Len(d) = Len(b) - p
  <2>1. SubSeq(b, p + 1, Len(b)) \in Seq(Nat) /\ Len(SubSeq(b, p + 1, Len(b))) = Len(b) - p  BY WithoutFirst
  <2> QED  BY <2>1, Zenon
<1>3. b \o v \in Seq(Nat) /\ Len(b \o v) = Len(b) + n /\ d \o v \in Seq(Nat) /\ Len(d \o v) = Len(b) - p + n
  <2>1. b \o v \in Seq(Nat) /\ d \o v \in Seq(Nat)  BY JoinType, Zenon
  <2>2. Len(b \o v) = Len(b) + Len(v) /\ Len(d \o v) = Len(d) + Len(v)  BY JoinLen, Zenon
  <2> QED  BY <1>1, <1>2, <2>1, <2>2, Zenon
<1>4. SubSeq(b \o v, p + 1, Len(b \o v)) = d \o v  BY <1>2, RestGrows, Zenon
<1>5. SubSeq(d \o v, 1, Len(d \o v)) = d \o v  BY <1>3, SubSeqFull, Zenon
<1>6. t \o d \in Seq(Nat) /\ t \o (d \o v) \in Seq(Nat)  BY <1>3, JoinType, Zenon
<1>7. t \o d \o <<>> = t \o d  BY <1>6, Unit, Zenon
<1>8. t \o d = [i \in 1 .. a |-> i] => (t \o d) \o v = [i \in 1 .. a + n |-> i]
  <2>1. PICK x \in Seq(Nat) : x = t \o d  BY <1>6, Zenon
  <2>3. x = [i \in 1 .. a |-> i] => x \o [i \in 1 .. n |-> a + i] = [i \in 1 .. a + n |-> i]  BY GivenGrows, Zenon
  <2> QED  BY <1>1, <2>1, <2>3, Zenon
<1>9. t \o d \o <<>> = [i \in 1 .. a |-> i] => t \o (d \o v) \o <<>> = [i \in 1 .. a + n |-> i]
  <2>1. (t \o d) \o v = t \o (d \o v)  BY Assoc, ZenonT(90)
  <2>2. t \o (d \o v) \o <<>> = t \o (d \o v)  BY <1>6, Unit, Zenon
  <2> QED  BY <1>7, <1>8, <2>1, <2>2, Zenon
<1>10. 0 + 1 = 1  OBVIOUS
<1> QED  BY <1>1, <1>2, <1>3, <1>4, <1>5, <1>9, <1>10, Zenon DEF Grows

\* One buffer of n bytes more in the queue q, behind x.
OneMore(x, q, a, n) ==
  LET r == Append(q, [i \in 1 .. n |-> a + i])
  IN  /\ Buffers(r) /\ Len(r) = Len(q) + 1 /\ Total(r) = Total(q) + n
      /\ x \o FlattenSeq(q) = [i \in 1 .. a |-> i] => x \o FlattenSeq(r) = [i \in 1 .. a + n |-> i]

\* It keeps the order.
LEMMA QueueGrows ==
  ASSUME NEW x \in Seq(Nat), NEW q \in Seq(Seq(Nat)), Buffers(q), NEW a \in Nat, NEW n \in Nat \ {0}
  PROVE  OneMore(x, q, a, n)
<1>1. q \in Seq(Seq(Nat)) /\ \A i \in 1 .. Len(q) : q[i] # <<>>  BY DEF Buffers
<1>2. PICK u \in Seq(Nat) : u = [i \in 1 .. n |-> a + i] /\ Len(u) = n
  <2>1. [i \in 1 .. n |-> a + i] \in Seq(Nat) /\ Len([i \in 1 .. n |-> a + i]) = n  OBVIOUS
  <2> QED  BY <2>1, Zenon
<1>3. u # <<>>  BY <1>2
<1>4. PICK r : r = Append(q, u)  OBVIOUS
<1>5. /\ r \in Seq(Seq(Nat)) /\ Len(r) = Len(q) + 1 /\ (\A i \in 1 .. Len(q) : r[i] = q[i]) /\ r[Len(q) + 1] = u
  BY <1>1, <1>4, AppendProperties
<1>6. Buffers(r)
  <2>1. DOMAIN r = 1 .. Len(q) + 1
    <3>1. r \in Seq(Seq(Nat))  BY <1>5
    <3>2. DOMAIN r = 1 .. Len(r)  BY <3>1, LenProperties
    <3> QED  BY <1>5, <3>2, Zenon
  <2>2. ASSUME NEW i \in 1 .. Len(q) + 1 PROVE r[i] # <<>>
    <3>0. PICK l \in Nat : l = Len(q)  BY LenProperties
    <3>1. i \in 1 .. l \/ i = l + 1  BY <3>0, SMTT(30)
    <3> QED  BY <1>1, <1>3, <3>0, <1>5, <3>1, Zenon
  <2> QED  BY <1>5, <2>1, <2>2, Zenon DEF Buffers
<1>7. PICK f \in Seq(Nat) : f = FlattenSeq(q)
  <2>1. FlattenSeq(q) \in Seq(Nat)  BY <1>1, FlattenType
  <2> QED  BY <2>1, Zenon
<1>8. FlattenSeq(r) = f \o u  BY <1>1, <1>4, <1>7, FlattenAppend
<1>9. (x \o f) \o u = x \o (f \o u) /\ x \o f \in Seq(Nat)  BY Assoc, JoinType, ZenonT(90)
<1>10. x \o f = [i \in 1 .. a |-> i] => (x \o f) \o u = [i \in 1 .. a + n |-> i]
  <2>1. PICK y \in Seq(Nat) : y = x \o f  BY <1>9, Zenon
  <2>2. n \in Nat  OBVIOUS
  <2>3. y = [i \in 1 .. a |-> i] => y \o [i \in 1 .. n |-> a + i] = [i \in 1 .. a + n |-> i]
    BY <2>2, GivenGrows, Zenon
  <2> QED  BY <1>2, <2>1, <2>3, Zenon
<1>11. /\ x \o FlattenSeq(q) = [i \in 1 .. a |-> i] => x \o FlattenSeq(r) = [i \in 1 .. a + n |-> i]
       /\ Total(r) = Total(q) + n
  <2>1. Len(f \o u) = Len(f) + Len(u)  BY JoinLen, Zenon
  <2> QED  BY <1>2, <1>7, <1>8, <1>9, <1>10, <2>1, Zenon DEF Total
<1> QED  BY <1>2, <1>4, <1>5, <1>6, <1>11, Zenon DEF OneMore

\* A step that adds n bytes to the headers, with nothing in the queue.
ToHeaders(n) ==
  /\ \/ bytes' = bytes \o Fresh(n) /\ pos' = pos
     \/ bytes' = SubSeq(bytes, pos + 1, Len(bytes)) \o Fresh(n) /\ pos' = 0
  /\ given' = given + n /\ UNCHANGED <<flatten, bufs, qrem, taken>>

\* It keeps the order, and n bytes more wait.
LEMMA HeadersAppended ==
  ASSUME WTypeOK, OrderKept, FlattenSeq(bufs) = <<>>, NEW n \in Nat, ToHeaders(n)
  PROVE  /\ OrderKept' /\ bytes' \in Seq(Nat) /\ pos' \in 0 .. Len(bytes')
         /\ given' \in Nat /\ Remaining' = Remaining + n
<1>1. PICK t \in Seq(Nat), b \in Seq(Nat), a \in Nat : t = taken /\ b = bytes /\ a = given
  BY Zenon DEF WTypeOK
<1>2. PICK p \in 0 .. Len(b) : p = pos  BY <1>1, Zenon DEF WTypeOK
<1>3. PICK u, c : u = [i \in 1 .. n |-> a + i] /\ c = SubSeq(b, p + 1, Len(b))  OBVIOUS
<1>4. t \o c \o <<>> = [i \in 1 .. a |-> i]  BY <1>1, <1>2, <1>3, Zenon DEF OrderKept
<1>5. Grows(t, b, p, a, n, u, c)  BY HeadersGrow
<1>6. /\ b \o u \in Seq(Nat) /\ Len(b \o u) = Len(b) + n
      /\ c \o u \in Seq(Nat) /\ Len(c \o u) = Len(b) - p + n
      /\ t \o SubSeq(b \o u, p + 1, Len(b \o u)) \o <<>> = [i \in 1 .. a + n |-> i]
      /\ t \o SubSeq(c \o u, 0 + 1, Len(c \o u)) \o <<>> = [i \in 1 .. a + n |-> i]
  BY <1>3, <1>4, <1>5, Zenon DEF Grows
<1>7. Fresh(n) = u  BY <1>1, <1>3, Zenon DEF Fresh
<1>8. (bytes' = b \o u /\ pos' = p) \/ (bytes' = c \o u /\ pos' = 0)
  <2>1. \/ bytes' = bytes \o Fresh(n) /\ pos' = pos
        \/ bytes' = SubSeq(bytes, pos + 1, Len(bytes)) \o Fresh(n) /\ pos' = 0
    BY Zenon DEF ToHeaders
  <2>2. c = SubSeq(bytes, pos + 1, Len(bytes))  BY <1>1, <1>2, <1>3, Zenon
  <2> QED  BY <1>1, <1>2, <1>7, <2>1, <2>2, Zenon
<1>9. given' = a + n /\ UNCHANGED <<flatten, bufs, qrem, taken>>  BY <1>1, Zenon DEF ToHeaders
<1>10. PICK l \in Nat, h \in Nat, g \in Nat : l = Len(b) /\ h = p /\ g = qrem /\ h <= l
  <2>1. Len(b) \in Nat /\ p \in Nat /\ p <= Len(b)  OBVIOUS
  <2>2. qrem \in Nat  BY DEF WTypeOK
  <2> QED  BY <2>1, <2>2, Zenon
<1>11. Remaining = (l - h) + g  BY <1>1, <1>2, <1>10, Zenon DEF Remaining, HeadRem
<1>12. /\ bytes' \in Seq(Nat)
       /\ t \o SubSeq(bytes', pos' + 1, Len(bytes')) \o <<>> = [i \in 1 .. a + n |-> i]
  BY <1>6, <1>8, Zenon
<1>13. OrderKept'
  <2>1. taken' \o SubSeq(bytes', pos' + 1, Len(bytes')) \o FlattenSeq(bufs') = [i \in 1 .. given' |-> i]
    BY <1>1, <1>9, <1>12, Zenon
  <2> QED  BY <1>9, <2>1, Zenon DEF OrderKept, Total
<1>14. pos' \in 0 .. Len(bytes') /\ Remaining' = Remaining + n
  <2>1. CASE bytes' = b \o u /\ pos' = p
    <3>1. Len(bytes') = l + n /\ pos' = h  BY <1>6, <1>10, <2>1, Zenon
    <3>2. Remaining' = ((l + n) - h) + g  BY <1>9, <1>10, <3>1, Zenon DEF Remaining, HeadRem
    <3>3. h \in 0 .. (l + n) /\ ((l + n) - h) + g = ((l - h) + g) + n  BY <1>10
    <3> QED  BY <1>11, <3>1, <3>2, <3>3, Zenon
  <2>2. CASE bytes' = c \o u /\ pos' = 0
    <3>1. Len(bytes') = (l - h) + n /\ pos' = 0  BY <1>6, <1>10, <2>2, Zenon
    <3>2. Remaining' = (((l - h) + n) - 0) + g  BY <1>9, <1>10, <3>1, Zenon DEF Remaining, HeadRem
    <3>3. 0 \in 0 .. ((l - h) + n) /\ (((l - h) + n) - 0) + g = ((l - h) + g) + n  BY <1>10
    <3> QED  BY <1>11, <3>1, <3>2, <3>3, Zenon
  <2> QED  BY <1>8, <2>1, <2>2
<1>15. given' \in Nat
  <2>1. a + n \in Nat  OBVIOUS
  <2> QED  BY <1>9, <2>1, Zenon
<1> QED  BY <1>12, <1>13, <1>14, <1>15, Zenon

\* A vector that grows has a length.
LEMMA GrownType ==
  ASSUME cap \in Nat, NEW m \in Nat
  PROVE  Grown(m) \in Nat
BY DEF Grown, Larger

\* An empty queue is one of no bytes.
LEMMA NoneQueued ==
  ASSUME WTypeOK, OrderKept, qrem = 0
  PROVE  FlattenSeq(bufs) = <<>>
<1>1. bufs \in Seq(Seq(Nat))  BY DEF WTypeOK
<1>2. PICK f \in Seq(Nat) : f = FlattenSeq(bufs)
  <2>1. FlattenSeq(bufs) \in Seq(Nat)  BY <1>1, FlattenType
  <2> QED  BY <2>1, Zenon
<1>3. Len(f) = 0  BY <1>2, Zenon DEF OrderKept, Total
<1>4. f = <<>>  BY <1>3
<1> QED  BY <1>2, <1>4, Zenon

\* The head of a request.
LEMMA StepWriteHead ==
  ASSUME WInv, NEW n \in HeadLens, WriteHead(n)
  PROVE  WInv' /\ mid = FALSE
<1>1. WTypeOK /\ OrderKept /\ BufferBounded  BY DEF WInv, WriteExact
<1>2. /\ ~mid /\ qrem = 0
      /\ bytes' = bytes \o Fresh(n) /\ cap' = Grown(Len(bytes'))
      /\ mid' \in BOOLEAN /\ given' = given + n /\ ahead' = ahead + n
      /\ UNCHANGED <<flatten, pos, bufs, qrem, failed, taken>>
  BY Zenon DEF WriteHead
<1>3. n \in Nat /\ BodyMost \in Nat  BY Lengths
<1>4. Len(taken) + Remaining = given /\ Len(taken) \in Nat /\ Remaining \in Nat
  BY <1>1, WaitingFacts
<1>5. /\ OrderKept' /\ bytes' \in Seq(Nat) /\ pos' \in 0 .. Len(bytes')
      /\ given' \in Nat /\ Remaining' = Remaining + n
  <2>1. ToHeaders(n)  BY <1>2, Zenon DEF ToHeaders
  <2>2. FlattenSeq(bufs) = <<>>  BY <1>1, <1>2, NoneQueued
  <2>3. n \in Nat  BY <1>3
  <2> QED  BY <1>1, <2>1, <2>2, <2>3, HeadersAppended
<1>7. PICK m, r, h, d \in Nat : m = BodyMost /\ r = Remaining /\ h = ahead /\ d = n
  BY <1>1, <1>3, <1>4, Zenon DEF WTypeOK
<1>8. ahead' \in Nat /\ r + d <= m + (h + d)
  <2>1. r <= m + h  BY <1>1, <1>7, Zenon DEF BufferBounded
  <2>2. h + d \in Nat /\ r + d <= m + (h + d)  BY <2>1
  <2> QED  BY <1>2, <1>7, <2>2, Zenon
<1>9. WTypeOK'
  <2>1. cap \in Nat /\ Len(bytes') \in Nat  BY <1>1, <1>5 DEF WTypeOK
  <2>2. cap' \in Nat  BY <1>2, <2>1, GrownType
  <2> QED  BY <1>1, <1>2, <1>5, <1>8, <2>2, Zenon DEF WTypeOK
<1>10. BufferBounded'
  BY <1>1, <1>2, <1>5, <1>7, <1>8, Zenon DEF BufferBounded, BodyMost
<1>11. mid = FALSE  BY <1>1, <1>2 DEF WTypeOK
<1> QED  BY <1>5, <1>9, <1>10, <1>11, Zenon DEF WInv, WriteExact

\* Buffering in the queue: n bytes more wait, in order, in one buffer more.
LEMMA QueueAppended ==
  ASSUME WTypeOK, OrderKept, NEW n \in Nat \ {0}, ~flatten,
         bufs' = Append(bufs, Fresh(n)), qrem' = qrem + n, given' = given + n,
         UNCHANGED <<bytes, pos, taken, flatten>>
  PROVE  /\ OrderKept' /\ bufs' \in Seq(Seq(Nat)) /\ qrem' \in Nat /\ given' \in Nat
         /\ Remaining' = Remaining + n /\ Len(bufs') = Len(bufs) + 1
<1>1. PICK t \in Seq(Nat), b \in Seq(Nat), q \in Seq(Seq(Nat)), a \in Nat :
        t = taken /\ b = bytes /\ q = bufs /\ a = given
  BY Zenon DEF WTypeOK
<1>2. PICK p \in 0 .. Len(b) : p = pos  BY <1>1, Zenon DEF WTypeOK
<1>3. PICK c \in Seq(Nat) : c = SubSeq(b, p + 1, Len(b))
  <2>1. SubSeq(b, p + 1, Len(b)) \in Seq(Nat)  BY WithoutFirst
  <2> QED  BY <2>1, Zenon
<1>4. PICK x \in Seq(Nat) : x = t \o c
  <2>1. t \o c \in Seq(Nat)  BY JoinType, Zenon
  <2> QED  BY <2>1, Zenon
<1>5. x \o FlattenSeq(q) = [i \in 1 .. a |-> i]  BY <1>1, <1>2, <1>3, <1>4, Zenon DEF OrderKept
<1>6. Buffers(q)  BY <1>1, Zenon DEF Buffers, OrderKept
<1>7. OneMore(x, q, a, n)  BY <1>6, QueueGrows
<1>8. PICK r : r = Append(q, [i \in 1 .. n |-> a + i])  OBVIOUS
<1>9. /\ Buffers(r) /\ Len(r) = Len(q) + 1 /\ Total(r) = Total(q) + n
      /\ x \o FlattenSeq(r) = [i \in 1 .. a + n |-> i]
  BY <1>5, <1>7, <1>8, Zenon DEF OneMore
<1>10. bufs' = r
  <2>1. Fresh(n) = [i \in 1 .. n |-> a + i]  BY <1>1, Zenon DEF Fresh
  <2> QED  BY <1>1, <1>8, <2>1, Zenon
<1>11. OrderKept'
  <2>1. taken' \o SubSeq(bytes', pos' + 1, Len(bytes')) \o FlattenSeq(bufs') = [i \in 1 .. given' |-> i]
    BY <1>1, <1>2, <1>3, <1>4, <1>9, <1>10, Zenon
  <2>2. qrem' = Total(bufs')  BY <1>1, <1>9, <1>10, Zenon DEF OrderKept
  <2>3. ~flatten' /\ \A i \in DOMAIN bufs' : bufs'[i] # <<>>  BY <1>9, <1>10, Zenon DEF Buffers
  <2> QED  BY <2>1, <2>2, <2>3, Zenon DEF OrderKept, Total
<1>12. PICK h, g, d \in Nat : h = Len(b) - p /\ g = qrem /\ d = n
  <2>1. Len(b) - p \in Nat /\ n \in Nat  OBVIOUS
  <2> QED  BY <2>1, Zenon DEF WTypeOK
<1>13. Remaining = h + g /\ Remaining' = h + (g + d)
  BY <1>1, <1>2, <1>12, Zenon DEF Remaining, HeadRem
<1>14. h + (g + d) = (h + g) + d /\ g + d \in Nat /\ a + d \in Nat  OBVIOUS
<1> QED  BY <1>1, <1>9, <1>10, <1>11, <1>12, <1>13, <1>14, Zenon DEF Buffers

\* Without anything in the queue there is nothing to put in front of it.
LEMMA FlattenedQueue ==
  ASSUME OrderKept, flatten
  PROVE  FlattenSeq(bufs) = <<>>
BY FlattenEmpty, Zenon DEF OrderKept

\* WriteBuf::buffer in the flattening strategy adds to the headers.
LEMMA BufferFlattens ==
  ASSUME NEW n, flatten, Buffer(n)
  PROVE  /\ ToHeaders(n) /\ cap' = Grown(Len(bytes')) /\ UNCHANGED failed
         /\ \/ pos' = 0
            \/ pos' = pos /\ cap - Len(bytes) >= n
<1>1. /\ bytes' = Unshift(n).bytes \o Fresh(n) /\ pos' = Unshift(n).pos /\ cap' = Grown(Len(bytes'))
      /\ given' = given + n /\ UNCHANGED <<bufs, qrem, flatten, failed, taken>>
  BY Zenon DEF Buffer
<1>2. CASE pos = 0 \/ cap - Len(bytes) >= n
  <2>1. Unshift(n) = [bytes |-> bytes, pos |-> pos]  BY <1>2, Zenon DEF Unshift
  <2>2. Unshift(n).bytes = bytes /\ Unshift(n).pos = pos  BY <2>1
  <2> QED  BY <1>1, <1>2, <2>2, Zenon DEF ToHeaders
<1>3. CASE ~(pos = 0 \/ cap - Len(bytes) >= n)
  <2>1. PICK c : c = SubSeq(bytes, pos + 1, Len(bytes))  OBVIOUS
  <2>2. Unshift(n) = [bytes |-> c, pos |-> 0]  BY <1>3, <2>1, Zenon DEF Unshift
  <2>3. Unshift(n).bytes = c /\ Unshift(n).pos = 0  BY <2>2
  <2> QED  BY <1>1, <2>1, <2>3, Zenon DEF ToHeaders
<1> QED  BY <1>2, <1>3

\* Buffering a part of a body, let in by can_buffer.
LEMMA StepBuffer ==
  ASSUME WInv, NEW n \in Nat \ {0}, n <= Max(FrameLens) + EndLen, CanBuffer, Buffer(n), mid' \in BOOLEAN
  PROVE  WInv' /\ (cap' # cap => Remaining' > cap)
<1>1. WTypeOK /\ OrderKept /\ BufferBounded  BY DEF WInv, WriteExact
<1>2. n \in Nat  OBVIOUS
<1>3. UNCHANGED <<flatten, failed, taken>> /\ given' = given + n /\ ahead' = 0  BY Zenon DEF Buffer
<1>4. Len(taken) + Remaining = given /\ Len(taken) \in Nat /\ Remaining \in Nat
  BY <1>1, WaitingFacts
<1>5. /\ OrderKept' /\ bytes' \in Seq(Nat) /\ pos' \in 0 .. Len(bytes') /\ cap' \in Nat
      /\ bufs' \in Seq(Seq(Nat)) /\ qrem' \in Nat
      /\ given' \in Nat /\ Remaining' = Remaining + n /\ Len(bufs') <= MaxBufs
      /\ (cap' # cap => Remaining' > cap)
  <2>1. CASE flatten
    <3>1. /\ ToHeaders(n) /\ cap' = Grown(Len(bytes')) /\ UNCHANGED <<bufs, qrem>>
          /\ (pos' = 0 \/ (pos' = pos /\ cap - Len(bytes) >= n))
      <4>1. /\ ToHeaders(n) /\ cap' = Grown(Len(bytes'))
            /\ (pos' = 0 \/ (pos' = pos /\ cap - Len(bytes) >= n))
        BY <2>1, BufferFlattens
      <4> QED  BY <4>1, Zenon DEF ToHeaders
    <3>2. FlattenSeq(bufs) = <<>>  BY <1>1, <2>1, FlattenedQueue
    <3>3. /\ OrderKept' /\ bytes' \in Seq(Nat) /\ pos' \in 0 .. Len(bytes')
          /\ given' \in Nat /\ Remaining' = Remaining + n
      BY <1>1, <1>2, <3>1, <3>2, HeadersAppended
    <3>4. cap \in Nat /\ Len(bytes') \in Nat  BY <1>1, <3>3 DEF WTypeOK
    <3>5. cap' \in Nat  BY <3>1, <3>4, GrownType
    <3>6. cap' # cap => Remaining' > cap
      <4>1. PICK l, k, g, c, h, j, d \in Nat : /\ l = Len(bytes) /\ k = Len(bytes') /\ g = qrem /\ c = cap
                                            /\ h = pos /\ j = pos' /\ d = n
        <5>1. Len(bytes) \in Nat /\ pos \in Nat  BY <1>1 DEF WTypeOK
        <5>2. qrem \in Nat  BY <1>1 DEF WTypeOK
        <5>3. pos' \in Nat  BY <3>3
        <5> QED  BY <1>2, <3>4, <5>1, <5>2, <5>3, Zenon
      <4>2. Remaining = (l - h) + g /\ Remaining' = (k - j) + g  BY <3>1, <4>1, Zenon DEF Remaining, HeadRem
      <4>3. (k - j) + g = ((l - h) + g) + d  BY <3>3, <4>1, <4>2, Zenon
      <4>4. cap' # cap => ~(k <= c)  BY <3>1, <4>1, Zenon DEF Grown
      <4>5. j = 0 \/ (j = h /\ c - l >= d)  BY <3>1, <4>1, Zenon
      <4>6. ~(k <= c) => (k - j) + g > c  BY <4>3, <4>5
      <4> QED  BY <4>1, <4>2, <4>4, <4>6, Zenon
    <3> QED  BY <1>1, <3>1, <3>3, <3>5, <3>6, Zenon DEF WTypeOK, BufferBounded
  <2>2. CASE ~flatten
    <3>1. bufs' = Append(bufs, Fresh(n)) /\ qrem' = qrem + n /\ UNCHANGED <<bytes, pos, cap>>
      BY <2>2, Zenon DEF Buffer
    <3>2. /\ OrderKept' /\ bufs' \in Seq(Seq(Nat)) /\ qrem' \in Nat /\ given' \in Nat
          /\ Remaining' = Remaining + n /\ Len(bufs') = Len(bufs) + 1
      BY <1>1, <1>3, <2>2, <3>1, QueueAppended
    <3>3. Len(bufs') <= MaxBufs
      <4>1. Len(bufs) < MaxBufs  BY <2>2, Zenon DEF CanBuffer
      <4>2. Len(bufs) \in Nat /\ MaxBufs \in Nat  BY <1>1, WriteAssumption DEF WTypeOK
      <4> QED  BY <3>2, <4>1, <4>2
    <3> QED  BY <1>1, <3>1, <3>2, <3>3, Zenon DEF WTypeOK
  <2> QED  BY <2>1, <2>2
<1>6. WTypeOK'
  <2>1. ahead' \in Nat  BY <1>3
  <2> QED  BY <1>1, <1>3, <1>5, <2>1, Zenon DEF WTypeOK
<1>7. PICK m, r, d \in Nat : m = BodyMost /\ r = Remaining /\ d = n
  BY <1>2, <1>4, Lengths, Zenon
<1>8. r + d <= m + 0
  <2>1. PICK f, z, b \in Nat : f = Max(FrameLens) /\ z = EndLen /\ b = MaxBuf
    BY Lengths, WriteAssumption
  <2>2. r < b  BY <1>7, <2>1, Zenon DEF CanBuffer
  <2>3. m = b - 1 + f + z /\ d <= f + z  BY <1>7, <2>1, Zenon DEF BodyMost
  <2> QED  BY <2>2, <2>3
<1>9. BufferBounded'
  BY <1>3, <1>5, <1>7, <1>8, Zenon DEF BufferBounded, BodyMost
<1> QED  BY <1>5, <1>6, <1>9, Zenon DEF WInv, WriteExact

\* Advancing takes n bytes off the front of what waits, and no more.
LEMMA AdvanceTakes ==
  ASSUME WTypeOK, OrderKept, NEW n \in Nat, n <= Remaining, Advance(n), UNCHANGED flatten
  PROVE  /\ \E x \in Seq(Nat) : /\ Len(x) = n
                                /\ SubSeq(bytes, pos + 1, Len(bytes)) \o FlattenSeq(bufs)
                                     = x \o (SubSeq(bytes', pos' + 1, Len(bytes')) \o FlattenSeq(bufs'))
         /\ bytes' \in Seq(Nat) /\ pos' \in 0 .. Len(bytes') /\ qrem' \in Nat
         /\ Buffers(bufs') /\ Len(bufs') <= Len(bufs) /\ qrem' = Total(bufs')
         /\ Remaining' = Remaining - n /\ (flatten => bufs' = <<>>)
<1>1. PICK b \in Seq(Nat), q \in Seq(Seq(Nat)) : b = bytes /\ q = bufs
  BY Zenon DEF WTypeOK
<1>2. PICK p \in 0 .. Len(b) : p = pos  BY <1>1, Zenon DEF WTypeOK
<1>3. PICK c \in Seq(Nat) : c = SubSeq(b, p + 1, Len(b)) /\ Len(c) = Len(b) - p
  <2>1. SubSeq(b, p + 1, Len(b)) \in Seq(Nat) /\ Len(SubSeq(b, p + 1, Len(b))) = Len(b) - p  BY WithoutFirst
  <2> QED  BY <2>1, Zenon
<1>4. PICK f \in Seq(Nat) : f = FlattenSeq(q)
  <2>1. FlattenSeq(q) \in Seq(Nat)  BY FlattenType
  <2> QED  BY <2>1, Zenon
<1>5. Buffers(q) /\ qrem = Len(f) /\ (flatten => q = <<>>)
  BY <1>1, <1>4, Zenon DEF Buffers, OrderKept, Total
<1>6. PICK l, h, k, g \in Nat : l = Len(b) /\ h = p /\ k = Len(c) /\ g = Len(f) /\ k = l - h
  <2>1. Len(b) \in Nat /\ p \in Nat /\ Len(c) \in Nat /\ Len(f) \in Nat  OBVIOUS
  <2> QED  BY <1>3, <2>1, Zenon
<1>7. HeadRem = k /\ Remaining = k + g /\ n <= k + g
  BY <1>1, <1>2, <1>5, <1>6, Zenon DEF HeadRem, Remaining
<1>8. CASE n < HeadRem
  <2>1. pos' = pos + n /\ UNCHANGED <<bytes, bufs, qrem>>  BY <1>8, Zenon DEF Advance
  <2>2. n < Len(b) - p  BY <1>3, <1>6, <1>7, <1>8, Zenon
  <2>3. PICK x \in Seq(Nat) : Len(x) = n /\ SubSeq(b, p + 1, Len(b)) = x \o SubSeq(b, p + n + 1, Len(b))
    BY <2>2, HeadAdvances
  <2>4. PICK d \in Seq(Nat) : d = SubSeq(b, p + n + 1, Len(b))
    <3>1. PICK m \in 0 .. Len(b) : m = p + n  BY <2>2
    <3>2. SubSeq(b, m + 1, Len(b)) \in Seq(Nat)  BY WithoutFirst
    <3> QED  BY <3>1, <3>2, Zenon
  <2>5. c \o f = x \o (d \o f)
    <3>1. (x \o d) \o f = x \o (d \o f)  BY Assoc, ZenonT(90)
    <3> QED  BY <1>3, <2>3, <2>4, <3>1, Zenon
  <2>6. d = SubSeq(bytes', pos' + 1, Len(bytes'))  BY <1>1, <1>2, <2>1, <2>4, Zenon
  <2>7. SubSeq(bytes, pos + 1, Len(bytes)) \o FlattenSeq(bufs)
          = x \o (SubSeq(bytes', pos' + 1, Len(bytes')) \o FlattenSeq(bufs'))
    BY <1>1, <1>2, <1>3, <1>4, <2>1, <2>5, <2>6, Zenon
  <2>8. Remaining' = (l - (h + n)) + g
    BY <1>1, <1>2, <1>5, <1>6, <2>1, Zenon DEF Remaining, HeadRem
  <2>9. (l - (h + n)) + g = (k + g) - n /\ h + n \in 0 .. l /\ Len(q) \in Nat /\ Len(q) <= Len(q)
    <3>1. n < k  BY <1>7, <1>8, Zenon
    <3>2. Len(q) \in Nat /\ Len(q) <= Len(q)  OBVIOUS
    <3>3. (l - (h + n)) + g = (k + g) - n /\ h + n \in 0 .. l  BY <1>6, <3>1
    <3> QED  BY <3>2, <3>3, Zenon
  <2>10. bytes' \in Seq(Nat) /\ pos' \in 0 .. Len(bytes') /\ qrem' \in Nat
    BY <1>1, <1>2, <1>5, <1>6, <2>1, <2>9, Zenon
  <2>11. /\ Buffers(bufs') /\ Len(bufs') <= Len(bufs) /\ qrem' = Total(bufs')
         /\ Remaining' = Remaining - n /\ (flatten => bufs' = <<>>)
    BY <1>1, <1>4, <1>5, <1>7, <2>1, <2>8, <2>9, Zenon DEF Total
  <2> QED  BY <2>3, <2>7, <2>10, <2>11, Zenon
<1>9. CASE ~(n < HeadRem)
  <2>1. bytes' = <<>> /\ pos' = 0 /\ bufs' = Dropped(n - HeadRem) /\ qrem' = qrem - (n - HeadRem)
    BY <1>9, Zenon DEF Advance
  <2>2. PICK m \in 0 .. Len(f) : m = n - k /\ m \in Nat /\ k + m = n
    <3>1. ~(n < k) /\ n <= k + g  BY <1>7, <1>9, Zenon
    <3>2. n - k \in 0 .. g /\ n - k \in Nat /\ k + (n - k) = n  BY <3>1
    <3> QED  BY <1>6, <3>2, Zenon
  <2>3. bufs' = DroppedFrom(q, m)
    <3>1. Dropped(m) = DroppedFrom(bufs, m)  BY Zenon DEF Dropped, DroppedFrom
    <3> QED  BY <1>1, <1>7, <2>1, <2>2, <3>1, Zenon
  <2>4. PICK e : e = DroppedFrom(q, m)  OBVIOUS
  <2>5. Buffers(e) /\ Len(e) <= Len(q) /\ \E y \in Seq(Nat) : Len(y) = m /\ f = y \o FlattenSeq(e)
    <3>1. m \in 0 .. Len(FlattenSeq(q))  BY <1>4, Zenon
    <3>2. /\ Buffers(DroppedFrom(q, m)) /\ Len(DroppedFrom(q, m)) <= Len(q)
          /\ \E y \in Seq(Nat) : Len(y) = m /\ FlattenSeq(q) = y \o FlattenSeq(DroppedFrom(q, m))
      BY <1>5, <3>1, DropsExactly
    <3> QED  BY <1>4, <2>4, <3>2, Zenon
  <2>6. PICK y \in Seq(Nat) : Len(y) = m /\ f = y \o FlattenSeq(e)  BY <2>5, Zenon
  <2>7. PICK j \in Seq(Nat) : j = FlattenSeq(e)
    <3>1. e \in Seq(Seq(Nat))  BY <2>5 DEF Buffers
    <3>2. FlattenSeq(e) \in Seq(Nat)  BY <3>1, FlattenType
    <3> QED  BY <3>2, Zenon
  <2>8. PICK x \in Seq(Nat) : x = c \o y /\ Len(x) = n
    <3>1. c \o y \in Seq(Nat) /\ Len(c \o y) = Len(c) + Len(y)  BY JoinType, JoinLen, Zenon
    <3> QED  BY <1>6, <2>2, <2>6, <3>1, Zenon
  <2>9. c \o f = x \o (<<>> \o j)
    <3>1. (c \o y) \o j = c \o (y \o j)  BY Assoc, ZenonT(90)
    <3>2. <<>> \o j = j  BY Unit, Zenon
    <3> QED  BY <2>6, <2>7, <2>8, <3>1, <3>2, Zenon
  <2>10. SubSeq(bytes', pos' + 1, Len(bytes')) = <<>> /\ bytes' \in Seq(Nat) /\ pos' \in 0 .. Len(bytes')
    <3>1. SubSeq(<<>>, 0 + 1, Len(<<>>)) = <<>> /\ <<>> \in Seq(Nat) /\ 0 \in 0 .. Len(<<>>)  OBVIOUS
    <3> QED  BY <2>1, <3>1, Zenon
  <2>11. SubSeq(bytes, pos + 1, Len(bytes)) \o FlattenSeq(bufs)
          = x \o (SubSeq(bytes', pos' + 1, Len(bytes')) \o FlattenSeq(bufs'))
    BY <1>1, <1>2, <1>3, <1>4, <2>3, <2>4, <2>7, <2>9, <2>10, Zenon
  <2>12. PICK i \in Nat : i = Len(j)  BY <2>7
  <2>13. g = m + i
    <3>1. Len(y \o j) = Len(y) + Len(j)  BY JoinLen, Zenon
    <3> QED  BY <1>6, <2>6, <2>7, <2>12, <3>1, Zenon
  <2>14. qrem' = g - m  BY <1>5, <1>6, <1>7, <2>1, <2>2, Zenon
  <2>15. g - m = i /\ (0 - 0) + i = (k + g) - n  BY <2>2, <2>13
  <2>16. qrem' = Total(bufs') /\ qrem' \in Nat
    BY <2>3, <2>4, <2>7, <2>12, <2>14, <2>15, Zenon DEF Total
  <2>17. Remaining' = Remaining - n
    <3>1. Len(<<>>) = 0  OBVIOUS
    <3>2. Remaining' = (0 - 0) + i  BY <2>1, <2>14, <2>15, <3>1, Zenon DEF Remaining, HeadRem
    <3> QED  BY <1>7, <2>15, <3>2, Zenon
  <2>18. flatten => bufs' = <<>>
    <3>1. e \in Seq(Seq(Nat))  BY <2>5 DEF Buffers
    <3>2. q = <<>> => Len(e) <= Len(<<>>)  BY <2>5, Zenon
    <3>3. Len(e) <= Len(<<>>) => e = <<>>  BY <3>1
    <3> QED  BY <1>5, <2>3, <2>4, <3>2, <3>3, Zenon
  <2> QED  BY <1>1, <2>3, <2>4, <2>5, <2>8, <2>10, <2>11, <2>16, <2>17, <2>18, Zenon
<1> QED  BY <1>8, <1>9

\* The bytes x pass from what waits, r and f, to what is taken, t.
Hands(t, x, r, f, d, j) ==
  r \o f = x \o (d \o j) => (t \o x) \o d \o j = t \o r \o f

\* What the socket takes is what the buffers give up.
LEMMA SocketTakes ==
  ASSUME NEW t \in Seq(Nat), NEW x \in Seq(Nat), NEW r \in Seq(Nat), NEW f \in Seq(Nat),
         NEW d \in Seq(Nat), NEW j \in Seq(Nat)
  PROVE  Hands(t, x, r, f, d, j)
<1>1. PICK y \in Seq(Nat), w \in Seq(Nat) : y = t \o x /\ w = d \o j
  <2>1. t \o x \in Seq(Nat) /\ d \o j \in Seq(Nat)  BY JoinType, Zenon
  <2> QED  BY <2>1, Zenon
<1> DEFINE Same(p, q, s) == (p \o q) \o s = p \o (q \o s)
<1>a. \A p, q, s \in Seq(Nat) : Same(p, q, s)  BY Assoc, Zenon
<1>b. Same(y, d, j) /\ Same(t, x, w) /\ Same(t, r, f)
  <2> HIDE DEF Same
  <2> QED  BY <1>a, Zenon
<1>2. (y \o d) \o j = y \o (d \o j)  BY <1>b, Zenon
<1>3. (t \o x) \o w = t \o (x \o w)  BY <1>b, Zenon
<1>4. (t \o r) \o f = t \o (r \o f)  BY <1>b, Zenon
<1>5. r \o f = x \o w => (y \o d) \o j = (t \o r) \o f  BY <1>1, <1>2, <1>3, <1>4, Zenon
<1> QED  BY <1>1, <1>5, Zenon DEF Hands

\* What poll_flush shows the socket is the front of what waits.
LEMMA ChunksShown ==
  ASSUME WTypeOK, OrderKept
  PROVE  /\ FlattenSeq(Chunks) \in Seq(Nat)
         /\ \E z \in Seq(Nat) : FlattenSeq(Chunks) \o z
                                  = SubSeq(bytes, pos + 1, Len(bytes)) \o FlattenSeq(bufs)
<1>1. PICK b \in Seq(Nat), q \in Seq(Seq(Nat)) : b = bytes /\ q = bufs
  BY Zenon DEF WTypeOK
<1>2. PICK p \in 0 .. Len(b) : p = pos  BY <1>1, Zenon DEF WTypeOK
<1>3. PICK r \in Seq(Nat) : r = SubSeq(b, p + 1, Len(b)) /\ Len(r) = Len(b) - p
  <2>1. SubSeq(b, p + 1, Len(b)) \in Seq(Nat) /\ Len(SubSeq(b, p + 1, Len(b))) = Len(b) - p  BY WithoutFirst
  <2> QED  BY <2>1, Zenon
<1>4. PICK M \in Nat : M = IF flatten THEN 1 ELSE MaxSlices
  <2>1. 1 \in Nat /\ MaxSlices \in Nat  BY WriteAssumption
  <2> QED  BY <2>1, Zenon
<1>5. PICK front : front = IF Len(r) > 0 THEN <<r>> ELSE <<>>  OBVIOUS
<1>6. /\ FlattenSeq(First(front \o q, M)) \in Seq(Nat)
      /\ \E z \in Seq(Nat) : FlattenSeq(First(front \o q, M)) \o z = r \o FlattenSeq(q)
  <2>1. Shows(r, q, M, front)  BY <1>5, ShownInOrder
  <2> QED  BY <2>1, Zenon DEF Shows
<1>7. Chunks = First(front \o q, M)
  <2>1. r = SubSeq(bytes, pos + 1, Len(bytes)) /\ HeadRem = Len(r)  BY <1>1, <1>2, <1>3, Zenon DEF HeadRem
  <2>2. front = IF HeadRem > 0 THEN <<SubSeq(bytes, pos + 1, Len(bytes))>> ELSE <<>>  BY <1>5, <2>1, Zenon
  <2> QED  BY <1>1, <1>4, <2>2, Zenon DEF Chunks
<1>8. r = SubSeq(bytes, pos + 1, Len(bytes))  BY <1>1, <1>2, <1>3, Zenon
<1> QED  BY <1>1, <1>6, <1>7, <1>8, Zenon

\* One write of a flush.
LEMMA StepFlushWrite ==
  ASSUME WInv, NEW n \in Nat, FlushWrite(n)
  PROVE  WInv' /\ UNCHANGED cap
<1>1. WTypeOK /\ OrderKept /\ BufferBounded  BY DEF WInv, WriteExact
<1>2. /\ n \in 1 .. Total(Chunks) /\ Advance(n) /\ taken' = taken \o SubSeq(FlattenSeq(Chunks), 1, n)
      /\ ahead' = (IF n = Remaining THEN 0 ELSE ahead) /\ UNCHANGED <<flatten, cap, mid, failed, given>>
  BY Zenon DEF FlushWrite
<1>3. PICK t \in Seq(Nat) : t = taken  BY <1>1, Zenon DEF WTypeOK
<1>4. PICK r \in Seq(Nat) : r = SubSeq(bytes, pos + 1, Len(bytes))
  <2>1. PICK b \in Seq(Nat) : b = bytes  BY <1>1, Zenon DEF WTypeOK
  <2>2. PICK p \in 0 .. Len(b) : p = pos  BY <1>1, <2>1, Zenon DEF WTypeOK
  <2>3. SubSeq(b, p + 1, Len(b)) \in Seq(Nat)  BY WithoutFirst
  <2> QED  BY <2>1, <2>2, <2>3, Zenon
<1>5. PICK f \in Seq(Nat) : f = FlattenSeq(bufs)
  <2>1. bufs \in Seq(Seq(Nat))  BY <1>1 DEF WTypeOK
  <2>2. FlattenSeq(bufs) \in Seq(Nat)  BY <2>1, FlattenType
  <2> QED  BY <2>2, Zenon
<1>6. PICK c \in Seq(Nat), z \in Seq(Nat) : c = FlattenSeq(Chunks) /\ c \o z = r \o f
  <2>1. /\ FlattenSeq(Chunks) \in Seq(Nat)
        /\ \E z \in Seq(Nat) : FlattenSeq(Chunks) \o z
                                 = SubSeq(bytes, pos + 1, Len(bytes)) \o FlattenSeq(bufs)
    BY <1>1, ChunksShown
  <2> QED  BY <1>4, <1>5, <2>1, Zenon
<1>7. n \in 1 .. Len(c)  BY <1>2, <1>6, Zenon DEF Total
<1>8. Remaining = Len(r) + Len(f) /\ Remaining \in Nat
  <2>1. /\ Len(taken) + Remaining = given /\ Len(taken) \in Nat /\ Remaining \in Nat
        /\ HeadRem \in Nat /\ qrem = Total(bufs) /\ Total(bufs) \in Nat
    BY <1>1, WaitingFacts
  <2>2. PICK b \in Seq(Nat) : b = bytes  BY <1>1, Zenon DEF WTypeOK
  <2>3. PICK p \in 0 .. Len(b) : p = pos  BY <1>1, <2>2, Zenon DEF WTypeOK
  <2>4. Len(SubSeq(b, p + 1, Len(b))) = Len(b) - p  BY WithoutFirst
  <2>5. HeadRem = Len(r)  BY <1>4, <2>2, <2>3, <2>4, Zenon DEF HeadRem
  <2> QED  BY <1>5, <2>1, <2>5, Zenon DEF Remaining, Total
<1>9. n <= Remaining
  <2>1. Len(c) + Len(z) = Len(r) + Len(f)
    <3>1. Len(c \o z) = Len(c) + Len(z) /\ Len(r \o f) = Len(r) + Len(f)  BY JoinLen, Zenon
    <3> QED  BY <1>6, <3>1, Zenon
  <2>2. PICK lc, lz, m \in Nat : lc = Len(c) /\ lz = Len(z) /\ m = Remaining
    <3>1. Len(c) \in Nat /\ Len(z) \in Nat  OBVIOUS
    <3> QED  BY <1>8, <3>1, Zenon
  <2>3. lc + lz = m /\ n \in 1 .. lc  BY <1>7, <1>8, <2>1, <2>2, Zenon
  <2>4. n <= m  BY <2>3
  <2> QED  BY <2>2, <2>4, Zenon
<1>10. /\ \E x \in Seq(Nat) : /\ Len(x) = n
                              /\ SubSeq(bytes, pos + 1, Len(bytes)) \o FlattenSeq(bufs)
                                   = x \o (SubSeq(bytes', pos' + 1, Len(bytes')) \o FlattenSeq(bufs'))
       /\ bytes' \in Seq(Nat) /\ pos' \in 0 .. Len(bytes') /\ qrem' \in Nat
       /\ Buffers(bufs') /\ Len(bufs') <= Len(bufs) /\ qrem' = Total(bufs')
       /\ Remaining' = Remaining - n /\ (flatten => bufs' = <<>>)
  BY <1>1, <1>2, <1>9, AdvanceTakes
<1>11. PICK d \in Seq(Nat) : d = SubSeq(bytes', pos' + 1, Len(bytes'))
  <2>1. PICK b \in Seq(Nat) : b = bytes'  BY <1>10, Zenon
  <2>2. PICK p \in 0 .. Len(b) : p = pos'  BY <1>10, <2>1, Zenon
  <2>3. SubSeq(b, p + 1, Len(b)) \in Seq(Nat)  BY WithoutFirst
  <2> QED  BY <2>1, <2>2, <2>3, Zenon
<1>12. bufs' \in Seq(Seq(Nat))  BY <1>10, Zenon DEF Buffers
<1>13. PICK j \in Seq(Nat) : j = FlattenSeq(bufs')
  <2>1. FlattenSeq(bufs') \in Seq(Nat)  BY <1>12, FlattenType
  <2> QED  BY <2>1, Zenon
<1>14. PICK x \in Seq(Nat) : Len(x) = n /\ r \o f = x \o (d \o j)
  BY <1>4, <1>5, <1>10, <1>11, <1>13, Zenon
<1>15. SubSeq(c, 1, n) = x
  <2>1. PICK y \in Seq(Nat) : y = d \o j
    <3>1. d \o j \in Seq(Nat)  BY JoinType, Zenon
    <3> QED  BY <3>1, Zenon
  <2>2. x \o y = c \o z  BY <1>6, <1>14, <2>1, Zenon
  <2>3. Len(x) <= Len(c)
    <3>1. Len(c) \in Nat  OBVIOUS
    <3>2. n <= Len(c)  BY <1>7, <3>1
    <3> QED  BY <1>14, <3>2, Zenon
  <2>4. SubSeq(c, 1, Len(x)) = x  BY <2>2, <2>3, SamePrefix
  <2> QED  BY <1>14, <2>4, Zenon
<1>16. taken' = t \o x  BY <1>2, <1>3, <1>6, <1>15, Zenon
<1>17. OrderKept'
  <2>1. (t \o x) \o d \o j = t \o r \o f
    <3>1. Hands(t, x, r, f, d, j)  BY SocketTakes
    <3> QED  BY <1>14, <3>1, Zenon DEF Hands
  <2>2. t \o r \o f = [i \in 1 .. given |-> i]  BY <1>1, <1>3, <1>4, <1>5, Zenon DEF OrderKept
  <2>3. taken' \o SubSeq(bytes', pos' + 1, Len(bytes')) \o FlattenSeq(bufs') = [i \in 1 .. given' |-> i]
    BY <1>2, <1>11, <1>13, <1>16, <2>1, <2>2, Zenon
  <2> QED  BY <1>2, <1>10, <2>3, Zenon DEF OrderKept, Buffers, Total
<1>18. WTypeOK'
  <2>1. t \o x \in Seq(Nat)  BY JoinType, Zenon
  <2>2. ahead' \in Nat  BY <1>1, <1>2 DEF WTypeOK
  <2> QED  BY <1>1, <1>2, <1>10, <1>12, <1>16, <2>1, <2>2, Zenon DEF WTypeOK
<1>19. PICK m, h, w, k, i, s \in Nat :
         m = BodyMost /\ h = ahead /\ w = Remaining /\ k = Len(bufs) /\ i = Len(bufs') /\ s = MaxBufs
  <2>1. Len(bufs) \in Nat  BY <1>1 DEF WTypeOK
  <2>2. Len(bufs') \in Nat  BY <1>12
  <2>3. MaxBufs \in Nat  BY WriteAssumption
  <2> QED  BY <1>1, <1>8, <2>1, <2>2, <2>3, Lengths, Zenon DEF WTypeOK
<1>20. BufferBounded'
  <2>1. k <= s /\ w <= m + h /\ i <= k  BY <1>1, <1>10, <1>19, Zenon DEF BufferBounded
  <2>2. ahead' = IF n = w THEN 0 ELSE h  BY <1>2, <1>19, Zenon
  <2>3. i <= s /\ w - n <= m + ahead'  BY <1>7, <2>1, <2>2
  <2> QED  BY <1>10, <1>19, <2>3, Zenon DEF BufferBounded, BodyMost
<1> QED  BY <1>2, <1>17, <1>18, <1>20, Zenon DEF WInv, WriteExact

\* The invariant is not about failures.
LEMMA WriteSame ==
  ASSUME WInv, failed' \in BOOLEAN,
         UNCHANGED <<flatten, bytes, pos, cap, bufs, qrem, mid, ahead, given, taken>>
  PROVE  WInv'
<1>1. WTypeOK /\ OrderKept /\ BufferBounded  BY Zenon DEF WInv, WriteExact
<1>2. WTypeOK'  BY <1>1, Zenon DEF WTypeOK
<1>3. Remaining' = Remaining  BY Zenon DEF Remaining, HeadRem
<1>5. OrderKept'  BY <1>1, Zenon DEF OrderKept, Total
<1>6. BufferBounded'  BY <1>1, <1>3, Zenon DEF BufferBounded, BodyMost
<1> QED  BY <1>2, <1>5, <1>6, Zenon DEF WInv, WriteExact

\* Every step keeps the invariant, and lets the vector grow within a message
\* only for what is unwritten.
LEMMA WriteStep == WInv /\ [WNext]_wvars => WInv' /\ (cap' # cap /\ mid => Remaining' > cap)
<1> SUFFICES ASSUME WInv, [WNext]_wvars PROVE WInv' /\ (cap' # cap /\ mid => Remaining' > cap)  OBVIOUS
<1>1. CASE UNCHANGED wvars
  <2>1. cap' = cap  BY <1>1, Zenon DEF wvars
  <2>2. WInv'
    <3>1. UNCHANGED <<flatten, bytes, pos, cap, bufs, qrem, mid, failed, ahead, given, taken>>
      BY <1>1, Zenon DEF wvars
    <3>2. failed' \in BOOLEAN  BY <3>1, Zenon DEF WInv, WTypeOK
    <3> QED  BY <3>1, <3>2, WriteSame
  <2> QED  BY <2>1, <2>2
<1>2. ASSUME NEW n \in HeadLens, WriteHead(n) PROVE WInv' /\ (cap' # cap /\ mid => Remaining' > cap)
  BY <1>2, StepWriteHead
<1>3. ASSUME NEW n \in FrameLens, WriteBody(n) PROVE WInv' /\ (cap' # cap /\ mid => Remaining' > cap)
  <2>1. CanBuffer /\ Buffer(n) /\ mid' = mid  BY <1>3, Zenon DEF WriteBody
  <2>2. n \in Nat \ {0} /\ n <= Max(FrameLens) + EndLen  BY Lengths, WriteAssumption
  <2>3. mid' \in BOOLEAN  BY <2>1 DEF WInv, WTypeOK
  <2> QED  BY <2>1, <2>2, <2>3, StepBuffer
<1>4. ASSUME NEW n \in FrameLens, WriteBodyAndEnd(n) PROVE WInv' /\ (cap' # cap /\ mid => Remaining' > cap)
  <2>1. CanBuffer /\ Buffer(n + EndLen) /\ mid' = FALSE  BY <1>4, Zenon DEF WriteBodyAndEnd
  <2>2. n + EndLen \in Nat \ {0} /\ n + EndLen <= Max(FrameLens) + EndLen  BY Lengths, WriteAssumption
  <2>3. mid' \in BOOLEAN  BY <2>1
  <2> QED  BY <2>1, <2>2, <2>3, StepBuffer
<1>5. CASE EndBody
  <2>1. CanBuffer /\ Buffer(EndLen) /\ mid' = FALSE  BY <1>5, Zenon DEF EndBody
  <2>2. EndLen \in Nat \ {0} /\ EndLen <= Max(FrameLens) + EndLen  BY Lengths, WriteAssumption
  <2>3. mid' \in BOOLEAN  BY <2>1
  <2> QED  BY <2>1, <2>2, <2>3, StepBuffer
<1>6. CASE FlushZero
  <2>1. failed' = TRUE /\ UNCHANGED <<flatten, bytes, pos, cap, bufs, qrem, mid, ahead, given, taken>>
    BY <1>6, Zenon DEF FlushZero
  <2>2. failed' \in BOOLEAN  BY <2>1
  <2>3. WInv'  BY <2>1, <2>2, WriteSame
  <2> QED  BY <2>1, <2>3, Zenon
<1>7. ASSUME NEW n \in 1 .. MaxBytes, FlushWrite(n) PROVE WInv' /\ (cap' # cap /\ mid => Remaining' > cap)
  <2>1. n \in Nat  OBVIOUS
  <2> QED  BY <1>7, <2>1, StepFlushWrite
<1> QED  BY <1>1, <1>2, <1>3, <1>4, <1>5, <1>6, <1>7, Zenon DEF WNext

\* The invariant always holds.
LEMMA WriteInvariance == WSpec => []WInv
<1>1. WInit => WInv  BY WriteInit
<1>2. WInv /\ [WNext]_wvars => WInv'  BY WriteStep
<1> QED  BY <1>1, <1>2, PTL DEF WSpec

\* WriteBuf and poll_flush hand every byte to the socket once and in the
\* order it was given, whatever the strategy, the number of slices and the
\* sizes of buffers and partial writes.  What waits goes beyond the limit by
\* one frame, and by the heads given since a body was last buffered: those
\* are not bounded, for can_write_head does not ask what waits.
THEOREM WritesExact == WSpec => []WriteExact
<1>1. WInv => WriteExact  BY DEF WInv
<1> QED  BY <1>1, WriteInvariance, PTL

\* Cursor::maybe_unshift: a body makes the headers vector grow only when what
\* is still unwritten does not fit in it.
THEOREM VectorGrowsForUnwritten == WSpec => GrowsForUnwritten
<1>1. WInv /\ [WNext]_wvars => [cap' # cap /\ mid => Remaining' > cap]_wvars  BY WriteStep
<1> QED  BY <1>1, WriteInvariance, PTL DEF WSpec, GrowsForUnwritten
-----------------------------------------------------------------------------
(* BufferedRead: cutting and joining.                                      *)

\* A sequence is its first k elements and the others.
LEMMA Halves ==
  ASSUME NEW S, NEW s \in Seq(S), NEW k \in 0 .. Len(s)
  PROVE  /\ SubSeq(s, 1, k) \in Seq(S) /\ Len(SubSeq(s, 1, k)) = k
         /\ \A i \in 1 .. k : SubSeq(s, 1, k)[i] = s[i]
         /\ SubSeq(s, k + 1, Len(s)) \in Seq(S) /\ Len(SubSeq(s, k + 1, Len(s))) = Len(s) - k
         /\ s = SubSeq(s, 1, k) \o SubSeq(s, k + 1, Len(s))
<1>1. k \in Nat /\ k <= Len(s) /\ Len(s) \in Nat /\ Least(k, Len(s)) = k  BY DEF Least
<1>2. Prefix(s, k) = SubSeq(s, 1, k) /\ Rest(s, k) = SubSeq(s, k + 1, Len(s))
  BY <1>1, Zenon DEF Prefix, Rest
<1>3. /\ Prefix(s, k) \in Seq(S) /\ Len(Prefix(s, k)) = Least(k, Len(s))
      /\ Rest(s, Least(k, Len(s))) \in Seq(S)
      /\ Len(Rest(s, Least(k, Len(s)))) = Len(s) - Least(k, Len(s))
      /\ s = Prefix(s, k) \o Rest(s, Least(k, Len(s)))
  BY <1>1, Cut
<1>4. \A i \in 1 .. k : SubSeq(s, 1, k)[i] = s[i]  BY <1>1
<1> QED  BY <1>1, <1>2, <1>3, <1>4, Zenon

\* a is c and then some e, and what follows c is what follows a after e.
Continues(S, a, b, c, d) ==
  \E e \in Seq(S) : /\ a = c \o e /\ e \o b = d /\ Len(e) = Len(a) - Len(c)
                    /\ SubSeq(a, 1, Len(c)) = c /\ SubSeq(a, Len(c) + 1, Len(a)) = e

\* Two ways of cutting a sequence: the longer first part begins with the
\* shorter one.
LEMMA TwoSplits ==
  ASSUME NEW S, NEW a \in Seq(S), NEW b \in Seq(S), NEW c \in Seq(S), NEW d \in Seq(S),
         a \o b = c \o d, Len(c) <= Len(a)
  PROVE  Continues(S, a, b, c, d)
<1>1. PICK k \in Nat : k = Len(c)  OBVIOUS
<1>2. k \in 0 .. Len(a)  BY <1>1
<1>3. PICK p, e : p = SubSeq(a, 1, k) /\ e = SubSeq(a, k + 1, Len(a))  OBVIOUS
<1>4. /\ p \in Seq(S) /\ Len(p) = k /\ (\A i \in 1 .. k : p[i] = a[i])
      /\ e \in Seq(S) /\ Len(e) = Len(a) - k /\ a = p \o e
  <2>1. /\ SubSeq(a, 1, k) \in Seq(S) /\ Len(SubSeq(a, 1, k)) = k
        /\ \A i \in 1 .. k : SubSeq(a, 1, k)[i] = a[i]
        /\ SubSeq(a, k + 1, Len(a)) \in Seq(S) /\ Len(SubSeq(a, k + 1, Len(a))) = Len(a) - k
        /\ a = SubSeq(a, 1, k) \o SubSeq(a, k + 1, Len(a))
    BY <1>2, Halves
  <2> QED  BY <1>3, <2>1, Zenon
<1>5. ASSUME NEW i \in 1 .. k PROVE p[i] = c[i]
  <2>1. i \in 1 .. Len(a) /\ i \in 1 .. Len(c)  BY <1>1, <1>2
  <2>2. (a \o b)[i] = a[i]  BY <2>1, ConcatProperties
  <2>3. (c \o d)[i] = c[i]  BY <2>1, ConcatProperties
  <2> QED  BY <1>4, <2>2, <2>3, Zenon
<1>6. p = c
  <2>1. Len(p) = Len(c) /\ \A i \in 1 .. Len(p) : p[i] = c[i]  BY <1>1, <1>4, <1>5, Zenon
  <2> QED  BY <1>4, <2>1, SeqEqual, Zenon
<1>7. c \o (e \o b) = c \o d
  <2>0. \A x, y, z \in Seq(S) : (x \o y) \o z = x \o (y \o z)  BY Joins
  <2>1. (c \o e) \o b = c \o (e \o b)  BY <1>4, <2>0, Zenon
  <2> QED  BY <1>4, <1>6, <2>1, Zenon
<1>8. e \o b = d
  <2>1. PICK x : x = e \o b  OBVIOUS
  <2>2. x \in Seq(S)  BY <1>4, <2>1
  <2>3. Len(c \o x) = Len(c) + Len(x) /\ Len(c \o d) = Len(c) + Len(d)  BY <2>2
  <2>4. Len(x) = Len(d)  BY <1>7, <2>1, <2>2, <2>3
  <2>5. ASSUME NEW i \in 1 .. Len(x) PROVE x[i] = d[i]
    <3>1. Len(c) + i \in 1 .. Len(c) + Len(x) /\ ~(Len(c) + i <= Len(c)) /\ (Len(c) + i) - Len(c) = i
      BY <2>2
    <3>2. (c \o x)[Len(c) + i] = x[(Len(c) + i) - Len(c)]  BY <2>2, <3>1, ConcatProperties
    <3>3. (c \o d)[Len(c) + i] = d[(Len(c) + i) - Len(c)]  BY <2>4, <3>1, ConcatProperties
    <3> QED  BY <1>7, <2>1, <3>1, <3>2, <3>3, Zenon
  <2>6. x = d  BY <2>2, <2>4, <2>5, SeqEqual
  <2> QED  BY <2>1, <2>6
<1> QED  BY <1>1, <1>3, <1>4, <1>6, <1>8, Zenon DEF Continues

-----------------------------------------------------------------------------
(* BufferedRead: where a head ends.                                        *)

\* An empty line ends at e.
Ends(s, e) ==
  e \in 3 .. Len(s) /\ s[e] = Lf /\ (s[e - 1] = Lf \/ (s[e - 1] = Cr /\ s[e - 2] = Lf))

\* The head ends where the first empty line does.
LEMMA HeadEndIs ==
  ASSUME NEW s \in Seq(Token)
  PROVE  \/ HeadEnd(s) = 0 /\ \A e : ~Ends(s, e)
         \/ HeadEnd(s) # 0 /\ Ends(s, HeadEnd(s)) /\ \A e : Ends(s, e) => HeadEnd(s) <= e
<1> DEFINE E == {e \in 3 .. Len(s) : s[e] = Lf /\ (s[e - 1] = Lf \/ (s[e - 1] = Cr /\ s[e - 2] = Lf))}
<1>1. \A e : e \in E <=> Ends(s, e)  BY Zenon DEF Ends
<1>2. HeadEnd(s) = IF E = {} THEN 0 ELSE Min(E)  BY Zenon DEF HeadEnd
<1>3. E \subseteq Nat /\ 0 \notin E  OBVIOUS
<1> HIDE DEF E
<1>4. CASE E = {}  BY <1>1, <1>2, <1>4
<1>5. CASE E # {}
  <2>1. PICK m \in E : \A k \in E : m <= k  BY <1>3, <1>5, LeastNumber
  <2>2. Min(E) \in E /\ \A y \in E : Min(E) <= y  BY <2>1, Zenon DEF Min
  <2>3. HeadEnd(s) = Min(E)  BY <1>2, <1>5
  <2> QED  BY <1>1, <1>3, <2>2, <2>3, Zenon
<1> QED  BY <1>4, <1>5

\* What follows a head does not change where it ends.
LEMMA HeadEndStays ==
  ASSUME NEW a \in Seq(Token), NEW b \in Seq(Token), HeadEnd(a) # 0
  PROVE  HeadEnd(a \o b) = HeadEnd(a) /\ HeadEnd(a) \in 3 .. Len(a)
<1>1. PICK c : c = a \o b  OBVIOUS
<1>2. c \in Seq(Token) /\ Len(c) = Len(a) + Len(b) /\ \A i \in 1 .. Len(a) : c[i] = a[i]
  BY <1>1, ConcatProperties
<1>3. \A e \in 3 .. Len(a) : e \in 1 .. Len(a) /\ e - 1 \in 1 .. Len(a) /\ e - 2 \in 1 .. Len(a) /\ e \in 3 .. Len(c)
  BY <1>2
<1>4. \A e \in 3 .. Len(a) : Ends(a, e) <=> Ends(c, e)  BY <1>2, <1>3, Zenon DEF Ends
<1>5. PICK p : p = HeadEnd(a)  OBVIOUS
<1>6. Ends(a, p) /\ \A e : Ends(a, e) => p <= e  BY <1>5, HeadEndIs, Zenon
<1>7. p \in 3 .. Len(a)  BY <1>6, Zenon DEF Ends
<1>8. Ends(c, p)  BY <1>4, <1>6, <1>7
<1>9. PICK q : q = HeadEnd(c)  OBVIOUS
<1>10. Ends(c, q) /\ \A e : Ends(c, e) => q <= e  BY <1>2, <1>8, <1>9, HeadEndIs, Zenon
<1>11. q <= p /\ q \in 3 .. Len(c)
  <2>1. q \in 3 .. Len(c)  BY <1>10, Zenon DEF Ends
  <2> QED  BY <1>8, <1>10, <2>1
<1>12. q \in 3 .. Len(a)  BY <1>7, <1>11
<1>13. p <= q  BY <1>4, <1>6, <1>10, <1>12
<1>14. p = q  BY <1>7, <1>11, <1>13, <1>12
<1> QED  BY <1>1, <1>5, <1>7, <1>9, <1>14, Zenon

\* A buffer that begins with a head, or with a part of one: the head is found
\* when all of it is there, and what follows it stays.
LEMMA HeadCut ==
  ASSUME NEW h \in Seq(Token), HeadEnd(h) = Len(h), h # <<>>,
         NEW b \in Seq(Token), NEW w \in Seq(Token), NEW r \in Seq(Token), b \o w = h \o r
  PROVE  /\ Len(b) < Len(h) => HeadEnd(b) = 0
         /\ Len(b) >= Len(h) =>
              /\ HeadEnd(b) = Len(h) /\ SubSeq(b, 1, Len(h)) = h
              /\ SubSeq(b, Len(h) + 1, Len(b)) \in Seq(Token)
              /\ SubSeq(b, Len(h) + 1, Len(b)) \o w = r
<1>0. Len(h) \in Nat /\ Len(b) \in Nat /\ Len(h) # 0  OBVIOUS
<1>1. HeadEnd(h \o r) = Len(h)  BY <1>0, HeadEndStays
<1>2. ASSUME Len(b) < Len(h), HeadEnd(b) # 0 PROVE FALSE
  <2>1. HeadEnd(b \o w) = HeadEnd(b) /\ HeadEnd(b) \in 3 .. Len(b)  BY <1>2, HeadEndStays
  <2>2. HeadEnd(b) = Len(h)  BY <1>1, <2>1
  <2> QED  BY <1>0, <1>2, <2>1, <2>2
<1>3. ASSUME Len(b) >= Len(h)
      PROVE  /\ HeadEnd(b) = Len(h) /\ SubSeq(b, 1, Len(h)) = h
             /\ SubSeq(b, Len(h) + 1, Len(b)) \in Seq(Token)
             /\ SubSeq(b, Len(h) + 1, Len(b)) \o w = r
  <2>0. Len(h) <= Len(b)  BY <1>0, <1>3
  <2>1. Continues(Token, b, w, h, r)  BY <2>0, TwoSplits
  <2>2. PICK e \in Seq(Token) : /\ b = h \o e /\ e \o w = r /\ Len(e) = Len(b) - Len(h)
                                /\ SubSeq(b, 1, Len(h)) = h /\ SubSeq(b, Len(h) + 1, Len(b)) = e
    BY <2>1, Zenon DEF Continues
  <2>3. HeadEnd(h \o e) = Len(h)  BY <1>0, HeadEndStays
  <2> QED  BY <2>2, <2>3, Zenon
<1> QED  BY <1>2, <1>3, Zenon

-----------------------------------------------------------------------------
(* BufferedRead: the read size.                                            *)

\* The function PrevPowerOfTwo computes with.
Halving(f, n) == f = [m \in 0 .. n |-> IF m < 4 THEN 1 ELSE 2 * f[m \div 2]]

\* There is one, built up from smaller numbers.
LEMMA HalvingExists ==
  ASSUME NEW k \in Nat
  PROVE  \E f : Halving(f, k)
<1> DEFINE D(f, m) == IF m < 4 THEN 1 ELSE 2 * f[m \div 2]
           Upto(f, n) == f = [m \in 0 .. n |-> D(f, m)]
           T == {n \in Nat : \E f : Upto(f, n)}
<1>1. 0 \in T
  <2> DEFINE g == [m \in 0 .. 0 |-> 1]
             h == [m \in 0 .. 0 |-> D(g, m)]
  <2>1. \A m \in 0 .. 0 : g[m] = h[m]  OBVIOUS
  <2>2. g = h  BY <2>1
  <2>3. Upto(g, 0)  BY <2>2, Zenon
  <2> QED  BY <2>3, Zenon
<1>2. ASSUME NEW n \in Nat, n \in T PROVE n + 1 \in T
  <2>1. PICK f : Upto(f, n)  BY <1>2, Zenon
  <2> DEFINE g == [m \in 0 .. n + 1 |-> IF m <= n THEN f[m] ELSE D(f, m)]
             h == [m \in 0 .. n + 1 |-> D(g, m)]
             F == [m \in 0 .. n |-> D(f, m)]
  <2>2. ASSUME NEW m \in 0 .. n + 1 PROVE D(g, m) = D(f, m)
    <3>1. CASE m < 4  BY <3>1
    <3>2. CASE ~(m < 4)
      <4>1. m \div 2 \in 0 .. n + 1 /\ m \div 2 <= n  BY <3>2
      <4>2. g[m \div 2] = f[m \div 2]  BY <4>1
      <4> HIDE DEF g
      <4> QED  BY <3>2, <4>2
    <3> QED  BY <3>1, <3>2
  <2>3. ASSUME NEW m \in 0 .. n + 1 PROVE g[m] = D(f, m)
    <3>1. CASE m <= n
      <4>1. g[m] = f[m] /\ m \in 0 .. n  BY <3>1
      <4>2. F[m] = D(f, m)
        <5> HIDE DEF D
        <5> QED  BY <4>1
      <4>3. f[m] = F[m]
        <5> HIDE DEF D
        <5> QED  BY <2>1, Zenon
      <4> QED  BY <4>1, <4>2, <4>3, Zenon
    <3>2. CASE ~(m <= n)
      <4> HIDE DEF D
      <4> QED  BY <3>2
    <3> QED  BY <3>1, <3>2
  <2>4. g = h
    <3> HIDE DEF D, F
    <3>2. \A m \in 0 .. n + 1 : g[m] = h[m]  BY <2>2, <2>3, Zenon
    <3>3. DOMAIN g = DOMAIN h  OBVIOUS
    <3> QED  BY <3>2, <3>3
  <2>5. Upto(g, n + 1)  BY <2>4, Zenon
  <2>6. n + 1 \in Nat  OBVIOUS
  <2> QED  BY <2>5, <2>6, Zenon
<1>3. Nat \subseteq T
  <2> HIDE DEF T
  <2> QED  BY <1>1, <1>2, SetInduction
<1>4. k \in T
  <2> HIDE DEF T
  <2> QED  BY <1>3
<1> QED  BY <1>4, Zenon DEF Halving

\* prev_power_of_two is a size, and no larger than the one it is given.
LEMMA PrevPowerBounds ==
  ASSUME NEW n \in Nat, n >= 1
  PROVE  PrevPowerOfTwo(n) \in 1 .. n
<1> DEFINE f == CHOOSE g : g = [m \in 0 .. n |-> IF m < 4 THEN 1 ELSE 2 * g[m \div 2]]
           T == {k \in Nat : \A m \in 1 .. n : m <= k => f[m] \in 1 .. m}
<1>1. f = [m \in 0 .. n |-> IF m < 4 THEN 1 ELSE 2 * f[m \div 2]]
  BY HalvingExists, Zenon DEF Halving
<1>2. PrevPowerOfTwo(n) = f[n]  BY Zenon DEF PrevPowerOfTwo
<1> HIDE DEF f
<1>3. ASSUME NEW m \in 0 .. n
      PROVE  f[m] = IF m < 4 THEN 1 ELSE 2 * f[m \div 2]
  <2> DEFINE F == [k \in 0 .. n |-> IF k < 4 THEN 1 ELSE 2 * f[k \div 2]]
  <2>1. F[m] = IF m < 4 THEN 1 ELSE 2 * f[m \div 2]  OBVIOUS
  <2>2. f = F  BY <1>1, Zenon
  <2> HIDE DEF F
  <2> QED  BY <2>1, <2>2, Zenon
<1>4. 0 \in T  OBVIOUS
<1>5. ASSUME NEW k \in Nat, k \in T PROVE k + 1 \in T
  <2> SUFFICES ASSUME NEW m \in 1 .. n, m <= k + 1 PROVE f[m] \in 1 .. m  OBVIOUS
  <2>0. m \in 0 .. n /\ m \in Nat  OBVIOUS
  <2>1. CASE m < 4
    <3>1. f[m] = 1  BY <1>3, <2>0, <2>1, Zenon
    <3> QED  BY <3>1
  <2>2. CASE ~(m < 4)
    <3>1. f[m] = 2 * f[m \div 2]  BY <1>3, <2>0, <2>2, Zenon
    <3>2. m \div 2 \in 1 .. n /\ m \div 2 <= k /\ 2 * (m \div 2) <= m  BY <2>2
    <3>3. f[m \div 2] \in 1 .. (m \div 2)  BY <1>5, <3>2
    <3>4. PICK x, y : x = f[m \div 2] /\ y = m \div 2  OBVIOUS
    <3>5. y \in Nat /\ x \in 1 .. y /\ 2 * y <= m /\ f[m] = 2 * x  BY <3>1, <3>2, <3>3, <3>4
    <3> QED  BY <3>5
  <2> QED  BY <2>1, <2>2
<1>6. Nat \subseteq T
  <2> HIDE DEF T
  <2> QED  BY <1>4, <1>5, SetInduction
<1>7. n \in T
  <2> HIDE DEF T
  <2> QED  BY <1>6
<1>8. f[n] \in 1 .. n  BY <1>7
<1> QED  BY <1>2, <1>8

\* The kind of a read strategy, and the bounds of its next read.
Strategy(s) ==
  /\ s \in [exact : BOOLEAN, next : Nat, max : Nat, decrease : BOOLEAN]
  /\ s.max >= 1 /\ (s.exact \/ s.next \in InitSize .. s.max)

\* ReadStrategy::record keeps them, however long the last read was.
LEMMA RecordBounds ==
  ASSUME Strategy(strat), NEW n \in Nat
  PROVE  Strategy(Record(n))
<1>0. InitSize \in Nat /\ InitSize >= 4  BY ReadAssumption
<1>1. PICK d : d = PrevPowerOfTwo(strat.next)  OBVIOUS
<1>2. CASE strat.exact  BY <1>2 DEF Record
<1>3. CASE ~strat.exact
  <2>1. /\ strat.next \in Nat /\ strat.max \in Nat /\ strat.next >= InitSize /\ strat.next <= strat.max
        /\ strat \in [exact : BOOLEAN, next : Nat, max : Nat, decrease : BOOLEAN]
    BY <1>0, <1>3 DEF Strategy
  <2>2. d \in 1 .. strat.next
    <3>1. strat.next >= 1  BY <1>0, <2>1
    <3> QED  BY <1>1, <2>1, <3>1, PrevPowerBounds
  <2>3. ASSUME NEW v \in InitSize .. strat.max, NEW x \in BOOLEAN
        PROVE  Strategy([strat EXCEPT !.next = v, !.decrease = x])
    <3>1. v \in Nat  BY <1>0, <2>1
    <3> QED  BY <1>0, <2>1, <3>1 DEF Strategy
  <2>4. CASE n >= strat.next
    <3>1. PICK v : v = AtMost(strat.max, 2 * strat.next)  OBVIOUS
    <3>2. v \in InitSize .. strat.max  BY <1>0, <2>1, <3>1 DEF AtMost
    <3>3. Record(n) = [strat EXCEPT !.next = v, !.decrease = FALSE]  BY <1>3, <2>4, <3>1, Zenon DEF Record
    <3> QED  BY <2>3, <3>2, <3>3
  <2>5. CASE ~(n >= strat.next) /\ n < d /\ strat.decrease
    <3>1. PICK v : v = AtLeast(InitSize, d)  OBVIOUS
    <3>2. v \in InitSize .. strat.max  BY <1>0, <2>1, <2>2, <3>1 DEF AtLeast
    <3>3. Record(n) = [strat EXCEPT !.next = v, !.decrease = FALSE]  BY <1>1, <1>3, <2>5, <3>1, Zenon DEF Record
    <3> QED  BY <2>3, <3>2, <3>3
  <2>6. CASE ~(n >= strat.next) /\ ~(n < d /\ strat.decrease)
    <3>0. (n < d) \in BOOLEAN  OBVIOUS
    <3>1. PICK x \in BOOLEAN : x = (n < d)  BY <3>0, Zenon
    <3>2. Record(n) = [strat EXCEPT !.decrease = n < d]  BY <1>1, <1>3, <2>6, Zenon DEF Record
    <3>3. Record(n) = [strat EXCEPT !.decrease = x]  BY <3>1, <3>2, Zenon
    <3> QED  BY <1>0, <2>1, <3>3 DEF Strategy
  <2> QED  BY <2>4, <2>5, <2>6
<1> QED  BY <1>2, <1>3

\* Joining tokens is associative.
LEMMA TokenAssoc == \A a, b, c \in Seq(Token) : (a \o b) \o c = a \o (b \o c)
BY Joins, Zenon

\* The empty sequence is a unit of joining tokens.
LEMMA TokenUnit == \A a \in Seq(Token) : a \o <<>> = a /\ <<>> \o a = a
BY Joins, Zenon

\* Joined tokens are tokens.
LEMMA TokenJoin == \A a, b \in Seq(Token) : a \o b \in Seq(Token)
BY Joins, Zenon

-----------------------------------------------------------------------------
(* BufferedRead: the heads of a response.                                  *)

\* Heads followed by one more informational head.
LEMMA OneHeadMoreIs == \A X, r : r \in OneHeadMore(X) <=> \E i \in X : \E h \in HeadsOf("i") : r = i \o h
BY DEF OneHeadMore

\* The function InfosOf is.
InfosAre(f) == f = [n \in 0 .. Infos |-> IF n = 0 THEN {<<>>} ELSE OneHeadMore(f[n - 1])]

\* There is one, built up from fewer heads.
LEMMA InfosExist == \E f : InfosAre(f)
<1> DEFINE D(f, m) == IF m = 0 THEN {<<>>} ELSE OneHeadMore(f[m - 1])
           Upto(f, n) == f = [m \in 0 .. n |-> D(f, m)]
           T == {n \in Nat : \E f : Upto(f, n)}
<1>1. 0 \in T
  <2> DEFINE g == [m \in 0 .. 0 |-> {<<>>}]
             h == [m \in 0 .. 0 |-> D(g, m)]
  <2>1. \A m \in 0 .. 0 : g[m] = h[m]  OBVIOUS
  <2>2. g = h  BY <2>1
  <2>3. Upto(g, 0)  BY <2>2, Zenon
  <2> QED  BY <2>3, Zenon
<1>2. ASSUME NEW n \in Nat, n \in T PROVE n + 1 \in T
  <2>1. PICK f : Upto(f, n)  BY <1>2, Zenon
  <2> DEFINE g == [m \in 0 .. n + 1 |-> IF m <= n THEN f[m] ELSE D(f, m)]
             h == [m \in 0 .. n + 1 |-> D(g, m)]
             F == [m \in 0 .. n |-> D(f, m)]
  <2>2. ASSUME NEW m \in 0 .. n + 1 PROVE D(g, m) = D(f, m)
    <3>1. CASE m = 0  BY <3>1
    <3>2. CASE m # 0
      <4>1. m - 1 \in 0 .. n + 1 /\ m - 1 <= n  BY <3>2
      <4>2. g[m - 1] = f[m - 1]  BY <4>1
      <4> HIDE DEF g
      <4> QED  BY <3>2, <4>2
    <3> QED  BY <3>1, <3>2
  <2>3. ASSUME NEW m \in 0 .. n + 1 PROVE g[m] = D(f, m)
    <3>1. CASE m <= n
      <4>1. g[m] = f[m] /\ m \in 0 .. n  BY <3>1
      <4>2. F[m] = D(f, m)
        <5> HIDE DEF D
        <5> QED  BY <4>1
      <4>3. f[m] = F[m]
        <5> HIDE DEF D
        <5> QED  BY <2>1, Zenon
      <4> QED  BY <4>1, <4>2, <4>3, Zenon
    <3>2. CASE ~(m <= n)
      <4> HIDE DEF D
      <4> QED  BY <3>2
    <3> QED  BY <3>1, <3>2
  <2>4. g = h
    <3> HIDE DEF D, F
    <3>2. \A m \in 0 .. n + 1 : g[m] = h[m]  BY <2>2, <2>3, Zenon
    <3>3. DOMAIN g = DOMAIN h  OBVIOUS
    <3> QED  BY <3>2, <3>3
  <2>5. Upto(g, n + 1)  BY <2>4, Zenon
  <2>6. n + 1 \in Nat  OBVIOUS
  <2> QED  BY <2>5, <2>6, Zenon
<1>3. Nat \subseteq T
  <2> HIDE DEF T
  <2> QED  BY <1>1, <1>2, SetInduction
<1>4. Infos \in T
  <2> HIDE DEF T
  <2> QED  BY <1>3, ReadAssumption
<1> QED  BY <1>4, Zenon DEF InfosAre

\* No informational head, or one more than before.
LEMMA InfosRules ==
  InfosOf[0] = {<<>>} /\ \A n \in 1 .. Infos : InfosOf[n] = OneHeadMore(InfosOf[n - 1])
<1> DEFINE f == CHOOSE g : g = [n \in 0 .. Infos |-> IF n = 0 THEN {<<>>} ELSE OneHeadMore(g[n - 1])]
<1>1. f = [n \in 0 .. Infos |-> IF n = 0 THEN {<<>>} ELSE OneHeadMore(f[n - 1])]
  BY InfosExist, Zenon DEF InfosAre
<1>2. InfosOf = f  BY Zenon DEF InfosOf
<1> HIDE DEF f
<1>3. ASSUME NEW m \in 0 .. Infos
      PROVE  f[m] = IF m = 0 THEN {<<>>} ELSE OneHeadMore(f[m - 1])
  <2> DEFINE F == [n \in 0 .. Infos |-> IF n = 0 THEN {<<>>} ELSE OneHeadMore(f[n - 1])]
  <2>1. F[m] = IF m = 0 THEN {<<>>} ELSE OneHeadMore(f[m - 1])  OBVIOUS
  <2>2. f = F  BY <1>1, Zenon
  <2> HIDE DEF F
  <2> QED  BY <2>1, <2>2, Zenon
<1>4. 0 \in 0 .. Infos /\ \A n \in 1 .. Infos : n \in 0 .. Infos /\ n # 0  BY ReadAssumption
<1> QED  BY <1>2, <1>3, <1>4, Zenon

\* What a head is: its status, and what httparse finds.
Headed(h, k) ==
  /\ h \in Seq(Token) /\ h # <<>> /\ h[1] = k /\ HeadEnd(h) = Len(h)
  /\ h[Len(h) - 1] = Cr => h[Len(h) - 3] = Cr

\* All heads are.
LEMMA HeadShape ==
  ASSUME NEW k \in {"i", "f"}, NEW h \in HeadsOf(k)
  PROVE  Headed(h, k)
<1>1. PICK a \in Heads, t \in Terminators : h = <<k>> \o a \o t
  <2>1. \E a \in Heads : \E t \in Terminators : h = <<k>> \o a \o t  BY DEF HeadsOf
  <2> QED  BY <2>1, Zenon
<1>2. a \in Seq(Token) /\ t \in Seq(Token)  BY HeadAssumption, Zenon
<1>3. k \in Token  BY DEF Token
<1>4. PICK c : c = <<k>> \o a  OBVIOUS
<1>5. c \in Seq(Token) /\ Len(c) = 1 + Len(a) /\ c[1] = k  BY <1>2, <1>3, <1>4
<1>6. PICK d : d = c \o t  OBVIOUS
<1>7. d \in Seq(Token) /\ Len(d) = Len(c) + Len(t) /\ d[1] = c[1]
  <2>1. 1 \in 1 .. Len(c)  BY <1>2, <1>5
  <2>2. d[1] = c[1]  BY <1>2, <1>5, <1>6, <2>1, ConcatProperties
  <2>3. d \in Seq(Token) /\ Len(d) = Len(c) + Len(t)  BY <1>2, <1>5, <1>6, ConcatProperties
  <2> QED  BY <2>2, <2>3
<1>8. d # <<>>  BY <1>2, <1>5, <1>7
<1>9. h = d  BY <1>1, <1>4, <1>6, Zenon
<1>10. HeadEnd(h) = Len(h) /\ (h[Len(h) - 1] = Cr => h[Len(h) - 3] = Cr)
  <2>1. h \in HeadsOf("i") \cup HeadsOf("f")  BY Zenon
  <2> QED  BY <2>1, HeadAssumption, Zenon
<1> QED  BY <1>5, <1>7, <1>8, <1>9, <1>10, Zenon DEF Headed

\* Informational heads are tokens.
LEMMA InfosType == \A n \in 0 .. Infos : InfosOf[n] \subseteq Seq(Token)
<1> DEFINE T == {n \in Nat : n <= Infos => InfosOf[n] \subseteq Seq(Token)}
<1>0. Infos \in Nat  BY ReadAssumption
<1>1. 0 \in T
  <2>1. InfosOf[0] \subseteq Seq(Token)  BY InfosRules
  <2> QED  BY <2>1
<1>2. ASSUME NEW n \in Nat, n \in T PROVE n + 1 \in T
  <2> SUFFICES ASSUME n + 1 <= Infos PROVE InfosOf[n + 1] \subseteq Seq(Token)  OBVIOUS
  <2>1. n + 1 \in 1 .. Infos /\ (n + 1) - 1 = n /\ n <= Infos  BY <1>0
  <2>2. InfosOf[n + 1] = OneHeadMore(InfosOf[n])  BY <2>1, InfosRules, Zenon
  <2>3. InfosOf[n] \subseteq Seq(Token)  BY <1>2, <2>1
  <2> SUFFICES ASSUME NEW r \in OneHeadMore(InfosOf[n]) PROVE r \in Seq(Token)  BY <2>2
  <2>4. PICK i \in InfosOf[n], h \in HeadsOf("i") : r = i \o h
    <3>1. PICK X : X = InfosOf[n]  OBVIOUS
    <3>2. r \in OneHeadMore(X)  BY <3>1, Zenon
    <3>3. \E i \in X : \E h \in HeadsOf("i") : r = i \o h  BY <3>2, OneHeadMoreIs
    <3> QED  BY <3>1, <3>3, Zenon
  <2>5. i \in Seq(Token) /\ h \in Seq(Token)  BY <2>3, <2>4, HeadShape, Zenon DEF Headed
  <2> QED  BY <2>4, <2>5
<1>3. Nat \subseteq T
  <2> HIDE DEF T
  <2> QED  BY <1>1, <1>2, SetInduction
<1> QED
  <2> TAKE n \in 0 .. Infos
  <2>1. n \in T /\ n <= Infos
    <3> HIDE DEF T
    <3> QED  BY <1>0, <1>3
  <2> QED  BY <2>1

\* They begin with one of them, and the others follow.
FirstOne(n, r) == \E h \in HeadsOf("i"), i \in InfosOf[n] : r = h \o i

\* The first of several informational heads.
LEMMA InfosFirst == \A n \in 1 .. Infos : \A r \in InfosOf[n] : FirstOne(n - 1, r)
<1> DEFINE T == {n \in Nat : n + 1 <= Infos => \A r \in InfosOf[n + 1] : FirstOne(n, r)}
<1>0. Infos \in Nat  BY ReadAssumption
<1>1. 0 \in T
  <2> SUFFICES ASSUME 1 <= Infos, NEW r \in InfosOf[1] PROVE FirstOne(0, r)
    <3>1. 0 + 1 = 1  OBVIOUS
    <3> QED  BY <3>1
  <2>1. 1 \in 1 .. Infos /\ 1 - 1 = 0  BY <1>0
  <2>2. InfosOf[1] = OneHeadMore({<<>>})
    <3>1. PICK o \in 1 .. Infos : o = 1 /\ o - 1 = 0  BY <2>1
    <3>2. InfosOf[o] = OneHeadMore(InfosOf[o - 1])  BY InfosRules, Zenon
    <3> QED  BY <3>1, <3>2, InfosRules, Zenon
  <2>3. PICK h \in HeadsOf("i") : r = <<>> \o h
    <3>1. r \in OneHeadMore({<<>>})  BY <2>2
    <3>2. PICK X : X = {<<>>}  OBVIOUS
    <3>3. \E i \in X : \E h \in HeadsOf("i") : r = i \o h
      <4>1. r \in OneHeadMore(X)  BY <3>1, <3>2, Zenon
      <4> QED  BY <4>1, OneHeadMoreIs
    <3>4. PICK i \in X : \E h \in HeadsOf("i") : r = i \o h  BY <3>3
    <3>5. i = <<>>  BY <3>2
    <3> QED  BY <3>4, <3>5, Zenon
  <2>4. h \in Seq(Token)  BY HeadShape, Zenon DEF Headed
  <2>5. r = h \o <<>>  BY <2>3, <2>4
  <2>6. <<>> \in InfosOf[0]  BY InfosRules, Zenon
  <2> QED  BY <2>5, <2>6, Zenon DEF FirstOne
<1>2. ASSUME NEW n \in Nat, n \in T PROVE n + 1 \in T
  <2> SUFFICES ASSUME (n + 1) + 1 <= Infos, NEW r \in InfosOf[(n + 1) + 1] PROVE FirstOne(n + 1, r)  OBVIOUS
  <2>1. /\ (n + 1) + 1 \in 1 .. Infos /\ ((n + 1) + 1) - 1 = n + 1 /\ n + 1 \in 1 .. Infos
        /\ (n + 1) - 1 = n /\ n + 1 <= Infos /\ n \in 0 .. Infos
    BY <1>0
  <2>2. InfosOf[(n + 1) + 1] = OneHeadMore(InfosOf[n + 1]) /\ InfosOf[n + 1] = OneHeadMore(InfosOf[n])
    <3>1. PICK m \in 1 .. Infos : m = (n + 1) + 1 /\ m - 1 = n + 1  BY <2>1
    <3>2. PICK o \in 1 .. Infos : o = n + 1 /\ o - 1 = n  BY <2>1
    <3>3. InfosOf[m] = OneHeadMore(InfosOf[m - 1]) /\ InfosOf[o] = OneHeadMore(InfosOf[o - 1])  BY InfosRules, Zenon
    <3> QED  BY <3>1, <3>2, <3>3, Zenon
  <2>3. PICK i \in InfosOf[n + 1], h \in HeadsOf("i") : r = i \o h
    <3>1. PICK X : X = InfosOf[n + 1]  OBVIOUS
    <3>2. r \in OneHeadMore(X)  BY <2>2, <3>1, Zenon
    <3>3. \E i \in X : \E h \in HeadsOf("i") : r = i \o h  BY <3>2, OneHeadMoreIs
    <3> QED  BY <3>1, <3>3, Zenon
  <2>4. FirstOne(n, i)  BY <1>2, <2>1, <2>3
  <2>5. PICK g \in HeadsOf("i"), j \in InfosOf[n] : i = g \o j  BY <2>4, Zenon DEF FirstOne
  <2>6. g \in Seq(Token) /\ h \in Seq(Token)  BY <2>3, <2>5, HeadShape, Zenon DEF Headed
  <2>7. j \in Seq(Token)  BY <2>1, <2>5, InfosType, Zenon
  <2>8. (g \o j) \o h = g \o (j \o h)  BY <2>6, <2>7, TokenAssoc, Zenon
  <2>9. j \o h \in InfosOf[n + 1]
    <3>1. j \o h \in OneHeadMore(InfosOf[n])  BY <2>3, <2>5, OneHeadMoreIs, Zenon
    <3> QED  BY <2>2, <3>1, Zenon
  <2> QED  BY <2>3, <2>5, <2>8, <2>9, Zenon DEF FirstOne
<1>3. Nat \subseteq T
  <2> HIDE DEF T
  <2> QED  BY <1>1, <1>2, SetInduction
<1> QED
  <2> TAKE n \in 1 .. Infos
  <2>1. n - 1 \in Nat /\ (n - 1) + 1 = n /\ n <= Infos  BY <1>0
  <2>2. n - 1 \in T
    <3> HIDE DEF T
    <3> QED  BY <1>3, <2>1
  <2>3. \A r \in InfosOf[(n - 1) + 1] : FirstOne(n - 1, r)  BY <2>1, <2>2
  <2> QED  BY <2>1, <2>3, Zenon

\* is_complete_fast finds the end of a head that was not there before.
LEMMA FastFinds ==
  ASSUME NEW k \in {"i", "f"}, NEW h, Headed(h, k),
         NEW b \in Seq(Token), NEW w \in Seq(Token), NEW x \in Seq(Token), b \o w = h \o x,
         NEW p \in 1 .. Len(b), HeadEnd(SubSeq(b, 1, p)) = 0, HeadEnd(b) # 0
  PROVE  IsCompleteFast(b, p)
<1>1. h \in Seq(Token) /\ h # <<>> /\ h[1] = k /\ HeadEnd(h) = Len(h)  BY Zenon DEF Headed
<1>2. PICK e, l : e = Len(h) /\ l = Len(b)  OBVIOUS
<1>3. e \in Nat /\ e # 0 /\ l \in Nat /\ p \in 1 .. l  BY <1>1, <1>2
<1>4. e <= l
  <2>1. Len(b) < Len(h) => HeadEnd(b) = 0  BY <1>1, HeadCut
  <2> QED  BY <1>2, <1>3, <2>1
<1>5. p < e
  <2> SUFFICES ASSUME e <= p PROVE FALSE  BY <1>3
  <2>1. PICK c, d : c = SubSeq(b, 1, p) /\ d = SubSeq(b, p + 1, Len(b))  OBVIOUS
  <2>2. p \in 0 .. Len(b)  OBVIOUS
  <2>3. /\ SubSeq(b, 1, p) \in Seq(Token) /\ Len(SubSeq(b, 1, p)) = p
        /\ SubSeq(b, p + 1, Len(b)) \in Seq(Token)
        /\ b = SubSeq(b, 1, p) \o SubSeq(b, p + 1, Len(b))
    BY <2>2, Halves
  <2>4. c \in Seq(Token) /\ Len(c) = p /\ d \in Seq(Token) /\ b = c \o d  BY <2>1, <2>3, Zenon
  <2>5. PICK v \in Seq(Token) : v = d \o w  BY <2>4, TokenJoin
  <2>6. c \o v = h \o x
    <3>0. c \in Seq(Token) /\ d \in Seq(Token)  BY <2>4
    <3>1. (c \o d) \o w = c \o (d \o w)  BY <3>0, TokenAssoc
    <3> QED  BY <2>4, <2>5, <3>1, Zenon
  <2>7. Len(c) >= Len(h)  BY <1>2, <1>3, <2>4
  <2>8. HeadEnd(c) = Len(h)  BY <1>1, <2>4, <2>6, <2>7, HeadCut
  <2> QED  BY <1>2, <1>3, <2>1, <2>8
<1>6. \A i \in 1 .. e : b[i] = h[i]
  <2>1. SubSeq(b, 1, Len(h)) = h
    <3>1. Len(b) >= Len(h)  BY <1>2, <1>3, <1>4
    <3> QED  BY <1>1, <3>1, HeadCut
  <2>2. Len(h) \in 0 .. Len(b)  BY <1>2, <1>3, <1>4
  <2>3. \A i \in 1 .. Len(h) : SubSeq(b, 1, Len(h))[i] = b[i]  BY <2>2, Halves
  <2> QED  BY <1>2, <2>1, <2>3, Zenon
<1>7. Ends(h, e)
  <2>1. HeadEnd(h) # 0  BY <1>1, <1>2, <1>3
  <2> QED  BY <1>1, <1>2, <2>1, HeadEndIs, Zenon
<1>8. e \in 3 .. Len(h) /\ h[e] = Lf /\ (h[e - 1] = Lf \/ (h[e - 1] = Cr /\ h[e - 2] = Lf))
  BY <1>7, Zenon DEF Ends
<1>9. CASE h[e - 1] = Lf
  <2>1. PICK i : i = e - 1  OBVIOUS
  <2>2. i \in 1 .. e /\ i + 1 = e /\ e \in 1 .. e /\ i < l  BY <1>2, <1>3, <1>4, <1>8, <2>1
  <2>3. b[i] = Lf /\ b[i + 1] = Lf  BY <1>6, <1>8, <1>9, <2>1, <2>2, Zenon
  <2>4. EndsAt(b, i)  BY <1>2, <2>2, <2>3, Zenon DEF EndsAt
  <2>5. i \in (IF p < 3 THEN 1 ELSE p - 2) .. Len(b)  BY <1>2, <1>3, <1>5, <2>1, <2>2
  <2> QED  BY <2>4, <2>5, Zenon DEF IsCompleteFast
<1>10. CASE h[e - 1] = Cr /\ h[e - 2] = Lf
  <2>1. h[e - 3] = Cr  BY <1>2, <1>10, Zenon DEF Headed
  <2>2. e # 3
    <3>1. Lf # k  BY DEF Lf
    <3>2. e = 3 => e - 2 = 1  OBVIOUS
    <3> QED  BY <1>1, <1>10, <3>1, <3>2
  <2>3. PICK i : i = e - 3  OBVIOUS
  <2>4. /\ i \in 1 .. e /\ i + 1 = e - 2 /\ i + 2 = e - 1 /\ i + 3 = e
        /\ i + 1 \in 1 .. e /\ i + 2 \in 1 .. e /\ i + 3 \in 1 .. e
    BY <1>2, <1>3, <1>8, <2>2, <2>3
  <2>5. b[i] = Cr /\ b[i + 1] = Lf /\ b[i + 2] = Cr /\ b[i + 3] = Lf
    BY <1>6, <1>8, <1>10, <2>1, <2>3, <2>4, Zenon
  <2>6. AtMost(Len(b), i + 3) = i + 3  BY <1>2, <1>3, <1>4, <2>4 DEF AtMost
  <2>7. SubSeq(b, i + 1, i + 3) = <<Lf, Cr, Lf>>
    <3>1. i + 1 \in Nat /\ i + 1 >= 1 /\ i + 3 <= Len(b)  BY <1>2, <1>3, <1>4, <2>4
    <3>2. PICK s : s = SubSeq(b, i + 1, i + 3)  OBVIOUS
    <3>3. i \in Nat /\ i + 3 \in Nat  BY <2>4
    <3>4. s \in Seq(Token) /\ Len(s) = 3  BY <3>1, <3>2, <3>3
    <3>5. s[1] = b[i + 1] /\ s[2] = b[i + 2] /\ s[3] = b[i + 3]  BY <3>1, <3>2, <3>3
    <3>6. s = <<Lf, Cr, Lf>>  BY <2>5, <3>4, <3>5
    <3> QED  BY <3>2, <3>6
  <2>8. EndsAt(b, i)  BY <2>5, <2>6, <2>7, Zenon DEF EndsAt
  <2>9. i \in (IF p < 3 THEN 1 ELSE p - 2) .. Len(b)  BY <1>2, <1>3, <1>4, <1>5, <2>3, <2>4
  <2> QED  BY <2>8, <2>9, Zenon DEF IsCompleteFast
<1> QED  BY <1>8, <1>9, <1>10, Zenon

-----------------------------------------------------------------------------
(* BufferedRead: what the reader keeps.                                    *)

\* The response that is read.
Response ==
  /\ stream.count \in 0 .. Infos /\ stream.infos \in InfosOf[stream.count]
  /\ stream.infos \in Seq(Token) /\ stream.head \in Seq(Token) /\ stream.body \in Seq(Token)
  /\ \/ stream.head \in HeadsOf("f")
     \/ stream.head = <<>> /\ stream.body # <<>> /\ stream.body[1] = "g"

\* The kinds of the variables.
RTypes ==
  /\ Response /\ Strategy(strat)
  /\ wire \in Seq(Token) /\ buf \in Seq(Token) /\ head \in Seq(Token) /\ out \in Seq(Token)
  /\ partial \in Nat /\ called \in Nat
  /\ pc \in {"parse", "http", "read", "body", "toolarge", "incomplete", "error"}

\* The heads that are taken are the first called ones; the others are the
\* first bytes that are left.
RPlaced ==
  IF pc = "body"
  THEN head = stream.infos \o stream.head /\ called = stream.count /\ out \o (buf \o wire) = stream.body
  ELSE /\ called <= stream.count /\ out = <<>>
       /\ \E r \in InfosOf[stream.count - called] :
            head \o r = stream.infos /\ buf \o wire = r \o (stream.head \o stream.body)

\* What has been looked at holds no head, and begins one.
RScanned ==
  /\ pc \in {"read", "toolarge", "incomplete"} => HeadEnd(buf) = 0
  /\ pc = "read" => partial = Len(buf) /\ (buf # <<>> => buf[1] # "g")
  /\ pc = "parse" => /\ partial <= Len(buf) /\ HeadEnd(SubSeq(buf, 1, partial)) = 0
                     /\ partial > 0 => buf[1] # "g"
  /\ pc = "http" => buf # <<>>

\* The inductive invariant.
RInv == RTypes /\ RPlaced /\ RScanned

\* The buffer begins with an informational head, with the final head, or with
\* what is not HTTP.
AtInfo ==
  /\ buf[1] = "i" /\ called < stream.count
  /\ \E h \in HeadsOf("i") : \E i \in InfosOf[stream.count - called - 1] :
       /\ head \o (h \o i) = stream.infos
       /\ buf \o wire = h \o (i \o (stream.head \o stream.body))
AtFinal ==
  /\ buf[1] = "f" /\ called = stream.count /\ stream.head \in HeadsOf("f")
  /\ head = stream.infos /\ buf \o wire = stream.head \o stream.body
AtOther ==
  /\ buf[1] = "g" /\ called = stream.count /\ stream.head = <<>>
  /\ head = stream.infos /\ buf \o wire = stream.body

\* The first token of a join.
LEMMA FirstOfJoin == \A a, b \in Seq(Token) : a # <<>> => (a \o b)[1] = a[1]
<1> SUFFICES ASSUME NEW a \in Seq(Token), NEW b \in Seq(Token), a # <<>> PROVE (a \o b)[1] = a[1]
  OBVIOUS
<1>1. 1 \in 1 .. Len(a)  OBVIOUS
<1> QED  BY <1>1, ConcatProperties

\* One of them is so, as long as no head has been returned.
LEMMA BufferBegins ==
  ASSUME RTypes, RPlaced, pc # "body", buf # <<>>
  PROVE  AtInfo \/ AtFinal \/ AtOther
<1> DEFINE rest == stream.head \o stream.body
<1>1. /\ Response /\ wire \in Seq(Token) /\ buf \in Seq(Token) /\ head \in Seq(Token)
      /\ called \in Nat
  BY Zenon DEF RTypes
<1>2. /\ stream.count \in 0 .. Infos /\ stream.head \in Seq(Token) /\ stream.body \in Seq(Token)
      /\ \/ stream.head \in HeadsOf("f")
         \/ stream.head = <<>> /\ stream.body # <<>> /\ stream.body[1] = "g"
  BY <1>1, Zenon DEF Response
<1>3. called <= stream.count  BY Zenon DEF RPlaced
<1>4. PICK r \in InfosOf[stream.count - called] : head \o r = stream.infos /\ buf \o wire = r \o rest
  BY Zenon DEF RPlaced
<1>5. rest \in Seq(Token)  BY <1>2, TokenJoin, Zenon
<1>6. (buf \o wire)[1] = buf[1]  BY <1>1, FirstOfJoin, Zenon
<1> HIDE DEF rest
<1>7. CASE called < stream.count
  <2>0. Infos \in Nat /\ stream.count - called \in 1 .. Infos  BY <1>1, <1>2, <1>7, ReadAssumption
  <2>1. PICK n \in 1 .. Infos : n = stream.count - called  BY <2>0, Zenon
  <2>2. FirstOne(n - 1, r)  BY <1>4, <2>1, InfosFirst, Zenon
  <2>3. PICK h \in HeadsOf("i"), i \in InfosOf[n - 1] : r = h \o i  BY <2>2, Zenon DEF FirstOne
  <2>4. n - 1 \in 0 .. Infos /\ n - 1 = stream.count - called - 1  BY <1>1, <1>2, <2>0, <2>1
  <2>5. i \in Seq(Token)  BY <2>3, <2>4, InfosType, Zenon
  <2>6. h \in Seq(Token) /\ h # <<>> /\ h[1] = "i"  BY <2>3, HeadShape, Zenon DEF Headed
  <2>7. (h \o i) \o rest = h \o (i \o rest)  BY <1>5, <2>5, <2>6, TokenAssoc, Zenon
  <2>8. i \o rest \in Seq(Token)  BY <1>5, <2>5, TokenJoin, Zenon
  <2>9. (h \o (i \o rest))[1] = h[1]  BY <2>6, <2>8, FirstOfJoin, Zenon
  <2>10. buf[1] = "i"  BY <1>4, <1>6, <2>3, <2>6, <2>7, <2>9, Zenon
  <2> QED  BY <1>4, <1>7, <2>3, <2>4, <2>7, <2>10, Zenon DEF AtInfo, rest
<1>8. CASE called = stream.count
  <2>1. stream.count - called = 0  BY <1>1, <1>2, <1>8
  <2>2. r = <<>>  BY <1>4, <2>1, InfosRules
  <2>3. head = stream.infos /\ buf \o wire = rest  BY <1>1, <1>4, <1>5, <2>2, TokenUnit, Zenon
  <2>4. CASE stream.head \in HeadsOf("f")
    <3>1. stream.head # <<>> /\ stream.head[1] = "f"  BY <2>4, HeadShape, Zenon DEF Headed
    <3>2. rest[1] = stream.head[1]  BY <1>2, <3>1, FirstOfJoin, Zenon DEF rest
    <3> QED  BY <1>6, <1>8, <2>3, <2>4, <3>1, <3>2, Zenon DEF AtFinal, rest
  <2>5. CASE stream.head = <<>> /\ stream.body # <<>> /\ stream.body[1] = "g"
    <3>1. rest = stream.body  BY <1>2, <2>5, TokenUnit, Zenon DEF rest
    <3> QED  BY <1>6, <1>8, <2>3, <2>5, <3>1, Zenon DEF AtOther
  <2> QED  BY <1>2, <2>4, <2>5, Zenon
<1> QED  BY <1>1, <1>2, <1>3, <1>7, <1>8

\* What a buffer that does not begin with another protocol begins with.
LEMMA HeadAhead ==
  ASSUME RTypes, RPlaced, pc # "body", buf # <<>>, buf[1] # "g"
  PROVE  \E k \in {"i", "f"} : \E h, x \in Seq(Token) : Headed(h, k) /\ buf \o wire = h \o x
<1>1. /\ stream.count \in 0 .. Infos /\ stream.head \in Seq(Token) /\ stream.body \in Seq(Token)
      /\ called \in Nat
  BY Zenon DEF RTypes, Response
<1>2. CASE AtInfo
  <2>1. PICK h \in HeadsOf("i"), i \in InfosOf[stream.count - called - 1] :
          buf \o wire = h \o (i \o (stream.head \o stream.body))
    BY <1>2, Zenon DEF AtInfo
  <2>2. stream.count - called - 1 \in 0 .. Infos
    <3>1. called < stream.count  BY <1>2, Zenon DEF AtInfo
    <3> QED  BY <1>1, <3>1, ReadAssumption
  <2>3. i \in Seq(Token)  BY <2>1, <2>2, InfosType, Zenon
  <2>4. i \o (stream.head \o stream.body) \in Seq(Token)  BY <1>1, <2>3, TokenJoin, Zenon
  <2>5. Headed(h, "i")  BY <2>1, HeadShape, Zenon
  <2>6. h \in Seq(Token)  BY <2>5, Zenon DEF Headed
  <2> QED  BY <2>1, <2>4, <2>5, <2>6, Zenon
<1>3. CASE AtFinal
  <2>1. Headed(stream.head, "f")  BY <1>3, HeadShape, Zenon DEF AtFinal
  <2> QED  BY <1>1, <1>3, <2>1, Zenon DEF AtFinal
<1>4. ~AtOther  BY Zenon DEF AtOther
<1> QED  BY <1>2, <1>3, <1>4, BufferBegins, Zenon

\* Nothing holds no head.
LEMMA NothingEnds == HeadEnd(<<>>) = 0 /\ <<>> \in Seq(Token) /\ Len(<<>>) = 0
<1>1. <<>> \in Seq(Token) /\ Len(<<>>) = 0  OBVIOUS
<1>2. PICK s \in Seq(Token) : s = <<>>  BY <1>1, Zenon
<1>3. Len(s) = 0  BY <1>1, <1>2, Zenon
<1>4. \A e : ~Ends(s, e)
  <2> SUFFICES ASSUME NEW e, Ends(s, e) PROVE FALSE  OBVIOUS
  <2>1. e \in 3 .. Len(s)  BY Zenon DEF Ends
  <2> QED  BY <1>3, <2>1
<1>5. HeadEnd(s) = 0  BY <1>4, HeadEndIs, Zenon
<1> QED  BY <1>1, <1>2, <1>5, Zenon

\* The response that is read is one of those RInit chooses from.
LEMMA ResponseInit ==
  ASSUME stream \in Streams, stream.infos \in InfosOf[stream.count]
  PROVE  Response
<1>1. PICK n \in 0 .. Infos : stream.count = n  BY DEF Streams
<1>2. PICK m \in (HeadsOf("f") \X Bodies) \cup {<<<<>>, <<"g">> \o b>> : b \in Bodies} :
        stream.head = m[1] /\ stream.body = m[2]
  BY DEF Streams
<1>3. stream.infos \in Seq(Token)  BY <1>1, InfosType
<1>4. Bodies \subseteq Seq(Token)  BY HeadAssumption, Zenon
<1>5. CASE m \in HeadsOf("f") \X Bodies
  <2>1. m[1] \in HeadsOf("f") /\ m[2] \in Bodies  BY <1>5
  <2>2. m[1] \in Seq(Token)  BY <2>1, HeadShape, Zenon DEF Headed
  <2>3. m[2] \in Seq(Token)  BY <1>4, <2>1
  <2> QED  BY <1>1, <1>2, <1>3, <2>1, <2>2, <2>3, Zenon DEF Response
<1>6. CASE m \in {<<<<>>, <<"g">> \o b>> : b \in Bodies}
  <2>1. PICK b \in Bodies : m = <<<<>>, <<"g">> \o b>>  BY <1>6
  <2>2. m[1] = <<>> /\ m[2] = <<"g">> \o b  BY <2>1
  <2>3. b \in Seq(Token)  BY <1>4
  <2>4. "g" \in Token  BY DEF Token
  <2>5. <<"g">> \in Seq(Token) /\ <<"g">> # <<>> /\ <<"g">>[1] = "g"  BY <2>4
  <2>6. PICK c : c = <<"g">> \o b  OBVIOUS
  <2>7. c \in Seq(Token) /\ c[1] = "g"  BY <2>3, <2>5, <2>6, TokenJoin, FirstOfJoin, Zenon
  <2>8. c # <<>>
    <3>1. Len(c) = Len(<<"g">>) + Len(b) /\ Len(<<"g">>) = 1 /\ Len(b) \in Nat  BY <2>3, <2>4, <2>6
    <3>2. Len(c) # 0  BY <3>1
    <3> QED  BY <3>2
  <2> QED  BY <1>1, <1>2, <1>3, <2>2, <2>6, <2>7, <2>8, NothingEnds, Zenon DEF Response
<1> QED  BY <1>2, <1>5, <1>6

\* The strategies that Buffered::new and its setters make.
LEMMA StrategyInit == strat \in Strategies => Strategy(strat)
<1>0. InitSize \in Nat /\ InitSize >= 4  BY ReadAssumption
<1> SUFFICES ASSUME strat \in Strategies PROVE Strategy(strat)  OBVIOUS
<1>1. CASE strat \in {[exact |-> FALSE, next |-> InitSize, max |-> m, decrease |-> FALSE] : m \in Maxes}
  <2>1. PICK m \in Maxes : strat = [exact |-> FALSE, next |-> InitSize, max |-> m, decrease |-> FALSE]  BY <1>1
  <2>2. m \in Nat /\ m >= InitSize  BY ReadAssumption
  <2> QED  BY <1>0, <2>1, <2>2 DEF Strategy
<1>2. CASE strat \in {[exact |-> TRUE, next |-> m, max |-> m, decrease |-> FALSE] : m \in Exacts}
  <2>1. PICK m \in Exacts : strat = [exact |-> TRUE, next |-> m, max |-> m, decrease |-> FALSE]  BY <1>2
  <2>2. m \in Nat /\ m >= 1  BY ReadAssumption
  <2> QED  BY <2>1, <2>2 DEF Strategy
<1> QED  BY <1>1, <1>2 DEF Strategies

\* It holds before anything is read.
LEMMA ReadInit == RInit => RInv
<1> SUFFICES ASSUME RInit PROVE RInv  OBVIOUS
<1>1. /\ stream \in Streams /\ stream.infos \in InfosOf[stream.count]
      /\ wire = stream.infos \o stream.head \o stream.body
      /\ buf = <<>> /\ partial = 0 /\ strat \in Strategies
      /\ pc = "parse" /\ head = <<>> /\ called = 0 /\ out = <<>>
  BY Zenon DEF RInit, None
<1>2. Response /\ Strategy(strat)  BY <1>1, ResponseInit, StrategyInit, Zenon
<1>3. /\ stream.infos \in Seq(Token) /\ stream.head \in Seq(Token) /\ stream.body \in Seq(Token)
      /\ stream.count \in 0 .. Infos
  BY <1>2, Zenon DEF Response
<1>4. wire = stream.infos \o (stream.head \o stream.body)  BY <1>1, <1>3, TokenAssoc, Zenon
<1>5. wire \in Seq(Token)  BY <1>1, <1>3, TokenJoin, Zenon
<1>6. RTypes  BY <1>1, <1>2, <1>5, NothingEnds DEF RTypes
<1>7. RPlaced
  <2>1. 0 <= stream.count /\ stream.count - 0 = stream.count  BY <1>3
  <2>2. <<>> \o stream.infos = stream.infos  BY <1>3, TokenUnit, Zenon
  <2>3. <<>> \o wire = wire  BY <1>5, TokenUnit, Zenon
  <2>4. pc # "body"  BY <1>1
  <2> QED  BY <1>1, <1>4, <2>1, <2>2, <2>3, <2>4, Zenon DEF RPlaced
<1>8. RScanned
  <2>1. SubSeq(<<>>, 1, 0) = <<>> /\ 0 <= 0 /\ ~(0 > 0)  OBVIOUS
  <2>2. pc \notin {"read", "toolarge", "incomplete"} /\ pc # "read" /\ pc # "http"  BY <1>1
  <2> QED  BY <1>1, <2>1, <2>2, NothingEnds, Zenon DEF RScanned
<1> QED  BY <1>6, <1>7, <1>8, Zenon DEF RInv

\* The heads and the bytes stay where they are when neither moves.
LEMMA PlacedStays ==
  ASSUME RPlaced, pc # "body", pc' # "body", UNCHANGED <<wire, buf, head, called, out, stream>>
  PROVE  RPlaced'
<1>1. wire' = wire /\ buf' = buf /\ head' = head /\ called' = called /\ out' = out /\ stream' = stream  OBVIOUS
<1> QED  BY <1>1, Zenon DEF RPlaced

\* The kinds of the variables when only the place in the code and the partial
\* length change.
LEMMA TypesStay ==
  ASSUME RTypes, UNCHANGED <<wire, buf, strat, head, called, out, stream>>, partial' \in Nat,
         pc' \in {"parse", "http", "read", "body", "toolarge", "incomplete", "error"}
  PROVE  RTypes'
<1>1. /\ wire' = wire /\ buf' = buf /\ strat' = strat /\ head' = head /\ called' = called
      /\ out' = out /\ stream' = stream
  OBVIOUS
<1>2. Response' /\ Strategy(strat)'  BY <1>1, Zenon DEF RTypes, Response, Strategy
<1> QED  BY <1>1, <1>2, Zenon DEF RTypes

\* There is no complete head: the reader waits for more, or gives up.
LEMMA StepNoHead ==
  ASSUME RInv, pc \in {"parse", "http"}, NoHead(buf), HeadEnd(buf) = 0, buf # <<>> => buf[1] # "g",
         UNCHANGED <<wire, buf, strat, head, called, out, stream>>
  PROVE  RInv'
<1>1. RTypes /\ RPlaced /\ RScanned  BY Zenon DEF RInv
<1>2. buf \in Seq(Token) /\ partial \in Nat /\ buf' = buf  BY <1>1 DEF RTypes
<1>3. pc' \in {"toolarge", "read"}  BY DEF NoHead
<1>4. pc' = "read" => partial' = Len(buf)
  <2> SUFFICES ASSUME pc' = "read" PROVE partial' = Len(buf)  OBVIOUS
  <2>1. partial' = IF buf = <<>> THEN 0 ELSE Len(buf)  BY DEF NoHead, None
  <2> QED  BY <2>1
<1>5. pc' = "toolarge" => partial' = partial  BY DEF NoHead
<1>6. RTypes'
  <2>1. partial' \in Nat  BY <1>2, <1>3, <1>4, <1>5
  <2>2. pc' \in {"parse", "http", "read", "body", "toolarge", "incomplete", "error"}  BY <1>3
  <2> QED  BY <1>1, <2>1, <2>2, TypesStay
<1>7. RPlaced'
  <2>1. pc # "body" /\ pc' # "body"  BY <1>3
  <2> QED  BY <1>1, <2>1, PlacedStays
<1>8. RScanned'  BY <1>2, <1>3, <1>4 DEF RScanned
<1> QED  BY <1>6, <1>7, <1>8, Zenon DEF RInv

\* parse_headers does not parse.
LEMMA StepParseSkips == RInv /\ ParseSkips => RInv'
<1> SUFFICES ASSUME RInv, ParseSkips PROVE RInv'  OBVIOUS
<1>1. RTypes /\ RPlaced /\ RScanned  BY Zenon DEF RInv
<1>2. /\ pc = "parse" /\ NoHead(buf) /\ UNCHANGED <<wire, buf, strat, head, called, out, stream>>
      /\ buf = <<>> \/ (partial # 0 /\ ~IsCompleteFast(buf, partial))
  BY Zenon DEF ParseSkips, None
<1>3. /\ partial <= Len(buf) /\ HeadEnd(SubSeq(buf, 1, partial)) = 0
      /\ partial > 0 => buf[1] # "g"
  BY <1>1, <1>2, Zenon DEF RScanned
<1>4. wire \in Seq(Token) /\ buf \in Seq(Token) /\ partial \in Nat  BY <1>1, Zenon DEF RTypes
<1>5. CASE buf = <<>>
  <2>1. HeadEnd(buf) = 0  BY <1>5, NothingEnds, Zenon
  <2>2. pc \in {"parse", "http"}  BY <1>2
  <2> QED  BY <1>2, <1>5, <2>1, <2>2, StepNoHead
<1>6. CASE buf # <<>>
  <2>1. partial \in 1 .. Len(buf) /\ partial > 0 /\ pc # "body"  BY <1>2, <1>3, <1>4, <1>6
  <2>2. buf[1] # "g"  BY <1>3, <2>1
  <2>3. PICK k \in {"i", "f"}, h \in Seq(Token), x \in Seq(Token) : Headed(h, k) /\ buf \o wire = h \o x
    <3>1. \E k \in {"i", "f"} : \E h, x \in Seq(Token) : Headed(h, k) /\ buf \o wire = h \o x
      BY <1>1, <1>6, <2>1, <2>2, HeadAhead
    <3> QED  BY <3>1, Zenon
  <2>4. HeadEnd(buf) # 0 => IsCompleteFast(buf, partial)
    BY <1>3, <1>4, <2>1, <2>3, FastFinds
  <2>5. HeadEnd(buf) = 0  BY <1>2, <1>6, <2>4, Zenon
  <2>6. pc \in {"parse", "http"}  BY <1>2
  <2> QED  BY <1>2, <2>2, <2>5, <2>6, StepNoHead
<1> QED  BY <1>5, <1>6

\* parse_headers parses.
LEMMA StepParseEnters == RInv /\ ParseEnters => RInv'
<1> SUFFICES ASSUME RInv, ParseEnters PROVE RInv'  OBVIOUS
<1>1. RTypes /\ RPlaced /\ RScanned  BY Zenon DEF RInv
<1>2. /\ pc = "parse" /\ buf # <<>> /\ pc' = "http" /\ partial' = partial /\ buf' = buf
      /\ UNCHANGED <<wire, buf, strat, head, called, out, stream>>
  BY DEF ParseEnters
<1>3. RTypes'
  <2>1. partial' \in Nat  BY <1>1, <1>2 DEF RTypes
  <2>2. pc' \in {"parse", "http", "read", "body", "toolarge", "incomplete", "error"}  BY <1>2
  <2> QED  BY <1>1, <1>2, <2>1, <2>2, TypesStay
<1>4. RPlaced'
  <2>1. pc # "body" /\ pc' # "body"  BY <1>2
  <2> QED  BY <1>1, <1>2, <2>1, PlacedStays
<1>5. RScanned'  BY <1>2 DEF RScanned
<1> QED  BY <1>3, <1>4, <1>5, Zenon DEF RInv

\* A head that is not complete.
LEMMA StepParsePartial == RInv /\ ParsePartial => RInv'
<1> SUFFICES ASSUME RInv, ParsePartial PROVE RInv'  OBVIOUS
<1>1. /\ pc = "http" /\ buf[1] # "g" /\ HeadEnd(buf) = 0 /\ NoHead(buf)
      /\ UNCHANGED <<wire, buf, strat, head, called, out, stream>>
  BY Zenon DEF ParsePartial
<1>2. pc \in {"parse", "http"}  BY <1>1
<1> QED  BY <1>1, <1>2, StepNoHead

\* split_to at the end of the head: the head, and what follows it.
LEMMA SplitsHead ==
  ASSUME RTypes, NEW h, NEW k, Headed(h, k), NEW x \in Seq(Token), buf \o wire = h \o x,
         HeadEnd(buf) # 0, Split(HeadEnd(buf))
  PROVE  head' = head \o h /\ head' \in Seq(Token) /\ buf' \in Seq(Token) /\ buf' \o wire = x
<1>1. wire \in Seq(Token) /\ buf \in Seq(Token) /\ head \in Seq(Token)  BY Zenon DEF RTypes
<1>2. h \in Seq(Token) /\ h # <<>> /\ HeadEnd(h) = Len(h)  BY Zenon DEF Headed
<1>3. /\ Len(buf) < Len(h) => HeadEnd(buf) = 0
      /\ Len(buf) >= Len(h) =>
           /\ HeadEnd(buf) = Len(h) /\ SubSeq(buf, 1, Len(h)) = h
           /\ SubSeq(buf, Len(h) + 1, Len(buf)) \in Seq(Token)
           /\ SubSeq(buf, Len(h) + 1, Len(buf)) \o wire = x
  BY <1>1, <1>2, HeadCut
<1>4. Len(buf) >= Len(h)
  <2>1. Len(buf) \in Nat /\ Len(h) \in Nat /\ ~(Len(buf) < Len(h))  BY <1>1, <1>2, <1>3
  <2> QED  BY <2>1
<1>5. head' = head \o SubSeq(buf, 1, HeadEnd(buf)) /\ buf' = SubSeq(buf, HeadEnd(buf) + 1, Len(buf))
  BY Zenon DEF Split
<1>6. head' = head \o h /\ buf' \in Seq(Token) /\ buf' \o wire = x  BY <1>3, <1>4, <1>5, Zenon
<1>7. head' \in Seq(Token)  BY <1>1, <1>2, <1>6, TokenJoin, Zenon
<1> QED  BY <1>6, <1>7

\* A 1xx head is reported, and the loop goes on.
LEMMA StepParseInformational == RInv /\ ParseInformational => RInv'
<1> SUFFICES ASSUME RInv, ParseInformational PROVE RInv'  OBVIOUS
<1>1. RTypes /\ RPlaced /\ RScanned  BY Zenon DEF RInv
<1>2. /\ pc = "http" /\ buf[1] = "i" /\ HeadEnd(buf) # 0 /\ Split(HeadEnd(buf)) /\ called' = called + 1
      /\ wire' = wire /\ strat' = strat /\ out' = out /\ stream' = stream
      /\ IF buf' = <<>> THEN NoHead(buf') ELSE UNCHANGED <<pc, partial>>
  BY DEF ParseInformational
<1>3. /\ wire \in Seq(Token) /\ buf \in Seq(Token) /\ head \in Seq(Token) /\ out \in Seq(Token)
      /\ partial \in Nat /\ called \in Nat /\ Response /\ Strategy(strat)
  BY <1>1, Zenon DEF RTypes
<1>4. stream.count \in 0 .. Infos /\ stream.head \in Seq(Token) /\ stream.body \in Seq(Token)
  BY <1>3, Zenon DEF Response
<1>5. AtInfo
  <2>1. buf # <<>> /\ pc # "body"  BY <1>1, <1>2 DEF RScanned
  <2>2. ~AtFinal /\ ~AtOther  BY <1>2 DEF AtFinal, AtOther
  <2> QED  BY <1>1, <2>1, <2>2, BufferBegins, Zenon
<1>6. PICK m : m = stream.count - called - 1  OBVIOUS
<1>7. PICK h \in HeadsOf("i"), i \in InfosOf[m] :
        head \o (h \o i) = stream.infos /\ buf \o wire = h \o (i \o (stream.head \o stream.body))
  BY <1>5, <1>6, Zenon DEF AtInfo
<1>8. called < stream.count /\ m \in 0 .. Infos /\ called + 1 <= stream.count /\ stream.count - (called + 1) = m
  <2>1. called < stream.count  BY <1>5, Zenon DEF AtInfo
  <2> QED  BY <1>3, <1>4, <1>6, <2>1, ReadAssumption
<1>9. i \in Seq(Token)  BY <1>7, <1>8, InfosType, Zenon
<1>10. PICK x \in Seq(Token) : x = i \o (stream.head \o stream.body)
  <2>1. i \o (stream.head \o stream.body) \in Seq(Token)  BY <1>4, <1>9, TokenJoin, Zenon
  <2> QED  BY <2>1, Zenon
<1>11. Headed(h, "i") /\ h \in Seq(Token)  BY <1>7, HeadShape, Zenon DEF Headed
<1>12. head' = head \o h /\ head' \in Seq(Token) /\ buf' \in Seq(Token) /\ buf' \o wire = x
  <2>1. buf \o wire = h \o x  BY <1>7, <1>10, Zenon
  <2> QED  BY <1>1, <1>2, <1>11, <2>1, SplitsHead
<1>13. /\ buf' = <<>> => pc' = "read" /\ partial' = 0
       /\ buf' # <<>> => pc' = "http" /\ partial' = partial
  <2>1. CASE buf' = <<>>
    <3>1. NoHead(buf')  BY <1>2, <2>1, Zenon
    <3>2. strat.max >= 1 /\ strat.max \in Nat  BY <1>3 DEF Strategy
    <3>3. Len(buf') = 0  BY <2>1
    <3>4. ~(Len(buf') >= strat.max)  BY <3>2, <3>3
    <3>5. pc' = "read"  BY <3>1, <3>4 DEF NoHead
    <3>6. partial' = 0  BY <2>1, <3>1, <3>5 DEF NoHead, None
    <3> QED  BY <2>1, <3>5, <3>6
  <2>2. CASE buf' # <<>>  BY <1>2, <2>2
  <2> QED  BY <2>1, <2>2
<1>14. RTypes'
  <2>1. Response' /\ Strategy(strat)'  BY <1>2, <1>3, Zenon DEF Response, Strategy
  <2>2. partial' \in Nat /\ called' \in Nat /\ out' \in Seq(Token) /\ wire' \in Seq(Token)
    BY <1>2, <1>3, <1>13
  <2>3. pc' \in {"parse", "http", "read", "body", "toolarge", "incomplete", "error"}  BY <1>13
  <2> QED  BY <1>12, <2>1, <2>2, <2>3, Zenon DEF RTypes
<1>15. RPlaced'
  <2>1. pc # "body" /\ pc' # "body"  BY <1>2, <1>13
  <2>2. out = <<>>  BY <1>1, <2>1, Zenon DEF RPlaced
  <2>3. (head \o h) \o i = head \o (h \o i)
    <3>1. head \in Seq(Token) /\ h \in Seq(Token)  BY <1>3, <1>11, Zenon
    <3> QED  BY <1>9, <3>1, TokenAssoc
  <2>4. head' \o i = stream'.infos  BY <1>2, <1>7, <1>12, <2>3, Zenon
  <2>5. buf' \o wire' = i \o (stream'.head \o stream'.body)  BY <1>2, <1>10, <1>12, Zenon
  <2>6. called' <= stream'.count /\ stream'.count - called' = m  BY <1>2, <1>8
  <2>7. i \in InfosOf[stream'.count - called']  BY <1>7, <2>6, Zenon
  <2>8. out' = <<>>  BY <1>2, <2>2, Zenon
  <2> QED  BY <2>1, <2>4, <2>5, <2>6, <2>7, <2>8, Zenon DEF RPlaced
<1>16. RScanned'
  <2>1. CASE buf' = <<>>
    <3>1. HeadEnd(buf') = 0 /\ Len(buf') = 0  BY <2>1, NothingEnds, Zenon
    <3> QED  BY <1>13, <2>1, <3>1 DEF RScanned
  <2>2. CASE buf' # <<>>  BY <1>13, <2>2 DEF RScanned
  <2> QED  BY <2>1, <2>2
<1> QED  BY <1>14, <1>15, <1>16, Zenon DEF RInv

\* The final head is returned; what follows it is the body.
LEMMA StepParseFinal == RInv /\ ParseFinal => RInv'
<1> SUFFICES ASSUME RInv, ParseFinal PROVE RInv'  OBVIOUS
<1>1. RTypes /\ RPlaced /\ RScanned  BY Zenon DEF RInv
<1>2. /\ pc = "http" /\ wire' = wire /\ strat' = strat /\ called' = called /\ out' = out /\ stream' = stream
  BY DEF ParseFinal
<1>3. /\ wire \in Seq(Token) /\ buf \in Seq(Token) /\ head \in Seq(Token) /\ out \in Seq(Token)
      /\ partial \in Nat /\ called \in Nat /\ Response /\ Strategy(strat)
  BY <1>1, Zenon DEF RTypes
<1>4. stream.head \in Seq(Token) /\ stream.body \in Seq(Token) /\ stream.infos \in Seq(Token)
  BY <1>3, Zenon DEF Response
<1>5. buf # <<>> /\ pc # "body"  BY <1>1, <1>2 DEF RScanned
<1>6. out = <<>>  BY <1>1, <1>5, Zenon DEF RPlaced
<1>7. Response' /\ Strategy(strat)'  BY <1>2, <1>3, Zenon DEF Response, Strategy
<1>8. ASSUME pc' = "body", partial' = 0, head' = stream.infos \o stream.head, called = stream.count,
             head' \in Seq(Token), buf' \in Seq(Token), buf' \o wire = stream.body
      PROVE  RInv'
  <2>1. RTypes'
    <3>1. pc' \in {"parse", "http", "read", "body", "toolarge", "incomplete", "error"} /\ partial' \in Nat
      BY <1>8
    <3>2. called' \in Nat /\ out' \in Seq(Token) /\ wire' \in Seq(Token)  BY <1>2, <1>3, Zenon
    <3> QED  BY <1>7, <1>8, <3>1, <3>2, Zenon DEF RTypes
  <2>2. RPlaced'
    <3>1. <<>> \o stream.body = stream.body  BY <1>4, TokenUnit, Zenon
    <3>2. out' \o (buf' \o wire') = stream'.body  BY <1>2, <1>6, <1>8, <3>1, Zenon
    <3>3. head' = stream'.infos \o stream'.head /\ called' = stream'.count  BY <1>2, <1>8, Zenon
    <3> QED  BY <1>8, <3>2, <3>3, Zenon DEF RPlaced
  <2>3. RScanned'  BY <1>8 DEF RScanned
  <2> QED  BY <2>1, <2>2, <2>3, Zenon DEF RInv
<1>9. CASE buf[1] = "f" /\ HeadEnd(buf) # 0 /\ Split(HeadEnd(buf)) /\ pc' = "body" /\ partial' = 0
  <2>1. AtFinal
    <3>1. ~AtInfo /\ ~AtOther  BY <1>9 DEF AtInfo, AtOther
    <3> QED  BY <1>1, <1>5, <3>1, BufferBegins, Zenon
  <2>2. /\ called = stream.count /\ stream.head \in HeadsOf("f") /\ head = stream.infos
        /\ buf \o wire = stream.head \o stream.body
    BY <2>1, Zenon DEF AtFinal
  <2>3. Headed(stream.head, "f")  BY <2>2, HeadShape, Zenon
  <2>4. head' = head \o stream.head /\ head' \in Seq(Token) /\ buf' \in Seq(Token) /\ buf' \o wire = stream.body
    BY <1>1, <1>4, <1>9, <2>2, <2>3, SplitsHead
  <2> QED  BY <1>8, <1>9, <2>2, <2>4, Zenon
<1>10. CASE buf[1] = "g"
  <2>1. AtOther
    <3>1. ~AtInfo /\ ~AtFinal  BY <1>10 DEF AtInfo, AtFinal
    <3> QED  BY <1>1, <1>5, <3>1, BufferBegins, Zenon
  <2>2. /\ called = stream.count /\ stream.head = <<>> /\ head = stream.infos /\ buf \o wire = stream.body
    BY <2>1, Zenon DEF AtOther
  <2>3. CASE Split(0) /\ pc' = "body" /\ partial' = 0
    <3>1. head' = head \o SubSeq(buf, 1, 0) /\ buf' = SubSeq(buf, 0 + 1, Len(buf))  BY <2>3, Zenon DEF Split
    <3>2. SubSeq(buf, 1, 0) = <<>> /\ SubSeq(buf, 1, Len(buf)) = buf /\ 0 + 1 = 1
      <4>1. SubSeq(buf, 1, Len(buf)) = buf  BY <1>3, SubSeqFull
      <4>2. SubSeq(buf, 1, 0) = <<>>  BY <1>3
      <4> QED  BY <4>1, <4>2
    <3>3. head' = head /\ buf' = buf  BY <1>3, <3>1, <3>2, TokenUnit, Zenon
    <3>4. stream.infos \o <<>> = stream.infos  BY <1>4, TokenUnit, Zenon
    <3> QED  BY <1>3, <1>8, <2>2, <2>3, <3>3, <3>4, Zenon
  <2>4. CASE pc' = "error" /\ UNCHANGED <<head, buf, partial>>
    <3>1. /\ head' = head /\ buf' = buf /\ partial' = partial /\ pc' # "body"
          /\ pc' \in {"parse", "http", "read", "body", "toolarge", "incomplete", "error"}
      BY <2>4
    <3>2. UNCHANGED <<wire, buf, strat, head, called, out, stream>>  BY <1>2, <3>1
    <3>3. RTypes'
      <4>1. partial' \in Nat  BY <1>3, <3>1
      <4> QED  BY <1>1, <3>1, <3>2, <4>1, TypesStay
    <3>4. RPlaced'  BY <1>1, <1>5, <3>1, <3>2, PlacedStays
    <3>5. RScanned'  BY <2>4 DEF RScanned
    <3> QED  BY <3>3, <3>4, <3>5, Zenon DEF RInv
  <2>5. buf[1] # "f"  BY <1>10
  <2> QED  BY <2>3, <2>4, <2>5, Zenon DEF ParseFinal, None
<1>11. \/ buf[1] = "f" /\ HeadEnd(buf) # 0 /\ Split(HeadEnd(buf)) /\ pc' = "body" /\ partial' = 0
       \/ buf[1] = "g"
  BY Zenon DEF ParseFinal, None
<1> QED  BY <1>9, <1>10, <1>11, Zenon

\* A read takes the front of what the socket has.
LEMMA WireCut ==
  ASSUME RTypes, NEW n \in Nat, ReadFromIo(n)
  PROVE  /\ n \in 1 .. Len(wire) /\ Strategy(strat')
         /\ Chunk(n) \in Seq(Token) /\ Len(Chunk(n)) = n /\ wire' \in Seq(Token) /\ wire = Chunk(n) \o wire'
<1>1. wire \in Seq(Token) /\ Strategy(strat)  BY Zenon DEF RTypes
<1>2. n \in 1 .. AtMost(Len(wire), strat.next + Slack) /\ strat' = Record(n) /\ wire' = SubSeq(wire, n + 1, Len(wire))
  BY Zenon DEF ReadFromIo
<1>3. AtMost(Len(wire), strat.next + Slack) <= Len(wire) /\ AtMost(Len(wire), strat.next + Slack) \in Int
  <2>1. strat.next \in Nat  BY <1>1 DEF Strategy
  <2>2. Len(wire) \in Nat /\ Slack \in Nat  BY <1>1, ReadAssumption
  <2> QED  BY <2>1, <2>2 DEF AtMost
<1>4. n \in 1 .. Len(wire) /\ n \in 0 .. Len(wire)
  <2>1. PICK a \in Int : a = AtMost(Len(wire), strat.next + Slack)  BY <1>3
  <2>2. n \in 1 .. a /\ a <= Len(wire) /\ Len(wire) \in Nat  BY <1>1, <1>2, <1>3, <2>1
  <2> QED  BY <2>2
<1>5. Strategy(strat')  BY <1>1, <1>2, RecordBounds
<1>6. /\ SubSeq(wire, 1, n) \in Seq(Token) /\ Len(SubSeq(wire, 1, n)) = n
      /\ SubSeq(wire, n + 1, Len(wire)) \in Seq(Token)
      /\ wire = SubSeq(wire, 1, n) \o SubSeq(wire, n + 1, Len(wire))
  BY <1>1, <1>4, Halves
<1> QED  BY <1>2, <1>4, <1>5, <1>6, Zenon DEF Chunk

\* More of the head arrives.
LEMMA StepReadMore == ASSUME NEW n \in Nat PROVE RInv /\ ReadMore(n) => RInv'
<1> SUFFICES ASSUME RInv, ReadMore(n) PROVE RInv'  OBVIOUS
<1>1. RTypes /\ RPlaced /\ RScanned  BY Zenon DEF RInv
<1>2. /\ pc = "read" /\ ReadFromIo(n) /\ buf' = buf \o Chunk(n) /\ pc' = "parse"
      /\ partial' = partial /\ head' = head /\ called' = called /\ out' = out /\ stream' = stream
  BY DEF ReadMore
<1>3. /\ wire \in Seq(Token) /\ buf \in Seq(Token) /\ head \in Seq(Token) /\ out \in Seq(Token)
      /\ partial \in Nat /\ called \in Nat /\ Response
  BY <1>1, Zenon DEF RTypes
<1>4. PICK c : c = Chunk(n)  OBVIOUS
<1>5. Strategy(strat') /\ c \in Seq(Token) /\ wire' \in Seq(Token) /\ wire = c \o wire'
  <2>1. Strategy(strat') /\ Chunk(n) \in Seq(Token) /\ wire' \in Seq(Token) /\ wire = Chunk(n) \o wire'
    BY <1>1, <1>2, WireCut
  <2> QED  BY <1>4, <2>1, Zenon
<1>6. buf' = buf \o c /\ buf' \in Seq(Token)  BY <1>2, <1>3, <1>4, <1>5, TokenJoin, Zenon
<1>7. partial = Len(buf) /\ HeadEnd(buf) = 0 /\ (buf # <<>> => buf[1] # "g")
  BY <1>1, <1>2 DEF RScanned
<1>8. RTypes'
  <2>1. Response'  BY <1>2, <1>3, Zenon DEF Response
  <2>2. Strategy(strat)'  BY <1>5, Zenon DEF Strategy
  <2>3. pc' \in {"parse", "http", "read", "body", "toolarge", "incomplete", "error"}  BY <1>2
  <2>4. head' \in Seq(Token) /\ out' \in Seq(Token) /\ partial' \in Nat /\ called' \in Nat
    BY <1>2, <1>3, Zenon
  <2> QED  BY <1>5, <1>6, <2>1, <2>2, <2>3, <2>4, Zenon DEF RTypes
<1>9. RPlaced'
  <2>1. pc # "body" /\ pc' # "body"  BY <1>2
  <2>2. (buf \o c) \o wire' = buf \o (c \o wire')
    <3>1. buf \in Seq(Token) /\ c \in Seq(Token) /\ wire' \in Seq(Token)  BY <1>3, <1>5, Zenon
    <3> QED  BY <3>1, TokenAssoc
  <2>3. buf' \o wire' = buf \o wire  BY <1>5, <1>6, <2>2, Zenon
  <2> QED  BY <1>1, <1>2, <2>1, <2>3, Zenon DEF RPlaced
<1>10. RScanned'
  <2>1. SubSeq(buf', 1, Len(buf)) = buf /\ Len(buf) <= Len(buf')
    <3>1. Len(buf') = Len(buf) + Len(c) /\ Len(c) \in Nat /\ Len(buf) \in Nat  BY <1>3, <1>5, <1>6, ConcatProperties
    <3>2. Len(buf) <= Len(buf')  BY <3>1
    <3>3. PICK w \in Seq(Token) : w = <<>> /\ buf' \o w = buf \o c
      <4>1. buf' \o <<>> = buf'  BY <1>6, TokenUnit, Zenon
      <4> QED  BY <1>6, <4>1, NothingEnds, Zenon
    <3>4. Continues(Token, buf', w, buf, c)  BY <1>3, <1>5, <1>6, <3>2, <3>3, TwoSplits
    <3> QED  BY <3>2, <3>4, Zenon DEF Continues
  <2>2. partial' > 0 => buf'[1] # "g"
    <3> SUFFICES ASSUME partial' > 0 PROVE buf'[1] # "g"  OBVIOUS
    <3>1. Len(buf) # 0  BY <1>2, <1>3, <1>7
    <3>2. buf # <<>>  BY <3>1
    <3>3. buf'[1] = buf[1]
      <4>1. (buf \o c)[1] = buf[1]  BY <1>3, <1>5, <3>2, FirstOfJoin, Zenon
      <4> QED  BY <1>6, <4>1, Zenon
    <3> QED  BY <1>7, <3>2, <3>3
  <2>3. partial' <= Len(buf') /\ HeadEnd(SubSeq(buf', 1, partial')) = 0  BY <1>2, <1>7, <2>1, Zenon
  <2> QED  BY <1>2, <2>2, <2>3 DEF RScanned
<1> QED  BY <1>8, <1>9, <1>10, Zenon DEF RInv

\* The socket ends or fails.
LEMMA StepReadEnds == RInv /\ ReadEnds => RInv'
<1> SUFFICES ASSUME RInv, ReadEnds PROVE RInv'  OBVIOUS
<1>1. RTypes /\ RPlaced /\ RScanned  BY Zenon DEF RInv
<1>2. /\ pc = "read" /\ pc' \in {"incomplete", "error"} /\ strat' \in {strat, Record(0)}
      /\ UNCHANGED <<wire, buf, head, called, out, stream>>
      /\ wire' = wire /\ buf' = buf /\ partial' = partial /\ head' = head /\ called' = called
      /\ out' = out /\ stream' = stream
  BY DEF ReadEnds
<1>3. HeadEnd(buf) = 0  BY <1>1, <1>2 DEF RScanned
<1>4. RTypes'
  <2>1. Strategy(strat)  BY <1>1, Zenon DEF RTypes
  <2>2. Strategy(Record(0))  BY <2>1, RecordBounds
  <2>3. Strategy(strat')
    <3>1. strat' = strat \/ strat' = Record(0)  BY <1>2
    <3> QED  BY <2>1, <2>2, <3>1, Zenon
  <2>4. Strategy(strat)'  BY <2>3, Zenon DEF Strategy
  <2>5. Response'  BY <1>1, <1>2, Zenon DEF RTypes, Response
  <2>6. pc' \in {"parse", "http", "read", "body", "toolarge", "incomplete", "error"}  BY <1>2
  <2> QED  BY <1>1, <1>2, <2>4, <2>5, <2>6, Zenon DEF RTypes
<1>5. RPlaced'
  <2>1. pc # "body" /\ pc' # "body"  BY <1>2
  <2> QED  BY <1>1, <1>2, <2>1, PlacedStays
<1>6. RScanned'
  <2>1. HeadEnd(buf') = 0  BY <1>2, <1>3, Zenon
  <2> QED  BY <1>2, <2>1 DEF RScanned
<1> QED  BY <1>4, <1>5, <1>6, Zenon DEF RInv

\* Bytes that move from the front of what is left to what was returned.
LEMMA StepMem ==
  ASSUME RInv, pc = "body", UNCHANGED <<partial, pc, head, called, stream>>, Strategy(strat'),
         NEW p \in Seq(Token), out' = out \o p, buf' \in Seq(Token), wire' \in Seq(Token),
         buf \o wire = p \o (buf' \o wire')
  PROVE  RInv'
<1>1. RTypes /\ RPlaced  BY Zenon DEF RInv
<1>2. partial' = partial /\ pc' = pc /\ head' = head /\ called' = called /\ stream' = stream  OBVIOUS
<1>3. out \in Seq(Token)  BY <1>1, Zenon DEF RTypes
<1>4. RTypes'
  <2>1. Strategy(strat)'  BY Zenon DEF Strategy
  <2>2. Response'  BY <1>1, <1>2, Zenon DEF RTypes, Response
  <2>3. out' \in Seq(Token)  BY <1>3, TokenJoin, Zenon
  <2> QED  BY <1>1, <1>2, <2>1, <2>2, <2>3, Zenon DEF RTypes
<1>5. RPlaced'
  <2>1. PICK x \in Seq(Token) : x = buf' \o wire'  BY TokenJoin, Zenon
  <2>2. (out \o p) \o x = out \o (p \o x)  BY <1>3, TokenAssoc
  <2>3. out' \o (buf' \o wire') = out \o (buf \o wire)  BY <2>1, <2>2, Zenon
  <2> QED  BY <1>1, <1>2, <2>3, Zenon DEF RPlaced
<1>6. RScanned'  BY <1>2 DEF RScanned
<1> QED  BY <1>4, <1>5, <1>6, Zenon DEF RInv

\* read_mem from the buffer.
LEMMA StepMemFromBuf == ASSUME NEW len \in MemLens PROVE RInv /\ MemFromBuf(len) => RInv'
<1> SUFFICES ASSUME RInv, MemFromBuf(len) PROVE RInv'  OBVIOUS
<1>1. wire \in Seq(Token) /\ buf \in Seq(Token) /\ Strategy(strat)  BY Zenon DEF RInv, RTypes
<1>2. PICK n : n = AtMost(Len(buf), len)  OBVIOUS
<1>3. n \in 0 .. Len(buf)
  <2>1. len \in Nat /\ Len(buf) \in Nat  BY <1>1, ReadAssumption
  <2> QED  BY <1>2, <2>1 DEF AtMost
<1>4. /\ pc = "body" /\ UNCHANGED <<partial, pc, head, called, stream>> /\ wire' = wire /\ strat' = strat
      /\ out' = out \o SubSeq(buf, 1, n) /\ buf' = SubSeq(buf, n + 1, Len(buf))
  BY <1>2 DEF MemFromBuf
<1>5. PICK p : p = SubSeq(buf, 1, n)  OBVIOUS
<1>6. p \in Seq(Token) /\ buf' \in Seq(Token) /\ buf = p \o buf'
  <2>1. /\ SubSeq(buf, 1, n) \in Seq(Token) /\ SubSeq(buf, n + 1, Len(buf)) \in Seq(Token)
        /\ buf = SubSeq(buf, 1, n) \o SubSeq(buf, n + 1, Len(buf))
    BY <1>1, <1>3, Halves
  <2> QED  BY <1>4, <1>5, <2>1, Zenon
<1>7. buf \o wire = p \o (buf' \o wire')
  <2>1. (p \o buf') \o wire = p \o (buf' \o wire)
    <3>1. p \in Seq(Token) /\ buf' \in Seq(Token) /\ wire \in Seq(Token)  BY <1>1, <1>6, Zenon
    <3> QED  BY <3>1, TokenAssoc
  <2> QED  BY <1>4, <1>6, <2>1, Zenon
<1>8. Strategy(strat')  BY <1>1, <1>4, Zenon
<1>9. out' = out \o p /\ wire' \in Seq(Token)  BY <1>1, <1>4, <1>5, Zenon
<1> QED  BY <1>4, <1>6, <1>7, <1>8, <1>9, StepMem

\* The first k of the first n.
LEMMA FrontOfFront ==
  ASSUME NEW s \in Seq(Token), NEW n \in 0 .. Len(s), NEW k \in 0 .. n
  PROVE  /\ SubSeq(s, 1, k) \in Seq(Token) /\ SubSeq(s, k + 1, n) \in Seq(Token)
         /\ SubSeq(s, 1, n) = SubSeq(s, 1, k) \o SubSeq(s, k + 1, n)
<1>0. n \in Nat /\ k \in Nat /\ k <= n /\ n <= Len(s) /\ Len(s) \in Nat  OBVIOUS
<1>1. PICK f : f = SubSeq(s, 1, n)  OBVIOUS
<1>2. f \in Seq(Token) /\ Len(f) = n /\ \A i \in 1 .. n : f[i] = s[i]
  <2>1. SubSeq(s, 1, n) \in Seq(Token) /\ Len(SubSeq(s, 1, n)) = n /\ \A i \in 1 .. n : SubSeq(s, 1, n)[i] = s[i]
    BY Halves
  <2> QED  BY <1>1, <2>1, Zenon
<1>3. k \in 0 .. Len(f)  BY <1>0, <1>2
<1>4. PICK a, b : a = SubSeq(f, 1, k) /\ b = SubSeq(f, k + 1, Len(f))  OBVIOUS
<1>5. /\ a \in Seq(Token) /\ Len(a) = k /\ (\A i \in 1 .. k : a[i] = f[i])
      /\ b \in Seq(Token) /\ Len(b) = Len(f) - k /\ f = a \o b
  <2>1. /\ SubSeq(f, 1, k) \in Seq(Token) /\ Len(SubSeq(f, 1, k)) = k
        /\ \A i \in 1 .. k : SubSeq(f, 1, k)[i] = f[i]
        /\ SubSeq(f, k + 1, Len(f)) \in Seq(Token) /\ Len(SubSeq(f, k + 1, Len(f))) = Len(f) - k
        /\ f = SubSeq(f, 1, k) \o SubSeq(f, k + 1, Len(f))
    BY <1>2, <1>3, Halves
  <2> QED  BY <1>4, <2>1, Zenon
<1>6. PICK c, d : c = SubSeq(s, 1, k) /\ d = SubSeq(s, k + 1, n)  OBVIOUS
<1>7. c \in Seq(Token) /\ Len(c) = k /\ \A i \in 1 .. k : c[i] = s[i]
  <2>1. k \in 0 .. Len(s)  BY <1>0
  <2>2. SubSeq(s, 1, k) \in Seq(Token) /\ Len(SubSeq(s, 1, k)) = k /\ \A i \in 1 .. k : SubSeq(s, 1, k)[i] = s[i]
    BY <2>1, Halves
  <2> QED  BY <1>6, <2>2, Zenon
<1>8. d \in Seq(Token) /\ Len(d) = n - k /\ \A i \in 1 .. (n - k) : d[i] = s[k + i]
  BY <1>0, <1>6
<1>9. a = c
  <2>1. Len(a) = Len(c)  BY <1>5, <1>7
  <2>2. ASSUME NEW i \in 1 .. k PROVE a[i] = c[i]
    <3>1. i \in 1 .. n  BY <1>0
    <3> QED  BY <1>2, <1>5, <1>7, <3>1
  <2> QED  BY <1>5, <1>7, <2>1, <2>2, SeqEqual
<1>10. b = d
  <2>1. Len(b) = n - k /\ Len(d) = n - k  BY <1>2, <1>5, <1>8
  <2>2. ASSUME NEW i \in 1 .. (n - k) PROVE b[i] = d[i]
    <3>1. i \in 1 .. (Len(f) - k) /\ k + i \in 1 .. n  BY <1>0, <1>2
    <3>2. b[i] = f[k + i]
      <4>1. SubSeq(f, k + 1, Len(f))[i] = f[k + i]  BY <1>2, <1>3, <3>1, WithoutFirst
      <4> QED  BY <1>4, <4>1, Zenon
    <3> QED  BY <1>2, <1>8, <3>1, <3>2
  <2> QED  BY <1>5, <1>8, <2>1, <2>2, SeqEqual
<1> QED  BY <1>1, <1>5, <1>6, <1>7, <1>8, <1>9, <1>10, Zenon

\* read_mem from the socket: what it did not ask for stays in the buffer.
LEMMA StepMemFromIo ==
  ASSUME NEW len \in MemLens, NEW n \in Nat PROVE RInv /\ MemFromIo(len, n) => RInv'
<1> SUFFICES ASSUME RInv, MemFromIo(len, n) PROVE RInv'  OBVIOUS
<1>1. RTypes /\ wire \in Seq(Token)  BY Zenon DEF RInv, RTypes
<1>2. /\ pc = "body" /\ buf = <<>> /\ ReadFromIo(n) /\ UNCHANGED <<partial, pc, head, called, stream>>
      /\ out' = out \o SubSeq(wire, 1, AtMost(n, len)) /\ buf' = SubSeq(wire, len + 1, n)
  BY DEF MemFromIo
<1>3. /\ n \in 1 .. Len(wire) /\ Strategy(strat')
      /\ Chunk(n) \in Seq(Token) /\ wire' \in Seq(Token) /\ wire = Chunk(n) \o wire'
  BY <1>1, <1>2, WireCut
<1>4. len \in Nat /\ n \in 0 .. Len(wire)  BY <1>3, ReadAssumption
<1>5. PICK p : p = SubSeq(wire, 1, AtMost(n, len))  OBVIOUS
<1>6. p \in Seq(Token) /\ buf' \in Seq(Token) /\ SubSeq(wire, 1, n) = p \o buf'
  <2>1. CASE len < n
    <3>1. AtMost(n, len) = len /\ len \in 0 .. n  BY <1>4, <2>1 DEF AtMost
    <3>2. /\ SubSeq(wire, 1, len) \in Seq(Token) /\ SubSeq(wire, len + 1, n) \in Seq(Token)
          /\ SubSeq(wire, 1, n) = SubSeq(wire, 1, len) \o SubSeq(wire, len + 1, n)
      BY <1>1, <1>4, <3>1, FrontOfFront
    <3> QED  BY <1>2, <1>5, <3>1, <3>2, Zenon
  <2>2. CASE ~(len < n)
    <3>1. AtMost(n, len) = n  BY <2>2, Zenon DEF AtMost
    <3>2. SubSeq(wire, len + 1, n) = <<>>  BY <1>1, <1>4, <2>2
    <3>3. p = Chunk(n) /\ p = SubSeq(wire, 1, n) /\ buf' = <<>>  BY <1>2, <1>5, <3>1, <3>2, Zenon DEF Chunk
    <3>4. p \in Seq(Token)  BY <1>3, <3>3, Zenon
    <3>5. p \o <<>> = p  BY <3>4, TokenUnit, Zenon
    <3> QED  BY <3>3, <3>4, <3>5, NothingEnds, Zenon
  <2> QED  BY <2>1, <2>2
<1>7. buf \o wire = p \o (buf' \o wire')
  <2>1. wire = (p \o buf') \o wire'  BY <1>3, <1>6, Zenon DEF Chunk
  <2>2. (p \o buf') \o wire' = p \o (buf' \o wire')
    <3>1. p \in Seq(Token) /\ buf' \in Seq(Token) /\ wire' \in Seq(Token)  BY <1>3, <1>6, Zenon
    <3> QED  BY <3>1, TokenAssoc
  <2>3. buf \o wire = wire
    <3>1. <<>> \o wire = wire  BY <1>1, TokenUnit, Zenon
    <3> QED  BY <1>2, <3>1, Zenon
  <2> QED  BY <2>1, <2>2, <2>3, Zenon
<1>8. out' = out \o p  BY <1>2, <1>5, Zenon
<1> QED  BY <1>2, <1>3, <1>6, <1>7, <1>8, StepMem

\* Every step keeps the invariant.
LEMMA ReadStep == RInv /\ [RNext]_rvars => RInv'
<1> SUFFICES ASSUME RInv, [RNext]_rvars PROVE RInv'  OBVIOUS
<1>1. CASE ParseSkips  BY <1>1, StepParseSkips
<1>2. CASE ParseEnters  BY <1>2, StepParseEnters
<1>3. CASE ParsePartial  BY <1>3, StepParsePartial
<1>4. CASE ParseInformational  BY <1>4, StepParseInformational
<1>5. CASE ParseFinal  BY <1>5, StepParseFinal
<1>6. CASE ReadEnds  BY <1>6, StepReadEnds
<1>7. ASSUME NEW n \in 1 .. Len(wire), ReadMore(n) PROVE RInv'
  <2>1. n \in Nat
    <3>1. Len(wire) \in Nat
      <4>1. wire \in Seq(Token)  BY Zenon DEF RInv, RTypes
      <4> QED  BY <4>1
    <3> QED  BY <3>1
  <2> QED  BY <1>7, <2>1, StepReadMore
<1>8. ASSUME NEW len \in MemLens, MemFromBuf(len) PROVE RInv'  BY <1>8, StepMemFromBuf
<1>9. ASSUME NEW len \in MemLens, NEW n \in 1 .. Len(wire), MemFromIo(len, n) PROVE RInv'
  <2>1. n \in Nat
    <3>1. Len(wire) \in Nat
      <4>1. wire \in Seq(Token)  BY Zenon DEF RInv, RTypes
      <4> QED  BY <4>1
    <3> QED  BY <3>1
  <2> QED  BY <1>9, <2>1, StepMemFromIo
<1>10. CASE UNCHANGED rvars
  <2>1. /\ wire' = wire /\ buf' = buf /\ partial' = partial /\ strat' = strat /\ pc' = pc /\ head' = head
        /\ called' = called /\ out' = out /\ stream' = stream
    BY <1>10 DEF rvars
  <2>2. RTypes'  BY <2>1, Zenon DEF RInv, RTypes, Response, Strategy
  <2>3. RPlaced'  BY <2>1, Zenon DEF RInv, RPlaced
  <2>4. RScanned'  BY <2>1, Zenon DEF RInv, RScanned
  <2> QED  BY <2>2, <2>3, <2>4, Zenon DEF RInv
<1> QED  BY <1>1, <1>2, <1>3, <1>4, <1>5, <1>6, <1>7, <1>8, <1>9, <1>10, Zenon DEF RNext

\* The invariant gives the property: all bytes are in the head, in what was
\* returned, in the buffer or on the wire.
LEMMA ReadFollows == RInv => ReadExact
<1> SUFFICES ASSUME RInv PROVE ReadExact  OBVIOUS
<1>1. RTypes /\ RPlaced /\ RScanned  BY Zenon DEF RInv
<1>2. /\ wire \in Seq(Token) /\ buf \in Seq(Token) /\ head \in Seq(Token) /\ out \in Seq(Token)
      /\ Response /\ Strategy(strat) /\ called \in Nat
  BY <1>1, Zenon DEF RTypes
<1>3. /\ stream.infos \in Seq(Token) /\ stream.head \in Seq(Token) /\ stream.body \in Seq(Token)
      /\ stream.count \in 0 .. Infos
  BY <1>2, Zenon DEF Response
<1>4. RTypeOK
  <2>1. strat.exact \/ strat.next \in InitSize .. strat.max  BY <1>2, Zenon DEF Strategy
  <2>2. strat.exact \/ strat.next >= 4
    <3>1. strat.max \in Nat  BY <1>2 DEF Strategy
    <3>2. InitSize \in Nat /\ InitSize >= 4  BY ReadAssumption
    <3> QED  BY <2>1, <3>1, <3>2
  <2>3. pc \in {"parse", "http", "read", "body", "toolarge", "incomplete", "error"}  BY <1>1, Zenon DEF RTypes
  <2>4. pc \in {"parse", "read"} => partial <= Len(buf)
    <3>1. Len(buf) \in Nat  BY <1>2
    <3> QED  BY <1>1, <3>1 DEF RScanned
  <2> QED  BY <2>1, <2>2, <2>3, <2>4, Zenon DEF RTypeOK
<1>5. HeadFound  BY <1>1, Zenon DEF RScanned, HeadFound
<1>6. HeadExact  BY <1>1, Zenon DEF RPlaced, HeadExact
<1>7. BytesKept
  <2>1. PICK x \in Seq(Token) : x = buf \o wire  BY <1>2, TokenJoin, Zenon
  <2>2. PICK y \in Seq(Token) : y = head \o out  BY <1>2, TokenJoin, Zenon
  <2>3. (y \o buf) \o wire = y \o x
    <3>1. (y \o buf) \o wire = y \o (buf \o wire)  BY <1>2, TokenAssoc
    <3> QED  BY <2>1, <3>1, Zenon
  <2>4. (head \o out) \o x = head \o (out \o x)
    <3>1. head \in Seq(Token) /\ out \in Seq(Token)  BY <1>2, Zenon
    <3> QED  BY <3>1, TokenAssoc
  <2>5. (stream.infos \o stream.head) \o stream.body = stream.infos \o (stream.head \o stream.body)
    BY <1>3, TokenAssoc, Zenon
  <2>6. head \o (out \o x) = stream.infos \o (stream.head \o stream.body)
    <3>1. CASE pc = "body"
      <4>1. head = stream.infos \o stream.head /\ out \o x = stream.body  BY <1>1, <2>1, <3>1, Zenon DEF RPlaced
      <4> QED  BY <2>5, <4>1, Zenon
    <3>2. CASE pc # "body"
      <4>1. out = <<>> /\ called <= stream.count  BY <1>1, <3>2, Zenon DEF RPlaced
      <4>2. PICK n : n = stream.count - called  OBVIOUS
      <4>3. PICK r \in InfosOf[n] : head \o r = stream.infos /\ x = r \o (stream.head \o stream.body)
        BY <1>1, <2>1, <3>2, <4>2, Zenon DEF RPlaced
      <4>4. n \in 0 .. Infos  BY <1>2, <1>3, <4>1, <4>2, ReadAssumption
      <4>5. r \in Seq(Token)  BY <4>3, <4>4, InfosType, Zenon
      <4>6. PICK z \in Seq(Token) : z = stream.head \o stream.body  BY <1>3, TokenJoin, Zenon
      <4>7. (head \o r) \o z = head \o (r \o z)
        <5>1. head \in Seq(Token)  BY <1>2, Zenon
        <5> QED  BY <4>5, <5>1, TokenAssoc
      <4>8. out \o x = x  BY <2>1, <4>1, TokenUnit, Zenon
      <4> QED  BY <4>3, <4>6, <4>7, <4>8, Zenon
    <3> QED  BY <3>1, <3>2
  <2> QED  BY <2>2, <2>3, <2>4, <2>5, <2>6, Zenon DEF BytesKept
<1> QED  BY <1>4, <1>5, <1>6, <1>7, Zenon DEF ReadExact

\* Code: Buffered::parse, is_complete_fast, Client::parse, read_mem,
\* ReadStrategy.  Heads are found as soon as they are there, in whatever
\* pieces the socket delivers them, and every byte goes to the head or the
\* body it belongs to, for all limits and sizes and for the heads of
\* HeadAssumption: those that end in LF LF or CR LF CR LF.  httparse accepts
\* a head that ends in LF CR LF too; is_complete_fast has no such pattern and
\* does not find one after a partial read, so the theorem does not hold of it.
THEOREM ReadsExact == RSpec => []ReadExact
<1>1. RInit => RInv  BY ReadInit
<1>2. RInv /\ [RNext]_rvars => RInv'  BY ReadStep
<1>3. RInv => ReadExact  BY ReadFollows
<1> QED  BY <1>1, <1>2, <1>3, PTL DEF RSpec
=============================================================================
