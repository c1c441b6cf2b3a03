---------------------------- MODULE MessageProofs ----------------------------
(***************************************************************************)
(* Proofs about MessageFraming and BodyCodec: whatever header lines the    *)
(* user and the server write, for every width of a length and every radix, *)
(* both ends agree on where a message ends and on whether the connection   *)
(* goes on; what the encoder writes of a body the decoder reads back; and  *)
(* of any bytes the decoder makes what the chunked grammar says.           *)
(***************************************************************************)
EXTENDS MessageFraming, BodyCodec, SequenceLemmas, FiniteSetTheorems, SequenceTheorems

-----------------------------------------------------------------------------
(* Loops over sequences.                                                   *)

\* The accumulator f of a loop over s from b, whose body is the function G on
\* accumulators in A.
Runs(f, A, G, b, s) ==
  /\ f[0] = b
  /\ \A i \in 1 .. Len(s) : f[i - 1] \in A => f[i] = G[<<f[i - 1], s[i]>>]

\* v is what such a loop ends with.
Result(A, G, b, s, v) == \E f : Runs(f, A, G, b, s) /\ v = f[Len(s)]

\* A loop stays in the set of its accumulators.
LEMMA RunsTyped ==
  ASSUME NEW A, NEW S, NEW G \in [A \X S -> A], NEW b \in A, NEW s \in Seq(S),
         NEW f, Runs(f, A, G, b, s)
  PROVE  \A i \in 0 .. Len(s) : f[i] \in A
<1> DEFINE T == {n \in Nat : n <= Len(s) => f[n] \in A}
<1>1. 0 \in T  BY DEF Runs
<1>2. ASSUME NEW n \in Nat, n \in T PROVE n + 1 \in T
  <2> SUFFICES ASSUME n + 1 <= Len(s) PROVE f[n + 1] \in A  OBVIOUS
  <2>1. f[n] \in A /\ n + 1 \in 1 .. Len(s) /\ (n + 1) - 1 = n  BY <1>2
  <2>2. f[n + 1] = G[<<f[n], s[n + 1]>>]  BY <2>1 DEF Runs
  <2>3. <<f[n], s[n + 1]>> \in A \X S  BY <2>1
  <2> QED  BY <2>2, <2>3
<1>3. Nat \subseteq T
  <2> HIDE DEF T
  <2> QED  BY <1>1, <1>2, SetInduction
<1> QED  BY <1>3

\* There is such an accumulator, in A throughout.
Runnable(A, G, b, s) ==
  \E f \in [0 .. Len(s) -> A] :
    f[0] = b /\ \A i \in 1 .. Len(s) : f[i] = G[<<f[i - 1], s[i]>>]

\* Every loop has one.
LEMMA RunsExists ==
  ASSUME NEW A, NEW S, NEW G \in [A \X S -> A], NEW b \in A, NEW s \in Seq(S)
  PROVE  Runnable(A, G, b, s)
<1> DEFINE Upto(n, f) == f[0] = b /\ \A i \in 1 .. n : f[i] = G[<<f[i - 1], s[i]>>]
           T == {n \in Nat : n <= Len(s) => \E f \in [0 .. n -> A] : Upto(n, f)}
<1>1. 0 \in T
  <2>1. [i \in 0 .. 0 |-> b] \in [0 .. 0 -> A] /\ Upto(0, [i \in 0 .. 0 |-> b])  OBVIOUS
  <2> QED  BY <2>1
<1>2. ASSUME NEW n \in Nat, n \in T PROVE n + 1 \in T
  <2> SUFFICES ASSUME n + 1 <= Len(s) PROVE \E f \in [0 .. n + 1 -> A] : Upto(n + 1, f)
    OBVIOUS
  <2>1. PICK f \in [0 .. n -> A] : Upto(n, f)  BY <1>2
  <2> DEFINE g == [i \in 0 .. n + 1 |-> IF i <= n THEN f[i] ELSE G[<<f[n], s[n + 1]>>]]
  <2>2. n + 1 \in 1 .. Len(s) /\ f[n] \in A  BY <2>1
  <2>3. <<f[n], s[n + 1]>> \in A \X S  BY <2>2
  <2>4. g \in [0 .. n + 1 -> A]  BY <2>1, <2>3
  <2>5. g[0] = b  BY <2>1
  <2>6. ASSUME NEW i \in 1 .. n + 1 PROVE g[i] = G[<<g[i - 1], s[i]>>]
    <3>1. CASE i <= n  BY <2>1, <3>1
    <3>2. CASE i = n + 1
      <4>1. g[i] = G[<<f[n], s[i]>>] /\ i - 1 = n /\ g[n] = f[n]  BY <3>2
      <4> QED  BY <4>1
    <3> QED  BY <3>1, <3>2
  <2> QED  BY <2>4, <2>5, <2>6
<1>3. Nat \subseteq T
  <2> HIDE DEF T
  <2> QED  BY <1>1, <1>2, SetInduction
<1>4. Len(s) \in T
  <2> HIDE DEF T
  <2> QED  BY <1>3
<1> QED  BY <1>4 DEF Runnable

\* A loop over nothing, the set of its results, and one element more.
LoopRules(A, S, G, b) ==
  /\ \A v : Result(A, G, b, <<>>, v) => v = b
  /\ \A s \in Seq(S) : \A v : Result(A, G, b, s, v) => v \in A
  /\ \A s \in Seq(S), x \in S : \A v, w :
       Result(A, G, b, s, v) /\ Result(A, G, b, Append(s, x), w) => w = G[<<v, x>>]

\* Every loop follows these rules.
LEMMA ResultRules ==
  ASSUME NEW A, NEW S, NEW G \in [A \X S -> A], NEW b \in A
  PROVE  LoopRules(A, S, G, b)
<1>1. ASSUME NEW v, Result(A, G, b, <<>>, v) PROVE v = b
  <2>1. PICK f : Runs(f, A, G, b, <<>>) /\ v = f[Len(<<>>)]  BY <1>1, Zenon DEF Result
  <2> QED  BY <2>1 DEF Runs
<1>2. ASSUME NEW s \in Seq(S), NEW v, Result(A, G, b, s, v) PROVE v \in A
  <2>1. PICK f : Runs(f, A, G, b, s) /\ v = f[Len(s)]  BY <1>2, Zenon DEF Result
  <2>2. \A i \in 0 .. Len(s) : f[i] \in A  BY <2>1, RunsTyped
  <2> QED  BY <2>1, <2>2
<1>3. ASSUME NEW s \in Seq(S), NEW x \in S, NEW v, NEW w,
             Result(A, G, b, s, v), Result(A, G, b, Append(s, x), w)
      PROVE  w = G[<<v, x>>]
  <2> DEFINE t == Append(s, x)
  <2>0. t \in Seq(S) /\ Len(t) = Len(s) + 1 /\ Len(s) \in Nat /\ t[Len(t)] = x
        /\ \A i \in 1 .. Len(s) : t[i] = s[i]
    OBVIOUS
  <2> HIDE DEF t
  <2>1. PICK f : Runs(f, A, G, b, s) /\ v = f[Len(s)]  BY <1>3, Zenon DEF Result
  <2>2. PICK g : Runs(g, A, G, b, t) /\ w = g[Len(t)]  BY <1>3, Zenon DEF Result, t
  <2>3. \A i \in 0 .. Len(s) : f[i] \in A  BY <2>1, RunsTyped
  <2>4. \A i \in 0 .. Len(t) : g[i] \in A  BY <2>0, <2>2, RunsTyped
  <2> DEFINE T == {n \in Nat : n <= Len(s) => f[n] = g[n]}
  <2>5. 0 \in T  BY <2>1, <2>2 DEF Runs
  <2>6. ASSUME NEW n \in Nat, n \in T PROVE n + 1 \in T
    <3> SUFFICES ASSUME n + 1 <= Len(s) PROVE f[n + 1] = g[n + 1]  OBVIOUS
    <3>1. n + 1 \in 1 .. Len(s) /\ n + 1 \in 1 .. Len(t) /\ (n + 1) - 1 = n /\ n \in 0 .. Len(s)
          /\ n \in 0 .. Len(t)
      BY <2>0
    <3>2. f[n + 1] = G[<<f[n], s[n + 1]>>]  BY <2>1, <2>3, <3>1 DEF Runs
    <3>3. g[n + 1] = G[<<g[n], t[n + 1]>>]  BY <2>2, <2>4, <3>1 DEF Runs
    <3>4. f[n] = g[n]  BY <2>6, <3>1
    <3> QED  BY <2>0, <3>1, <3>2, <3>3, <3>4
  <2>7. Nat \subseteq T
    <3> HIDE DEF T
    <3> QED  BY <2>5, <2>6, SetInduction
  <2>8. f[Len(s)] = g[Len(s)]  BY <2>0, <2>7
  <2>9. Len(t) \in 1 .. Len(t) /\ Len(t) - 1 = Len(s) /\ Len(s) \in 0 .. Len(t)  BY <2>0
  <2>10. g[Len(t)] = G[<<g[Len(s)], t[Len(t)]>>]  BY <2>2, <2>4, <2>9 DEF Runs
  <2> QED  BY <2>0, <2>1, <2>2, <2>8, <2>10
<1> QED  BY <1>1, <1>2, <1>3, Zenon DEF LoopRules

\* Induction over sequences, one element more at the end.
LEMMA SeqSetInduction ==
  ASSUME NEW S, NEW P, <<>> \in P, \A s \in Seq(S), x \in S : s \in P => Append(s, x) \in P
  PROVE  Seq(S) \subseteq P
<1> DEFINE T == {n \in Nat : \A s \in Seq(S) : Len(s) = n => s \in P}
<1>1. 0 \in T
  <2>1. \A s \in Seq(S) : Len(s) = 0 => s = <<>>  OBVIOUS
  <2> QED  BY <2>1
<1>2. ASSUME NEW n \in Nat, n \in T PROVE n + 1 \in T
  <2> SUFFICES ASSUME NEW s \in Seq(S), Len(s) = n + 1 PROVE s \in P  OBVIOUS
  <2> DEFINE t == SubSeq(s, 1, n)
  <2>1. t \in Seq(S) /\ Len(t) = n /\ s[n + 1] \in S  OBVIOUS
  <2>2. s = Append(t, s[n + 1])  OBVIOUS
  <2>3. t \in P  BY <1>2, <2>1
  <2> HIDE DEF t
  <2> QED  BY <2>1, <2>2, <2>3
<1>3. Nat \subseteq T
  <2> HIDE DEF T
  <2> QED  BY <1>1, <1>2, SetInduction
<1> QED  BY <1>3

-----------------------------------------------------------------------------
(* The header lines of one name, and the others.                           *)

\* A sequence is one over any larger set.
LEMMA SeqWider ==
  ASSUME NEW S, NEW T, S \subseteq T, NEW s \in Seq(S)
  PROVE  s \in Seq(T)
<1>1. s \in [1 .. Len(s) -> S] /\ Len(s) \in Nat  OBVIOUS
<1>2. s \in [1 .. Len(s) -> T]  BY <1>1
<1> QED  BY <1>1, <1>2

\* What a header line is.
LEMMA LineFacts ==
  ASSUME NEW l \in HeaderLine
  PROVE  /\ l.vals # <<>> /\ l.vals \in Seq(Atoms \cup Seq(Nat))
         /\ l.name = "content-length" => l.vals \in Seq(Seq(Nat))
<1>1. CASE l \in [name : {"content-length"}, vals : Seq(Seq(Nat)) \ {<<>>}]
  <2>1. l.name = "content-length" /\ l.vals \in Seq(Seq(Nat)) /\ l.vals # <<>>  BY <1>1
  <2>2. l.vals \in Seq(Atoms \cup Seq(Nat))  BY <2>1, SeqWider
  <2> QED  BY <2>1, <2>2
<1>2. CASE l \in [name : Names, vals : Seq(Atoms) \ {<<>>}]
  <2>1. l.name # "content-length" /\ l.vals \in Seq(Atoms) /\ l.vals # <<>>  BY <1>2, HeadsAssumption
  <2>2. l.vals \in Seq(Atoms \cup Seq(Nat))  BY <2>1, SeqWider
  <2> QED  BY <2>1, <2>2
<1> QED  BY <1>1, <1>2 DEF HeaderLine

\* The bodies of the loops of Lines and Without.
Selects(name) ==
  [p \in Seq(HeaderLine) \X HeaderLine |-> IF p[2].name = name THEN Append(p[1], p[2]) ELSE p[1]]
Rejects(name) ==
  [p \in Seq(HeaderLine) \X HeaderLine |-> IF p[2].name # name THEN Append(p[1], p[2]) ELSE p[1]]

\* Lines is such a loop.
LEMMA LinesResult ==
  ASSUME NEW hs \in Seq(HeaderLine), NEW name
  PROVE  Result(Seq(HeaderLine), Selects(name), <<>>, hs, Lines(hs, name))
<1> DEFINE F(g) == [i \in 0 .. Len(hs) |->
                      IF i = 0 THEN <<>>
                      ELSE IF hs[i].name = name THEN Append(g[i - 1], hs[i]) ELSE g[i - 1]]
           c == CHOOSE g : g = F(g)
           A == Seq(HeaderLine)
           G == Selects(name)
<1>0. G \in [A \X HeaderLine -> A]
      /\ \A a \in A, l \in HeaderLine : G[<<a, l>>] = IF l.name = name THEN Append(a, l) ELSE a
  BY DEF Selects
<1>1. PICK f \in [0 .. Len(hs) -> A] :
        f[0] = <<>> /\ \A i \in 1 .. Len(hs) : f[i] = G[<<f[i - 1], hs[i]>>]
  <2>1. <<>> \in A /\ G \in [A \X HeaderLine -> A]  BY <1>0
  <2>2. Runnable(A, G, <<>>, hs)
    <3> HIDE DEF A, G
    <3> QED  BY <2>1, RunsExists
  <2> QED  BY <2>2, Zenon DEF Runnable
<1>2. f = F(f)
  <2>1. ASSUME NEW i \in 0 .. Len(hs) PROVE f[i] = F(f)[i]
    <3>1. CASE i = 0  BY <1>1, <3>1
    <3>2. CASE i # 0
      <4>1. i \in 1 .. Len(hs) /\ f[i - 1] \in A /\ hs[i] \in HeaderLine  BY <1>1, <3>2
      <4> HIDE DEF A, G
      <4> QED  BY <1>0, <1>1, <3>2, <4>1
    <3> QED  BY <3>1, <3>2
  <2> QED  BY <1>1, <2>1
<1>3. c = F(c)  BY <1>2, Zenon
<1> DEFINE H == F(c)
<1>4. c[0] = <<>>
  <2>1. H[0] = <<>>  OBVIOUS
  <2> HIDE DEF c, F
  <2> QED  BY <1>3, <2>1, Zenon
<1>5. ASSUME NEW i \in 1 .. Len(hs), c[i - 1] \in A PROVE c[i] = G[<<c[i - 1], hs[i]>>]
  <2> HIDE DEF c, G, A
  <2>1. c[i] = IF hs[i].name = name THEN Append(c[i - 1], hs[i]) ELSE c[i - 1]
    <3>1. H[i] = IF hs[i].name = name THEN Append(c[i - 1], hs[i]) ELSE c[i - 1]  OBVIOUS
    <3> HIDE DEF F
    <3> QED  BY <1>3, <3>1, Zenon
  <2>2. hs[i] \in HeaderLine  OBVIOUS
  <2> QED  BY <1>0, <1>5, <2>1, <2>2
<1>6. Lines(hs, name) = c[Len(hs)]  BY Zenon DEF Lines, Loop
<1> HIDE DEF c
<1> QED  BY <1>4, <1>5, <1>6, Zenon DEF Result, Runs

\* Without is such a loop.
LEMMA WithoutResult ==
  ASSUME NEW hs \in Seq(HeaderLine), NEW name
  PROVE  Result(Seq(HeaderLine), Rejects(name), <<>>, hs, Without(hs, name))
<1> DEFINE F(g) == [i \in 0 .. Len(hs) |-> IF i = 0 THEN <<>> ELSE IF hs[i].name # name THEN Append(g[i - 1], hs[i]) ELSE g[i - 1]]
           c == CHOOSE g : g = F(g)
           A == Seq(HeaderLine)
           G == Rejects(name)
<1>0. G \in [A \X HeaderLine -> A]
      /\ \A a \in A, x \in HeaderLine : G[<<a, x>>] = IF x.name # name THEN Append(a, x) ELSE a
  BY DEF Rejects
<1>1. PICK f \in [0 .. Len(hs) -> A] :
        f[0] = <<>> /\ \A i \in 1 .. Len(hs) : f[i] = G[<<f[i - 1], hs[i]>>]
  <2>1. <<>> \in A /\ G \in [A \X HeaderLine -> A]  BY <1>0
  <2>2. Runnable(A, G, <<>>, hs)
    <3> HIDE DEF A, G
    <3> QED  BY <2>1, RunsExists
  <2> QED  BY <2>2, Zenon DEF Runnable
<1>2. f = F(f)
  <2>1. ASSUME NEW i \in 0 .. Len(hs) PROVE f[i] = F(f)[i]
    <3>1. CASE i = 0  BY <1>1, <3>1
    <3>2. CASE i # 0
      <4>1. i \in 1 .. Len(hs) /\ f[i - 1] \in A /\ hs[i] \in HeaderLine  BY <1>1, <3>2
      <4> HIDE DEF A, G
      <4> QED  BY <1>0, <1>1, <3>2, <4>1
    <3> QED  BY <3>1, <3>2
  <2> QED  BY <1>1, <2>1
<1>3. c = F(c)  BY <1>2, Zenon
<1> DEFINE H == F(c)
<1>4. c[0] = <<>>
  <2>1. H[0] = <<>>  OBVIOUS
  <2> HIDE DEF c, F
  <2> QED  BY <1>3, <2>1, Zenon
<1>5. ASSUME NEW i \in 1 .. Len(hs), c[i - 1] \in A PROVE c[i] = G[<<c[i - 1], hs[i]>>]
  <2> HIDE DEF c, G, A
  <2>1. c[i] = IF hs[i].name # name THEN Append(c[i - 1], hs[i]) ELSE c[i - 1]
    <3>1. H[i] = IF hs[i].name # name THEN Append(c[i - 1], hs[i]) ELSE c[i - 1]  OBVIOUS
    <3> HIDE DEF F
    <3> QED  BY <1>3, <3>1, Zenon
  <2>2. hs[i] \in HeaderLine  OBVIOUS
  <2> QED  BY <1>0, <1>5, <2>1, <2>2
<1>6. Without(hs, name) = c[Len(hs)]  BY Zenon DEF Without, Loop
<1> HIDE DEF c
<1> QED  BY <1>4, <1>5, <1>6, Zenon DEF Result, Runs

\* Lines and Without, one line after the other.
LEMMA LinesRules ==
  ASSUME NEW name
  PROVE  /\ Lines(<<>>, name) = <<>> /\ Without(<<>>, name) = <<>>
         /\ \A hs \in Seq(HeaderLine) :
              Lines(hs, name) \in Seq(HeaderLine) /\ Without(hs, name) \in Seq(HeaderLine)
         /\ \A hs \in Seq(HeaderLine), l \in HeaderLine :
              /\ Lines(Append(hs, l), name) = IF l.name = name THEN Append(Lines(hs, name), l) ELSE Lines(hs, name)
              /\ Without(Append(hs, l), name) = IF l.name # name THEN Append(Without(hs, name), l) ELSE Without(hs, name)
<1> DEFINE A == Seq(HeaderLine)
           G == Selects(name)
           R == Rejects(name)
<1>1. G \in [A \X HeaderLine -> A]
      /\ \A a \in A, l \in HeaderLine : G[<<a, l>>] = IF l.name = name THEN Append(a, l) ELSE a
  BY DEF Selects
<1>2. R \in [A \X HeaderLine -> A]
      /\ \A a \in A, l \in HeaderLine : R[<<a, l>>] = IF l.name # name THEN Append(a, l) ELSE a
  BY DEF Rejects
<1>3. <<>> \in A /\ \A hs \in A, l \in HeaderLine : Append(hs, l) \in A  OBVIOUS
<1>4. \A hs \in A : Result(A, G, <<>>, hs, Lines(hs, name)) /\ Result(A, R, <<>>, hs, Without(hs, name))
  BY LinesResult, WithoutResult, Zenon
<1> HIDE DEF G, R
<1>5. /\ \A v : Result(A, G, <<>>, <<>>, v) => v = <<>>
      /\ \A s \in A : \A v : Result(A, G, <<>>, s, v) => v \in A
      /\ \A s \in A, x \in HeaderLine : \A v, w :
           Result(A, G, <<>>, s, v) /\ Result(A, G, <<>>, Append(s, x), w) => w = G[<<v, x>>]
  <2>1. LoopRules(A, HeaderLine, G, <<>>)
    <3> HIDE DEF A
    <3> QED  BY <1>1, <1>3, ResultRules
  <2> QED  BY <2>1, Zenon DEF LoopRules
<1>6. /\ \A v : Result(A, R, <<>>, <<>>, v) => v = <<>>
      /\ \A s \in A : \A v : Result(A, R, <<>>, s, v) => v \in A
      /\ \A s \in A, x \in HeaderLine : \A v, w :
           Result(A, R, <<>>, s, v) /\ Result(A, R, <<>>, Append(s, x), w) => w = R[<<v, x>>]
  <2>1. LoopRules(A, HeaderLine, R, <<>>)
    <3> HIDE DEF A
    <3> QED  BY <1>2, <1>3, ResultRules
  <2> QED  BY <2>1, Zenon DEF LoopRules
<1> HIDE DEF A
<1>7. Lines(<<>>, name) = <<>> /\ Without(<<>>, name) = <<>>  BY <1>3, <1>4, <1>5, <1>6
<1>8. \A hs \in A : Lines(hs, name) \in A /\ Without(hs, name) \in A  BY <1>4, <1>5, <1>6
<1>9. ASSUME NEW hs \in A, NEW l \in HeaderLine
      PROVE  /\ Lines(Append(hs, l), name) = IF l.name = name THEN Append(Lines(hs, name), l) ELSE Lines(hs, name)
             /\ Without(Append(hs, l), name) = IF l.name # name THEN Append(Without(hs, name), l) ELSE Without(hs, name)
  <2>1. Lines(Append(hs, l), name) = G[<<Lines(hs, name), l>>]  BY <1>3, <1>4, <1>5
  <2>2. Without(Append(hs, l), name) = R[<<Without(hs, name), l>>]  BY <1>3, <1>4, <1>6
  <2> QED  BY <1>1, <1>2, <1>8, <2>1, <2>2
<1> QED  BY <1>7, <1>8, <1>9 DEF A

\* The elements of a sequence, of one with one more, and of two in a row.
LEMMA RangeRules ==
  /\ Range(<<>>) = {}
  /\ \A S : \A s \in Seq(S) : \A x \in S : Range(Append(s, x)) = Range(s) \cup {x}
  /\ \A S : \A s, t \in Seq(S) : Range(s \o t) = Range(s) \cup Range(t)
  /\ \A S : \A s \in Seq(S) : Range(s) \subseteq S /\ (s # <<>> => Range(s) # {})
<1>1. Range(<<>>) = {}  BY DEF Range
<1>2. ASSUME NEW S, NEW s \in Seq(S), NEW x \in S PROVE Range(Append(s, x)) = Range(s) \cup {x}
  <2> DEFINE t == Append(s, x)
  <2>1. DOMAIN t = 1 .. Len(s) + 1 /\ DOMAIN s = 1 .. Len(s) /\ t[Len(s) + 1] = x
        /\ (\A i \in 1 .. Len(s) : t[i] = s[i]) /\ Len(s) + 1 \in 1 .. Len(s) + 1
    OBVIOUS
  <2>2. \A i \in 1 .. Len(s) + 1 : i \in 1 .. Len(s) \/ i = Len(s) + 1  OBVIOUS
  <2>3. 1 .. Len(s) \subseteq 1 .. Len(s) + 1  OBVIOUS
  <2> HIDE DEF t
  <2>4. Range(t) = Range(s) \cup {x}  BY <2>1, <2>2, <2>3 DEF Range
  <2> QED  BY <2>4 DEF t
<1>3. ASSUME NEW S, NEW s \in Seq(S), NEW t \in Seq(S) PROVE Range(s \o t) = Range(s) \cup Range(t)
  <2> DEFINE u == s \o t
  <2>1. DOMAIN u = 1 .. Len(s) + Len(t) /\ DOMAIN s = 1 .. Len(s) /\ DOMAIN t = 1 .. Len(t)
        /\ (\A i \in 1 .. Len(s) : u[i] = s[i] /\ i \in 1 .. Len(s) + Len(t))
        /\ (\A i \in 1 .. Len(t) : u[Len(s) + i] = t[i] /\ Len(s) + i \in 1 .. Len(s) + Len(t))
    OBVIOUS
  <2>2. ASSUME NEW i \in 1 .. Len(s) + Len(t) PROVE u[i] \in Range(s) \cup Range(t)
    <3>1. CASE i <= Len(s)
      <4>1. i \in 1 .. Len(s) /\ u[i] = s[i]  BY <3>1
      <4> HIDE DEF u
      <4> QED  BY <2>1, <4>1 DEF Range
    <3>2. CASE ~(i <= Len(s))
      <4>1. i - Len(s) \in 1 .. Len(t) /\ u[i] = t[i - Len(s)]  BY <3>2
      <4> HIDE DEF u
      <4> QED  BY <2>1, <4>1 DEF Range
    <3> QED  BY <3>1, <3>2
  <2> HIDE DEF u
  <2>3. Range(u) \subseteq Range(s) \cup Range(t)  BY <2>1, <2>2 DEF Range
  <2>4. Range(s) \subseteq Range(u) /\ Range(t) \subseteq Range(u)  BY <2>1 DEF Range
  <2>5. Range(u) = Range(s) \cup Range(t)  BY <2>3, <2>4
  <2> QED  BY <2>5 DEF u
<1>4. ASSUME NEW S, NEW s \in Seq(S) PROVE Range(s) \subseteq S /\ (s # <<>> => Range(s) # {})
  <2>1. DOMAIN s = 1 .. Len(s) /\ (\A i \in 1 .. Len(s) : s[i] \in S) /\ (s # <<>> => 1 \in 1 .. Len(s))
    OBVIOUS
  <2> QED  BY <2>1 DEF Range
<1> QED  BY <1>1, <1>2, <1>3, <1>4

\* Which lines are selected, and that other lines stay what they were.
LEMMA LinesOf ==
  ASSUME NEW hs \in Seq(HeaderLine), NEW n
  PROVE  /\ Range(Lines(hs, n)) = {l \in Range(hs) : l.name = n}
         /\ Range(Without(hs, n)) = {l \in Range(hs) : l.name # n}
         /\ Lines(Without(hs, n), n) = <<>>
         /\ \A m : m # n => Lines(Without(hs, n), m) = Lines(hs, m)
<1> DEFINE Good(s) ==
             /\ Range(Lines(s, n)) = {l \in Range(s) : l.name = n}
             /\ Range(Without(s, n)) = {l \in Range(s) : l.name # n}
             /\ Lines(Without(s, n), n) = <<>>
             /\ \A m : m # n => Lines(Without(s, n), m) = Lines(s, m)
           P == {s \in Seq(HeaderLine) : Good(s)}
<1>1. <<>> \in P
  <2>1. <<>> \in Seq(HeaderLine)  OBVIOUS
  <2>2. Good(<<>>)  BY LinesRules, RangeRules
  <2> QED  BY <2>1, <2>2
<1>2. ASSUME NEW s \in Seq(HeaderLine), NEW x \in HeaderLine, s \in P PROVE Append(s, x) \in P
  <2> DEFINE t == Append(s, x)
  <2>1. Good(s) /\ t \in Seq(HeaderLine)  BY <1>2
  <2>2. Range(t) = Range(s) \cup {x}  BY RangeRules
  <2>3. Lines(s, n) \in Seq(HeaderLine) /\ Without(s, n) \in Seq(HeaderLine)  BY LinesRules
  <2>4. Lines(t, n) = (IF x.name = n THEN Append(Lines(s, n), x) ELSE Lines(s, n))
        /\ Without(t, n) = (IF x.name # n THEN Append(Without(s, n), x) ELSE Without(s, n))
    BY LinesRules
  <2>5. Range(Append(Lines(s, n), x)) = Range(Lines(s, n)) \cup {x}
        /\ Range(Append(Without(s, n), x)) = Range(Without(s, n)) \cup {x}
    BY <2>3, RangeRules
  <2> HIDE DEF t
  <2>6. Range(Lines(t, n)) = {l \in Range(t) : l.name = n}
    <3>1. CASE x.name = n  BY <2>1, <2>2, <2>4, <2>5, <3>1
    <3>2. CASE x.name # n  BY <2>1, <2>2, <2>4, <3>2
    <3> QED  BY <3>1, <3>2
  <2>7. Range(Without(t, n)) = {l \in Range(t) : l.name # n}
    <3>1. CASE x.name = n  BY <2>1, <2>2, <2>4, <3>1
    <3>2. CASE x.name # n  BY <2>1, <2>2, <2>4, <2>5, <3>2
    <3> QED  BY <3>1, <3>2
  <2>8. ASSUME NEW m PROVE Lines(Append(Without(s, n), x), m)
               = IF x.name = m THEN Append(Lines(Without(s, n), m), x) ELSE Lines(Without(s, n), m)
    BY <2>3, LinesRules
  <2>9. Lines(Without(t, n), n) = <<>>
    <3>1. CASE x.name = n  BY <2>1, <2>4, <3>1
    <3>2. CASE x.name # n  BY <2>1, <2>4, <2>8, <3>2
    <3> QED  BY <3>1, <3>2
  <2>10. ASSUME NEW m, m # n PROVE Lines(Without(t, n), m) = Lines(t, m)
    <3>0. Lines(t, m) = (IF x.name = m THEN Append(Lines(s, m), x) ELSE Lines(s, m))
      BY LinesRules DEF t
    <3>1. CASE x.name = n  BY <2>1, <2>4, <2>10, <3>0, <3>1
    <3>2. CASE x.name # n  BY <2>1, <2>4, <2>8, <2>10, <3>0, <3>2
    <3> QED  BY <3>1, <3>2
  <2> QED  BY <2>1, <2>6, <2>7, <2>9, <2>10 DEF t
<1>3. Seq(HeaderLine) \subseteq P
  <2> HIDE DEF P
  <2> QED  BY <1>1, <1>2, SeqSetInduction
<1> QED  BY <1>3

-----------------------------------------------------------------------------
(* Header fields: what set_content_length, add_chunked and removals do.    *)

\* The fields of a head hs, in terms of its lines.
LEMMA FieldOf ==
  ASSUME NEW hs \in Seq(HeaderLine), NEW n
  PROVE  /\ Has(hs, n) <=> \E l \in Range(hs) : l.name = n
         /\ Values(hs, n) = UNION {Range(l.vals) : l \in {k \in Range(hs) : k.name = n}}
         /\ Has(hs, n) <=> Values(hs, n) # {}
<1> DEFINE L == Lines(hs, n)
<1>1. L \in Seq(HeaderLine) /\ Range(L) = {l \in Range(hs) : l.name = n}  BY LinesRules, LinesOf, ZenonT(60)
<1>2. Has(hs, n) <=> L # <<>>  BY DEF Has
<1>3. Values(hs, n) = UNION {Range(l.vals) : l \in Range(L)}  BY DEF Values
<1>4. Range(L) \subseteq HeaderLine /\ (L # <<>> <=> Range(L) # {})
  <2> HIDE DEF L
  <2> QED  BY <1>1, RangeRules
<1>5. \A l \in HeaderLine : Range(l.vals) # {}
  <2> SUFFICES ASSUME NEW l \in HeaderLine PROVE Range(l.vals) # {}  OBVIOUS
  <2>1. l.vals \in Seq(Atoms \cup Seq(Nat)) /\ l.vals # <<>>  BY LineFacts
  <2> QED  BY <2>1, RangeRules
<1> HIDE DEF L
<1>6. L # <<>> <=> Values(hs, n) # {}
  <2>1. ASSUME L # <<>> PROVE Values(hs, n) # {}
    <3>1. PICK l \in Range(L) : TRUE  BY <1>4, <2>1
    <3>2. PICK v \in Range(l.vals) : TRUE  BY <1>4, <1>5, <3>1
    <3>3. v \in Values(hs, n)  BY <1>3, <3>1, <3>2
    <3> QED  BY <3>3
  <2>2. ASSUME Values(hs, n) # {} PROVE L # <<>>
    <3>1. PICK l \in Range(L) : TRUE  BY <1>3, <2>2
    <3> QED  BY <1>4, <3>1
  <2> QED  BY <2>1, <2>2
<1> QED  BY <1>1, <1>2, <1>3, <1>4, <1>6

\* A head without a field.
LEMMA FieldWithout ==
  ASSUME NEW hs \in Seq(HeaderLine), NEW n
  PROVE  /\ Without(hs, n) \in Seq(HeaderLine) /\ ~Has(Without(hs, n), n)
         /\ \A m : m # n => /\ Has(Without(hs, n), m) = Has(hs, m)
                            /\ Values(Without(hs, n), m) = Values(hs, m)
                            /\ Lines(Without(hs, n), m) = Lines(hs, m)
<1>1. Without(hs, n) \in Seq(HeaderLine)  BY LinesRules
<1>2. Lines(Without(hs, n), n) = <<>>  BY LinesOf
<1>3. \A m : m # n => Lines(Without(hs, n), m) = Lines(hs, m)  BY LinesOf
<1>4. ~Has(Without(hs, n), n)  BY <1>2 DEF Has
<1>5. ASSUME NEW m, m # n PROVE Has(Without(hs, n), m) = Has(hs, m) /\ Values(Without(hs, n), m) = Values(hs, m)
  <2>1. Lines(Without(hs, n), m) = Lines(hs, m)  BY <1>3, <1>5
  <2> QED  BY <2>1, Zenon DEF Has, Values
<1> QED  BY <1>1, <1>3, <1>4, <1>5

\* A head with one line more.
LEMMA FieldAppend ==
  ASSUME NEW hs \in Seq(HeaderLine), NEW l \in HeaderLine
  PROVE  /\ Append(hs, l) \in Seq(HeaderLine)
         /\ Has(Append(hs, l), l.name) /\ Values(Append(hs, l), l.name) = Values(hs, l.name) \cup Range(l.vals)
         /\ Lines(Append(hs, l), l.name) = Append(Lines(hs, l.name), l)
         /\ \A m : m # l.name => /\ Has(Append(hs, l), m) = Has(hs, m)
                                 /\ Values(Append(hs, l), m) = Values(hs, m)
                                 /\ Lines(Append(hs, l), m) = Lines(hs, m)
<1>1. Append(hs, l) \in Seq(HeaderLine)  OBVIOUS
<1>2. Lines(Append(hs, l), l.name) = Append(Lines(hs, l.name), l)  BY LinesRules
<1>3. ASSUME NEW m, m # l.name PROVE Lines(Append(hs, l), m) = Lines(hs, m)
  BY <1>3, LinesRules
<1>4. Lines(hs, l.name) \in Seq(HeaderLine)  BY LinesRules
<1>5. Append(Lines(hs, l.name), l) # <<>>
      /\ Range(Append(Lines(hs, l.name), l)) = Range(Lines(hs, l.name)) \cup {l}
  BY <1>4, RangeRules
<1>6. Has(Append(hs, l), l.name)  BY <1>2, <1>5 DEF Has
<1>7. Values(Append(hs, l), l.name) = Values(hs, l.name) \cup Range(l.vals)
  BY <1>2, <1>5 DEF Values
<1>8. ASSUME NEW m, m # l.name PROVE Has(Append(hs, l), m) = Has(hs, m) /\ Values(Append(hs, l), m) = Values(hs, m)
  <2>1. Lines(Append(hs, l), m) = Lines(hs, m)  BY <1>3, <1>8
  <2> QED  BY <2>1, Zenon DEF Has, Values
<1> QED  BY <1>1, <1>2, <1>3, <1>6, <1>7, <1>8

\* HeaderMap::insert: the field has this line only.
LEMMA FieldInsert ==
  ASSUME NEW hs \in Seq(HeaderLine), NEW l \in HeaderLine
  PROVE  /\ Insert(hs, l) \in Seq(HeaderLine)
         /\ Has(Insert(hs, l), l.name) /\ Values(Insert(hs, l), l.name) = Range(l.vals)
         /\ \A m : m # l.name => /\ Has(Insert(hs, l), m) = Has(hs, m)
                                 /\ Values(Insert(hs, l), m) = Values(hs, m)
                                 /\ Lines(Insert(hs, l), m) = Lines(hs, m)
<1> DEFINE w == Without(hs, l.name)
<1>1. /\ w \in Seq(HeaderLine) /\ ~Has(w, l.name)
      /\ \A m : m # l.name => Has(w, m) = Has(hs, m) /\ Values(w, m) = Values(hs, m)
                              /\ Lines(w, m) = Lines(hs, m)
  BY FieldWithout
<1>2. Insert(hs, l) = Append(w, l)  BY DEF Insert
<1> HIDE DEF w
<1>3. Values(w, l.name) = {}  BY <1>1, FieldOf
<1>4. /\ Append(w, l) \in Seq(HeaderLine)
      /\ Has(Append(w, l), l.name) /\ Values(Append(w, l), l.name) = Values(w, l.name) \cup Range(l.vals)
      /\ \A m : m # l.name => /\ Has(Append(w, l), m) = Has(w, m)
                              /\ Values(Append(w, l), m) = Values(w, m)
                              /\ Lines(Append(w, l), m) = Lines(w, m)
  BY <1>1, FieldAppend
<1> QED  BY <1>1, <1>2, <1>3, <1>4

-----------------------------------------------------------------------------
(* Numbers: from_digits reads what a numeral denotes, or that it is too    *)
(* large, and a number that is written denotes itself.                     *)

\* The bodies of the loops, and the one of FromDigits.
Weighs == [p \in Nat \X Nat |-> p[1] * Base + p[2]]
Parses == [p \in (0 .. Word) \X Nat |-> IF p[1] = NaN \/ p[1] * Base + p[2] >= Word THEN NaN ELSE p[1] * Base + p[2]]
Parsed(s) == Loop(LAMBDA n, d : IF n = NaN \/ n * Base + d >= Word THEN NaN ELSE n * Base + d, 0, s)

\* Multiplication stays in the natural numbers, and makes nothing smaller.
LEMMA Grows ==
  ASSUME NEW n \in Nat, NEW d \in Nat
  PROVE  n * Base + d \in Nat /\ n * Base + d >= n
<1>1. Base \in Nat /\ Base >= 1  BY FramingAssumption
<1>2. n * Base \in Nat /\ n * Base >= n  BY <1>1
<1> QED  BY <1>2

\* The body of the parser's loop.
LEMMA ParsesFacts ==
  /\ Parses \in [(0 .. Word) \X Nat -> (0 .. Word)]
  /\ \A n \in 0 .. Word, d \in Nat :
       Parses[<<n, d>>] = IF n = NaN \/ n * Base + d >= Word THEN NaN ELSE n * Base + d
<1> DEFINE R(n, d) == IF n = NaN \/ n * Base + d >= Word THEN NaN ELSE n * Base + d
<1>1. ASSUME NEW n \in 0 .. Word, NEW d \in Nat PROVE R(n, d) \in 0 .. Word
  <2>1. PICK m \in Nat : m = n * Base + d  BY Grows, FramingAssumption
  <2>2. R(n, d) = IF n = Word \/ m >= Word THEN Word ELSE m  BY <2>1 DEF NaN
  <2> QED  BY <2>2, FramingAssumption
<1>2. Parses = [p \in (0 .. Word) \X Nat |-> R(p[1], p[2])]  BY Zenon DEF Parses
<1> HIDE DEF R
<1>3. Parses \in [(0 .. Word) \X Nat -> (0 .. Word)]
      /\ \A n \in 0 .. Word, d \in Nat : Parses[<<n, d>>] = R(n, d)
  BY <1>1, <1>2
<1> QED  BY <1>3, Zenon DEF R

\* Denotes is a loop.
LEMMA DenotesResult ==
  ASSUME NEW s \in Seq(Nat)
  PROVE  Result(Nat, Weighs, 0, s, Denotes(s))
<1> DEFINE F(g) == [i \in 0 .. Len(s) |-> IF i = 0 THEN 0 ELSE g[i - 1] * Base + s[i]]
           c == CHOOSE g : g = F(g)
           A == Nat
           G == Weighs
<1>0. G \in [A \X Nat -> A]
      /\ \A a \in A, x \in Nat : G[<<a, x>>] = a * Base + x
  BY Grows DEF Weighs
<1>1. PICK f \in [0 .. Len(s) -> A] :
        f[0] = 0 /\ \A i \in 1 .. Len(s) : f[i] = G[<<f[i - 1], s[i]>>]
  <2>1. 0 \in A /\ G \in [A \X Nat -> A]  BY <1>0, Grows
  <2>2. Runnable(A, G, 0, s)
    <3> HIDE DEF A, G
    <3> QED  BY <2>1, RunsExists
  <2> QED  BY <2>2, Zenon DEF Runnable
<1>2. f = F(f)
  <2>1. ASSUME NEW i \in 0 .. Len(s) PROVE f[i] = F(f)[i]
    <3>1. CASE i = 0  BY <1>1, <3>1
    <3>2. CASE i # 0
      <4>0. i \in 1 .. Len(s) /\ i - 1 \in 0 .. Len(s) /\ s[i] \in Nat  BY <3>2
      <4>1. f[i - 1] \in A
        <5> HIDE DEF A, G
        <5> QED  BY <1>1, <4>0
      <4> HIDE DEF A, G
      <4> QED  BY <1>0, <1>1, <3>2, <4>0, <4>1
    <3> QED  BY <3>1, <3>2
  <2> QED  BY <1>1, <2>1
<1>3. c = F(c)  BY <1>2, Zenon
<1> DEFINE H == F(c)
<1>4. c[0] = 0
  <2>1. H[0] = 0  OBVIOUS
  <2> HIDE DEF c, F
  <2> QED  BY <1>3, <2>1, Zenon
<1>5. ASSUME NEW i \in 1 .. Len(s), c[i - 1] \in A PROVE c[i] = G[<<c[i - 1], s[i]>>]
  <2> HIDE DEF c, G, A
  <2>1. c[i] = c[i - 1] * Base + s[i]
    <3>1. H[i] = c[i - 1] * Base + s[i]  OBVIOUS
    <3> HIDE DEF F
    <3> QED  BY <1>3, <3>1, Zenon
  <2>2. s[i] \in Nat  OBVIOUS
  <2> QED  BY <1>0, <1>5, <2>1, <2>2
<1>6. Denotes(s) = c[Len(s)]  BY Zenon DEF Denotes, Loop
<1> HIDE DEF c
<1> QED  BY <1>4, <1>5, <1>6, Zenon DEF Result, Runs

\* So is FromDigits.
LEMMA ParsedResult ==
  ASSUME NEW s \in Seq(Nat)
  PROVE  Result((0 .. Word), Parses, 0, s, Parsed(s))
<1> DEFINE F(g) == [i \in 0 .. Len(s) |-> IF i = 0 THEN 0 ELSE IF g[i - 1] = NaN \/ g[i - 1] * Base + s[i] >= Word THEN NaN ELSE g[i - 1] * Base + s[i]]
           c == CHOOSE g : g = F(g)
           A == (0 .. Word)
           G == Parses
<1>0. G \in [A \X Nat -> A]
      /\ \A a \in A, x \in Nat : G[<<a, x>>] = IF a = NaN \/ a * Base + x >= Word THEN NaN ELSE a * Base + x
  BY ParsesFacts
<1>1. PICK f \in [0 .. Len(s) -> A] :
        f[0] = 0 /\ \A i \in 1 .. Len(s) : f[i] = G[<<f[i - 1], s[i]>>]
  <2>1. 0 \in A /\ G \in [A \X Nat -> A]  BY <1>0, FramingAssumption
  <2>2. Runnable(A, G, 0, s)
    <3> HIDE DEF A, G
    <3> QED  BY <2>1, RunsExists
  <2> QED  BY <2>2, Zenon DEF Runnable
<1>2. f = F(f)
  <2>1. ASSUME NEW i \in 0 .. Len(s) PROVE f[i] = F(f)[i]
    <3>1. CASE i = 0  BY <1>1, <3>1
    <3>2. CASE i # 0
      <4>0. i \in 1 .. Len(s) /\ i - 1 \in 0 .. Len(s) /\ s[i] \in Nat  BY <3>2
      <4>1. f[i - 1] \in A
        <5> HIDE DEF A, G
        <5> QED  BY <1>1, <4>0
      <4> HIDE DEF A, G
      <4> QED  BY <1>0, <1>1, <3>2, <4>0, <4>1
    <3> QED  BY <3>1, <3>2
  <2> QED  BY <1>1, <2>1
<1>3. c = F(c)  BY <1>2, Zenon
<1> DEFINE H == F(c)
<1>4. c[0] = 0
  <2>1. H[0] = 0  OBVIOUS
  <2> HIDE DEF c, F
  <2> QED  BY <1>3, <2>1, Zenon
<1>5. ASSUME NEW i \in 1 .. Len(s), c[i - 1] \in A PROVE c[i] = G[<<c[i - 1], s[i]>>]
  <2> HIDE DEF c, G, A
  <2>1. c[i] = IF c[i - 1] = NaN \/ c[i - 1] * Base + s[i] >= Word THEN NaN ELSE c[i - 1] * Base + s[i]
    <3>1. H[i] = IF c[i - 1] = NaN \/ c[i - 1] * Base + s[i] >= Word THEN NaN ELSE c[i - 1] * Base + s[i]  OBVIOUS
    <3> HIDE DEF F
    <3> QED  BY <1>3, <3>1, Zenon
  <2>2. s[i] \in Nat  OBVIOUS
  <2> QED  BY <1>0, <1>5, <2>1, <2>2
<1>6. Parsed(s) = c[Len(s)]  BY Zenon DEF Parsed, Loop
<1> HIDE DEF c
<1> QED  BY <1>4, <1>5, <1>6, Zenon DEF Result, Runs

\* Denotes, one digit after the other.
LEMMA DenotesRules ==
  /\ Denotes(<<>>) = 0
  /\ \A s \in Seq(Nat) : Denotes(s) \in Nat
  /\ \A s \in Seq(Nat), d \in Nat : Denotes(Append(s, d)) = Denotes(s) * Base + d
<1> DEFINE G == Weighs
<1>1. G \in [Nat \X Nat -> Nat] /\ \A n, d \in Nat : G[<<n, d>>] = n * Base + d  BY Grows DEF Weighs
<1>2. \A s \in Seq(Nat) : Result(Nat, G, 0, s, Denotes(s))  BY DenotesResult
<1> HIDE DEF G
<1>3. LoopRules(Nat, Nat, G, 0)
  <2>1. 0 \in Nat  OBVIOUS
  <2> QED  BY <1>1, <2>1, ResultRules
<1>4. <<>> \in Seq(Nat) /\ \A s \in Seq(Nat), d \in Nat : Append(s, d) \in Seq(Nat)  OBVIOUS
<1>5. Denotes(<<>>) = 0  BY <1>2, <1>3, <1>4, Zenon DEF LoopRules
<1>6. \A s \in Seq(Nat) : Denotes(s) \in Nat  BY <1>2, <1>3, Zenon DEF LoopRules
<1>7. ASSUME NEW s \in Seq(Nat), NEW d \in Nat PROVE Denotes(Append(s, d)) = Denotes(s) * Base + d
  <2>1. Denotes(Append(s, d)) = G[<<Denotes(s), d>>]  BY <1>2, <1>3, <1>4, Zenon DEF LoopRules
  <2> QED  BY <1>1, <1>6, <2>1
<1> QED  BY <1>5, <1>6, <1>7

\* The parser's loop has the number, or has found that it is too large.
LEMMA ParsedIs ==
  ASSUME NEW s \in Seq(Nat)
  PROVE  Parsed(s) = IF Denotes(s) < Word THEN Denotes(s) ELSE NaN
<1> DEFINE G == Parses
           Good(t) == Parsed(t) = IF Denotes(t) < Word THEN Denotes(t) ELSE NaN
           P == {t \in Seq(Nat) : Good(t)}
<1>1. G \in [(0 .. Word) \X Nat -> (0 .. Word)]
      /\ \A n \in 0 .. Word, d \in Nat :
           G[<<n, d>>] = IF n = NaN \/ n * Base + d >= Word THEN NaN ELSE n * Base + d
  BY ParsesFacts
<1>2. \A t \in Seq(Nat) : Result((0 .. Word), G, 0, t, Parsed(t))  BY ParsedResult
<1> HIDE DEF G
<1>3. LoopRules((0 .. Word), Nat, G, 0)
  <2>1. 0 \in 0 .. Word  BY FramingAssumption
  <2> QED  BY <1>1, <2>1, ResultRules
<1>4. <<>> \in Seq(Nat) /\ \A t \in Seq(Nat), d \in Nat : Append(t, d) \in Seq(Nat)  OBVIOUS
<1>5. <<>> \in P
  <2>1. Parsed(<<>>) = 0  BY <1>2, <1>3, <1>4, Zenon DEF LoopRules
  <2> QED  BY <1>4, <2>1, DenotesRules, FramingAssumption
<1>6. ASSUME NEW t \in Seq(Nat), NEW d \in Nat, t \in P PROVE Append(t, d) \in P
  <2>1. Parsed(Append(t, d)) = G[<<Parsed(t), d>>]  BY <1>2, <1>3, <1>4, Zenon DEF LoopRules
  <2>2. Parsed(t) \in 0 .. Word  BY <1>2, <1>3, Zenon DEF LoopRules
  <2>3. PICK n \in Nat : n = Denotes(t)  BY DenotesRules
  <2>4. Denotes(Append(t, d)) = n * Base + d  BY <2>3, DenotesRules
  <2>5. n * Base + d \in Nat /\ n * Base + d >= n  BY Grows
  <2>6. Parsed(t) = IF n < Word THEN n ELSE Word  BY <1>6, <2>3 DEF NaN
  <2>7. Parsed(Append(t, d)) = IF n * Base + d < Word THEN n * Base + d ELSE Word
    <3>1. CASE n < Word
      <4>1. Parsed(t) = n /\ n # Word /\ n \in 0 .. Word  BY <2>6, <3>1, FramingAssumption
      <4>2. Parsed(Append(t, d)) = IF n = Word \/ n * Base + d >= Word THEN Word ELSE n * Base + d
        BY <1>1, <2>1, <4>1 DEF NaN
      <4> QED  BY <2>5, <4>1, <4>2, FramingAssumption
    <3>2. CASE ~(n < Word)
      <4>1. Parsed(t) = Word /\ Word \in 0 .. Word  BY <2>6, <3>2, FramingAssumption
      <4>2. Parsed(Append(t, d)) = Word  BY <1>1, <2>1, <4>1 DEF NaN
      <4> QED  BY <2>5, <3>2, <4>2, FramingAssumption
    <3> QED  BY <3>1, <3>2
  <2>8. Good(Append(t, d))  BY <2>4, <2>7 DEF NaN
  <2> QED  BY <1>4, <2>8
<1>7. Seq(Nat) \subseteq P
  <2> HIDE DEF P
  <2> QED  BY <1>5, <1>6, SeqSetInduction
<1> QED  BY <1>7

\* from_digits: the number a numeral denotes, if it has the width for it.
LEMMA FromDigitsIs ==
  ASSUME NEW s \in Seq(Nat)
  PROVE  /\ FromDigits(s) = IF Numeral(s) /\ Denotes(s) < Word THEN Denotes(s) ELSE NaN
         /\ Denotes(s) \in Nat
<1>1. FromDigits(s) = IF s = <<>> \/ (\E i \in 1 .. Len(s) : s[i] \notin 0 .. Base - 1) THEN NaN ELSE Parsed(s)
  BY Zenon DEF FromDigits, Parsed
<1>2. Numeral(s) <=> ~(s = <<>> \/ \E i \in 1 .. Len(s) : s[i] \notin 0 .. Base - 1)
  BY Zenon DEF Numeral
<1>3. Denotes(s) \in Nat  BY DenotesRules
<1> QED  BY <1>1, <1>2, <1>3, ParsedIs

\* Division with remainder.
LEMMA Division ==
  ASSUME NEW n \in Nat
  PROVE  /\ n \div Base \in Nat /\ n % Base \in 0 .. Base - 1
         /\ n = (n \div Base) * Base + (n % Base)
         /\ n > 0 => n \div Base < n
<1>1. Base \in Nat /\ Base > 1  BY FramingAssumption
<1>2. n \div Base \in Nat /\ n % Base \in 0 .. Base - 1  BY <1>1
<1>3. n = (n \div Base) * Base + (n % Base)  BY <1>1
<1>4. n > 0 => n \div Base < n  BY <1>1
<1> QED  BY <1>2, <1>3, <1>4

\* The function Digits computes with.
Spells(f, n) == f = [m \in 0 .. n |-> IF m < Base THEN <<m>> ELSE Append(f[m \div Base], m % Base)]

\* There is one, built up from smaller numbers.
LEMMA SpellsExists ==
  ASSUME NEW k \in Nat
  PROVE  \E f : Spells(f, k)
<1> DEFINE D(f, m) == IF m < Base THEN <<m>> ELSE Append(f[m \div Base], m % Base)
           Upto(f, n) == f = [m \in 0 .. n |-> D(f, m)]
           T == {n \in Nat : \E f : Upto(f, n)}
<1>0. Base \in Nat /\ Base > 1  BY FramingAssumption
<1>1. 0 \in T
  <2> DEFINE g == [m \in 0 .. 0 |-> <<m>>]
             h == [m \in 0 .. 0 |-> D(g, m)]
  <2>1. \A m \in 0 .. 0 : g[m] = h[m]  BY <1>0
  <2>2. g = h  BY <2>1
  <2>3. Upto(g, 0)  BY <2>2, Zenon
  <2> QED  BY <2>3, Zenon
<1>2. ASSUME NEW n \in Nat, n \in T PROVE n + 1 \in T
  <2>1. PICK f : Upto(f, n)  BY <1>2, Zenon
  <2> DEFINE g == [m \in 0 .. n + 1 |-> IF m <= n THEN f[m] ELSE D(f, m)]
             h == [m \in 0 .. n + 1 |-> D(g, m)]
             F == [m \in 0 .. n |-> D(f, m)]
  <2>2. ASSUME NEW m \in 0 .. n + 1 PROVE D(g, m) = D(f, m)
    <3>1. CASE m < Base  BY <3>1
    <3>2. CASE ~(m < Base)
      <4>1. m \div Base \in 0 .. n + 1 /\ m \div Base <= n
        <5>1. m > 0 /\ m \in Nat  BY <1>0, <3>2
        <5>2. m \div Base \in Nat /\ m \div Base < m  BY <5>1, Division
        <5> QED  BY <5>2
      <4>2. g[m \div Base] = f[m \div Base]  BY <4>1
      <4> HIDE DEF g
      <4> QED  BY <3>2, <4>2
    <3> QED  BY <3>1, <3>2
  <2>3. ASSUME NEW m \in 0 .. n + 1 PROVE g[m] = D(f, m)
    <3>1. CASE m <= n
      <4>1. g[m] = f[m] /\ m \in 0 .. n  BY <3>1
      <4>2. F[m] = D(f, m)
        <5> HIDE DEF D
        <5> QED  BY <4>1
      <4>3. f[m] = F[m]
        <5> HIDE DEF D
        <5> QED  BY <2>1, Zenon
      <4> QED  BY <4>1, <4>2, <4>3, Zenon
    <3>2. CASE ~(m <= n)
      <4> HIDE DEF D
      <4> QED  BY <3>2
    <3> QED  BY <3>1, <3>2
  <2>4. g = h
    <3> HIDE DEF D, F
    <3>1. g = [m \in 0 .. n + 1 |-> g[m]]  OBVIOUS
    <3>2. \A m \in 0 .. n + 1 : g[m] = h[m]  BY <2>2, <2>3, Zenon
    <3>3. DOMAIN g = DOMAIN h  OBVIOUS
    <3> QED  BY <3>2, <3>3
  <2>5. Upto(g, n + 1)  BY <2>4, Zenon
  <2>6. n + 1 \in Nat  OBVIOUS
  <2> QED  BY <2>5, <2>6, Zenon
<1>3. Nat \subseteq T
  <2> HIDE DEF T
  <2> QED  BY <1>1, <1>2, SetInduction
<1>4. k \in T
  <2> HIDE DEF T
  <2> QED  BY <1>3
<1> QED  BY <1>4, Zenon DEF Spells

\* A numeral with one digit more is a numeral.
LEMMA NumeralGrows ==
  ASSUME NEW v \in Seq(Nat), Numeral(v), NEW d \in 0 .. Base - 1
  PROVE  Numeral(Append(v, d))
<1>0. PICK S : S = 0 .. Base - 1  OBVIOUS
<1>1. d \in Nat /\ d \in S /\ \A i \in 1 .. Len(v) : v[i] \in S  BY <1>0, FramingAssumption DEF Numeral
<1>2. Append(v, d) # <<>> /\ Len(Append(v, d)) = Len(v) + 1  BY <1>1
<1>3. ASSUME NEW i \in 1 .. Len(v) + 1 PROVE Append(v, d)[i] \in S  BY <1>1
<1> QED  BY <1>0, <1>2, <1>3 DEF Numeral

\* HeaderValue::from: the digits of a number are a numeral that denotes it.
LEMMA DigitsDenote ==
  ASSUME NEW n \in Nat
  PROVE  Digits(n) \in Seq(Nat) /\ Numeral(Digits(n)) /\ Denotes(Digits(n)) = n
<1> DEFINE f == CHOOSE g : g = [m \in 0 .. n |-> IF m < Base THEN <<m>> ELSE Append(g[m \div Base], m % Base)]
           Good(v, m) == v \in Seq(Nat) /\ Numeral(v) /\ Denotes(v) = m
           T == {k \in Nat : \A m \in 0 .. n : m <= k => Good(f[m], m)}
<1>0. Base \in Nat /\ Base > 1  BY FramingAssumption
<1>1. f = [m \in 0 .. n |-> IF m < Base THEN <<m>> ELSE Append(f[m \div Base], m % Base)]
  BY SpellsExists, Zenon DEF Spells
<1>2. Digits(n) = f[n]  BY Zenon DEF Digits
<1> HIDE DEF f
<1>3. ASSUME NEW m \in 0 .. n
      PROVE  f[m] = IF m < Base THEN <<m>> ELSE Append(f[m \div Base], m % Base)
  <2> DEFINE F == [k \in 0 .. n |-> IF k < Base THEN <<k>> ELSE Append(f[k \div Base], k % Base)]
  <2>1. F[m] = IF m < Base THEN <<m>> ELSE Append(f[m \div Base], m % Base)  OBVIOUS
  <2>2. f = F  BY <1>1, Zenon
  <2> HIDE DEF F
  <2> QED  BY <2>1, <2>2, Zenon
<1>4. ASSUME NEW m \in 0 .. n, m < Base PROVE Good(f[m], m)
  <2>0. f[m] = <<m>>  BY <1>3, <1>4, Zenon
  <2>1. f[m] = <<m>> /\ m \in Nat /\ m \in 0 .. Base - 1  BY <1>0, <1>4, <2>0
  <2>2. <<m>> = Append(<<>>, m) /\ <<>> \in Seq(Nat)  OBVIOUS
  <2>3. Denotes(<<m>>) = 0 * Base + m  BY <2>1, <2>2, DenotesRules
  <2>4. 0 * Base + m = m  BY <1>0, <2>1
  <2>5. Numeral(<<m>>)  BY <2>1 DEF Numeral
  <2> QED  BY <2>1, <2>3, <2>4, <2>5
<1>5. 0 \in T
  <2> SUFFICES ASSUME NEW m \in 0 .. n, m <= 0 PROVE Good(f[m], m)  OBVIOUS
  <2>1. m < Base  BY <1>0
  <2> QED  BY <1>4, <2>1
<1>6. ASSUME NEW k \in Nat, k \in T PROVE k + 1 \in T
  <2> SUFFICES ASSUME NEW m \in 0 .. n, m <= k + 1 PROVE Good(f[m], m)  OBVIOUS
  <2>1. CASE m < Base  BY <1>4, <2>1
  <2>2. CASE ~(m < Base)
    <3> DEFINE q == m \div Base
               r == m % Base
    <3>1. m \in Nat /\ m > 0  BY <1>0, <2>2
    <3>2. q \in Nat /\ r \in 0 .. Base - 1 /\ m = q * Base + r /\ q < m  BY <3>1, Division
    <3>3. f[m] = Append(f[q], r)  BY <1>3, <2>2
    <3> HIDE DEF q, r
    <3>4. q \in 0 .. n /\ q <= k /\ r \in Nat  BY <1>0, <3>2
    <3>5. Good(f[q], q)  BY <1>6, <3>4
    <3>6. Append(f[q], r) \in Seq(Nat)  BY <3>4, <3>5
    <3>7. Denotes(Append(f[q], r)) = q * Base + r  BY <3>4, <3>5, DenotesRules
    <3>8. Numeral(Append(f[q], r))
      <4>1. f[q] \in Seq(Nat) /\ Numeral(f[q])  BY <3>5
      <4> QED  BY <3>2, <4>1, NumeralGrows
    <3> QED  BY <3>2, <3>3, <3>6, <3>7, <3>8
  <2> QED  BY <2>1, <2>2
<1>7. Nat \subseteq T
  <2> HIDE DEF T
  <2> QED  BY <1>5, <1>6, SetInduction
<1>8. n \in T /\ n \in 0 .. n /\ n <= n
  <2> HIDE DEF T
  <2> QED  BY <1>7
<1> QED  BY <1>2, <1>8

-----------------------------------------------------------------------------
(* Transfer codings and connection options.                                *)

\* The loops of Codings and ParseKeepAlive, and their bodies.
Values0 == Atoms \cup Seq(Nat)
Joined(ls) == Loop(LAMBDA s, l : s \o l.vals, <<>>, ls)
Joins == [p \in Seq(Values0) \X HeaderLine |-> p[1] \o p[2].vals]
Keeping(b, ls) ==
  Loop(LAMBDA ka, l : IF ka THEN "close" \notin Range(l.vals) ELSE "keep-alive" \in Range(l.vals), b, ls)
Keeps == [p \in BOOLEAN \X HeaderLine |->
            IF p[1] THEN "close" \notin Range(p[2].vals) ELSE "keep-alive" \in Range(p[2].vals)]

\* The body of the loop of Codings.
LEMMA JoinsFacts ==
  Joins \in [Seq(Values0) \X HeaderLine -> Seq(Values0)]
  /\ \A a \in Seq(Values0), x \in HeaderLine : Joins[<<a, x>>] = a \o x.vals
<1>1. \A x \in HeaderLine : x.vals \in Seq(Values0)  BY LineFacts DEF Values0
<1> DEFINE R(a, x) == a \o x.vals
<1>2. ASSUME NEW a \in Seq(Values0), NEW x \in HeaderLine PROVE R(a, x) \in Seq(Values0)
  <2>1. x.vals \in Seq(Values0)  BY <1>1
  <2> QED  BY <2>1
<1>3. Joins = [p \in Seq(Values0) \X HeaderLine |-> R(p[1], p[2])]  BY Zenon DEF Joins
<1> HIDE DEF R
<1>4. Joins \in [Seq(Values0) \X HeaderLine -> Seq(Values0)]
      /\ \A a \in Seq(Values0), x \in HeaderLine : Joins[<<a, x>>] = R(a, x)
  BY <1>2, <1>3
<1> QED  BY <1>4, Zenon DEF R

\* The body of the loop of ParseKeepAlive.
LEMMA KeepsFacts ==
  Keeps \in [BOOLEAN \X HeaderLine -> BOOLEAN]
  /\ \A a \in BOOLEAN, x \in HeaderLine :
       Keeps[<<a, x>>] = IF a THEN "close" \notin Range(x.vals) ELSE "keep-alive" \in Range(x.vals)
<1> DEFINE R(a, x) == IF a THEN "close" \notin Range(x.vals) ELSE "keep-alive" \in Range(x.vals)
<1>1. ASSUME NEW a \in BOOLEAN, NEW x \in HeaderLine PROVE R(a, x) \in BOOLEAN
  <2>1. CASE a  BY <2>1, Zenon
  <2>2. CASE ~a
    <3>1. R(a, x) = TRUE \/ R(a, x) = FALSE  BY <2>2
    <3> HIDE DEF R
    <3> QED  BY <3>1
  <2> QED  BY <2>1, <2>2
<1>2. Keeps = [p \in BOOLEAN \X HeaderLine |-> R(p[1], p[2])]  BY Zenon DEF Keeps
<1> HIDE DEF R
<1>3. Keeps \in [BOOLEAN \X HeaderLine -> BOOLEAN]
      /\ \A a \in BOOLEAN, x \in HeaderLine : Keeps[<<a, x>>] = R(a, x)
  BY <1>1, <1>2
<1> QED  BY <1>3, Zenon DEF R

\* Codings is a loop.
LEMMA JoinedResult ==
  ASSUME NEW s \in Seq(HeaderLine)
  PROVE  Result(Seq(Values0), Joins, <<>>, s, Joined(s))
<1> DEFINE F(g) == [i \in 0 .. Len(s) |-> IF i = 0 THEN <<>> ELSE g[i - 1] \o s[i].vals]
           c == CHOOSE g : g = F(g)
           A == Seq(Values0)
           G == Joins
<1>0. G \in [A \X HeaderLine -> A]
      /\ \A a \in A, x \in HeaderLine : G[<<a, x>>] = a \o x.vals
  BY JoinsFacts
<1>1. PICK f \in [0 .. Len(s) -> A] :
        f[0] = <<>> /\ \A i \in 1 .. Len(s) : f[i] = G[<<f[i - 1], s[i]>>]
  <2>1. <<>> \in A /\ G \in [A \X HeaderLine -> A]  BY <1>0
  <2>2. Runnable(A, G, <<>>, s)
    <3> HIDE DEF A, G
    <3> QED  BY <2>1, RunsExists
  <2> QED  BY <2>2, Zenon DEF Runnable
<1>2. f = F(f)
  <2>1. ASSUME NEW i \in 0 .. Len(s) PROVE f[i] = F(f)[i]
    <3>1. CASE i = 0  BY <1>1, <3>1
    <3>2. CASE i # 0
      <4>0. i \in 1 .. Len(s) /\ i - 1 \in 0 .. Len(s) /\ s[i] \in HeaderLine  BY <3>2
      <4>1. f[i - 1] \in A
        <5> HIDE DEF A, G
        <5> QED  BY <1>1, <4>0
      <4> HIDE DEF A, G
      <4> QED  BY <1>0, <1>1, <3>2, <4>0, <4>1
    <3> QED  BY <3>1, <3>2
  <2> QED  BY <1>1, <2>1
<1>3. c = F(c)  BY <1>2, Zenon
<1> DEFINE H == F(c)
<1>4. c[0] = <<>>
  <2> HIDE DEF c
  <2>1. H[0] = <<>>  OBVIOUS
  <2> HIDE DEF F
  <2> QED  BY <1>3, <2>1, Zenon
<1>5. ASSUME NEW i \in 1 .. Len(s), c[i - 1] \in A PROVE c[i] = G[<<c[i - 1], s[i]>>]
  <2> HIDE DEF c, G, A
  <2>1. c[i] = c[i - 1] \o s[i].vals
    <3>1. H[i] = c[i - 1] \o s[i].vals  OBVIOUS
    <3> HIDE DEF F
    <3> QED  BY <1>3, <3>1, Zenon
  <2>2. s[i] \in HeaderLine  OBVIOUS
  <2> QED  BY <1>0, <1>5, <2>1, <2>2
<1>6. Joined(s) = c[Len(s)]  BY Zenon DEF Joined, Loop
<1> HIDE DEF c
<1> QED  BY <1>4, <1>5, <1>6, Zenon DEF Result, Runs

\* So is ParseKeepAlive.
LEMMA KeepingResult ==
  ASSUME NEW b \in BOOLEAN, NEW s \in Seq(HeaderLine)
  PROVE  Result(BOOLEAN, Keeps, b, s, Keeping(b, s))
<1> DEFINE F(g) == [i \in 0 .. Len(s) |-> IF i = 0 THEN b ELSE IF g[i - 1] THEN "close" \notin Range(s[i].vals) ELSE "keep-alive" \in Range(s[i].vals)]
           c == CHOOSE g : g = F(g)
           A == BOOLEAN
           G == Keeps
<1>0. G \in [A \X HeaderLine -> A]
      /\ \A a \in A, x \in HeaderLine : G[<<a, x>>] = IF a THEN "close" \notin Range(x.vals) ELSE "keep-alive" \in Range(x.vals)
  BY KeepsFacts
<1>1. PICK f \in [0 .. Len(s) -> A] :
        f[0] = b /\ \A i \in 1 .. Len(s) : f[i] = G[<<f[i - 1], s[i]>>]
  <2>1. b \in A /\ G \in [A \X HeaderLine -> A]  BY <1>0
  <2>2. Runnable(A, G, b, s)
    <3> HIDE DEF A, G
    <3> QED  BY <2>1, RunsExists
  <2> QED  BY <2>2, Zenon DEF Runnable
<1>2. f = F(f)
  <2>1. ASSUME NEW i \in 0 .. Len(s) PROVE f[i] = F(f)[i]
    <3>1. CASE i = 0  BY <1>1, <3>1
    <3>2. CASE i # 0
      <4>0. i \in 1 .. Len(s) /\ i - 1 \in 0 .. Len(s) /\ s[i] \in HeaderLine  BY <3>2
      <4>1. f[i - 1] \in A
        <5> HIDE DEF A, G
        <5> QED  BY <1>1, <4>0
      <4> HIDE DEF A, G
      <4> QED  BY <1>0, <1>1, <3>2, <4>0, <4>1
    <3> QED  BY <3>1, <3>2
  <2> QED  BY <1>1, <2>1
<1>3. c = F(c)  BY <1>2, Zenon
<1> DEFINE H == F(c)
<1>4. c[0] = b
  <2> HIDE DEF c
  <2>1. H[0] = b  OBVIOUS
  <2> HIDE DEF F
  <2> QED  BY <1>3, <2>1, Zenon
<1>5. ASSUME NEW i \in 1 .. Len(s), c[i - 1] \in A PROVE c[i] = G[<<c[i - 1], s[i]>>]
  <2> HIDE DEF c, G, A
  <2>1. c[i] = IF c[i - 1] THEN "close" \notin Range(s[i].vals) ELSE "keep-alive" \in Range(s[i].vals)
    <3>1. H[i] = IF c[i - 1] THEN "close" \notin Range(s[i].vals) ELSE "keep-alive" \in Range(s[i].vals)  OBVIOUS
    <3> HIDE DEF F
    <3> QED  BY <1>3, <3>1, Zenon
  <2>2. s[i] \in HeaderLine  OBVIOUS
  <2> QED  BY <1>0, <1>5, <2>1, <2>2
<1>6. Keeping(b, s) = c[Len(s)]  BY Zenon DEF Keeping, Loop
<1> HIDE DEF c
<1> QED  BY <1>4, <1>5, <1>6, Zenon DEF Result, Runs

\* The codings of a head, and which of them is the last: the one is_chunked
\* looks at.
LEMMA CodingsIs ==
  ASSUME NEW hs \in Seq(HeaderLine)
  PROVE  /\ Codings(hs) # <<>> <=> Has(hs, "transfer-encoding")
         /\ Has(hs, "transfer-encoding") =>
              Last(Codings(hs)) = Last(Last(Lines(hs, "transfer-encoding")).vals)
<1> DEFINE L == Lines(hs, "transfer-encoding")
           A == Seq(Values0)
<1>1. L \in Seq(HeaderLine)  BY LinesRules
<1>2. Codings(hs) = Joined(L)  BY Zenon DEF Codings, Joined
<1>3. Has(hs, "transfer-encoding") <=> L # <<>>  BY DEF Has
<1> HIDE DEF L
<1>4. LoopRules(A, HeaderLine, Joins, <<>>)
  <2>1. <<>> \in A /\ Joins \in [A \X HeaderLine -> A]  BY JoinsFacts
  <2> HIDE DEF A
  <2> QED  BY <2>1, ResultRules
<1>5. \A s \in Seq(HeaderLine) : Result(A, Joins, <<>>, s, Joined(s))  BY JoinedResult
<1> HIDE DEF A
<1>6. CASE L = <<>>
  <2>1. <<>> \in Seq(HeaderLine)  OBVIOUS
  <2>2. Joined(<<>>) = <<>>  BY <1>4, <1>5, <2>1, Zenon DEF LoopRules
  <2> QED  BY <1>2, <1>3, <1>6, <2>2
<1>7. CASE L # <<>>
  <2> DEFINE f == SubSeq(L, 1, Len(L) - 1)
             l == L[Len(L)]
  <2>1. f \in Seq(HeaderLine) /\ l \in HeaderLine /\ L = Append(f, l)  BY <1>1, <1>7
  <2>2. Last(L) = l  BY DEF Last
  <2> HIDE DEF f, l
  <2>3. Joined(f) \in A /\ Joined(L) = Joins[<<Joined(f), l>>]
    BY <1>1, <1>4, <1>5, <2>1, Zenon DEF LoopRules
  <2>4. Joined(L) = Joined(f) \o l.vals /\ Joined(f) \in Seq(Values0)  BY <2>1, <2>3, JoinsFacts DEF A
  <2>5. l.vals \in Seq(Values0) /\ l.vals # <<>>  BY <2>1, LineFacts DEF Values0
  <2>6. Joined(L) # <<>> /\ Last(Joined(L)) = Last(l.vals)
    <3> DEFINE u == Joined(f)
               w == l.vals
    <3>1. u \in Seq(Values0) /\ w \in Seq(Values0) /\ w # <<>> /\ Joined(L) = u \o w  BY <2>4, <2>5
    <3> HIDE DEF u, w
    <3>2. u \o w # <<>> /\ (u \o w)[Len(u \o w)] = w[Len(w)]  BY <3>1
    <3> QED  BY <3>1, <3>2 DEF Last, w
  <2>7. Last(Last(L).vals) = Last(Joined(L))  BY <2>2, <2>6, Zenon
  <2> QED  BY <1>2, <1>3, <1>7, <2>6, <2>7, Zenon DEF L
<1> QED  BY <1>6, <1>7

\* keep_alive of Client::parse is a Boolean.
LEMMA KeepAliveBoolean ==
  ASSUME NEW r \in Responses
  PROVE  ParseKeepAlive(r) \in BOOLEAN
<1> DEFINE L == Lines(r.lines, "connection")
           b == (r.version = 11)
<1>1. r.lines \in Seq(HeaderLine)  BY HeadsAssumption DEF Responses
<1>2. L \in Seq(HeaderLine)  BY <1>1, LinesRules
<1>3. ParseKeepAlive(r) = Keeping(b, L)  BY Zenon DEF ParseKeepAlive, Keeping
<1>4. b \in BOOLEAN  OBVIOUS
<1> HIDE DEF L, b
<1>5. LoopRules(BOOLEAN, HeaderLine, Keeps, b)  BY <1>4, KeepsFacts, ResultRules
<1>6. Result(BOOLEAN, Keeps, b, L, Keeping(b, L))  BY <1>2, <1>4, KeepingResult
<1> QED  BY <1>2, <1>3, <1>5, <1>6, Zenon DEF LoopRules

\* Client::parse: where keep-alive is left behind the Connection lines the
\* server keeps the connection, or a close of its was overruled.  By
\* induction on the lines; in HTTP/1.1 keep-alive is off only behind a close.
LEMMA KeepAliveAgrees ==
  ASSUME NEW r, r.lines \in Seq(HeaderLine), ParseKeepAlive(r) = TRUE, r.version \in {10, 11}
  PROVE  ServerKeeps(r) \/ Overruled(r)
<1> DEFINE L == Lines(r.lines, "connection")
           V(ls) == UNION {Range(l.vals) : l \in Range(ls)}
           b == (r.version = 11)
           Undone(ls) == \E i, j \in 1 .. Len(ls) :
                         /\ "close" \in Range(ls[i].vals) /\ "keep-alive" \in Range(ls[j].vals)
                         /\ i < j \/ (~b /\ i = j)
           Good(ls) == /\ Keeping(b, ls) \in BOOLEAN
                       /\ Keeping(b, ls) /\ "close" \notin V(ls) => b \/ "keep-alive" \in V(ls)
                       /\ Keeping(b, ls) /\ "close" \in V(ls) => Undone(ls)
                       /\ ~Keeping(b, ls) /\ b => "close" \in V(ls)
           P == {ls \in Seq(HeaderLine) : Good(ls)}
<1>1. L \in Seq(HeaderLine) /\ V(L) = Values(r.lines, "connection")  BY LinesRules DEF Values
<1>2. ParseKeepAlive(r) = Keeping(b, L)  BY Zenon DEF ParseKeepAlive, Keeping
<1>3. b \in BOOLEAN /\ (b <=> r.version = 11) /\ (~b <=> r.version = 10)  OBVIOUS
<1>10. Undone(L) => Overruled(r)  BY <1>3 DEF Overruled
<1> HIDE DEF L, b
<1>4. LoopRules(BOOLEAN, HeaderLine, Keeps, b)  BY <1>3, KeepsFacts, ResultRules
<1>5. \A s \in Seq(HeaderLine) : Result(BOOLEAN, Keeps, b, s, Keeping(b, s))  BY <1>3, KeepingResult
<1>6. <<>> \in P
  <2>1. <<>> \in Seq(HeaderLine)  OBVIOUS
  <2>2. Keeping(b, <<>>) = b  BY <1>4, <1>5, <2>1, Zenon DEF LoopRules
  <2>3. V(<<>>) = {}  BY RangeRules
  <2> HIDE DEF V, Undone
  <2> QED  BY <1>3, <2>1, <2>2, <2>3
<1>7. ASSUME NEW s \in Seq(HeaderLine), NEW x \in HeaderLine, s \in P PROVE Append(s, x) \in P
  <2> DEFINE t == Append(s, x)
             k == Keeping(b, s)
             n == Len(s) + 1
  <2>1. t \in Seq(HeaderLine)  OBVIOUS
  <2>2. k \in BOOLEAN /\ Keeping(b, t) = Keeps[<<k, x>>]
    BY <1>4, <1>5, <2>1, Zenon DEF LoopRules
  <2>3. Keeping(b, t) = IF k THEN "close" \notin Range(x.vals) ELSE "keep-alive" \in Range(x.vals)
    BY <2>2, KeepsFacts
  <2>4. Range(t) = Range(s) \cup {x}  BY RangeRules
  <2>5. V(t) = V(s) \cup Range(x.vals)  BY <2>4
  <2>6. Good(s)  BY <1>7
  <2>7. Keeping(b, t) \in BOOLEAN  BY <1>4, <1>5, <2>1, Zenon DEF LoopRules
  <2>8. Len(s) \in Nat /\ Len(t) = n /\ t[n] = x /\ \A i \in 1 .. Len(s) : t[i] = s[i]  OBVIOUS
  <2>9. "close" \in V(s) => \E i \in 1 .. Len(s) : "close" \in Range(s[i].vals)
    <3>1. Range(s) = {s[i] : i \in 1 .. Len(s)}  BY DEF Range
    <3> QED  BY <3>1
  <2> HIDE DEF V, t, k, n
  <2>10. Undone(s) => Undone(t)
    <3> SUFFICES ASSUME NEW i \in 1 .. Len(s), NEW j \in 1 .. Len(s),
                        "close" \in Range(s[i].vals), "keep-alive" \in Range(s[j].vals),
                        i < j \/ (~b /\ i = j)
                 PROVE  Undone(t)
      OBVIOUS
    <3>1. i \in 1 .. Len(t) /\ j \in 1 .. Len(t) /\ t[i] = s[i] /\ t[j] = s[j]  BY <2>8 DEF n
    <3> QED  BY <3>1
  <2>11. ASSUME ~k, Keeping(b, t), "close" \in V(t) PROVE Undone(t)
    <3>1. "keep-alive" \in Range(x.vals)  BY <2>3, <2>11
    <3>2. CASE "close" \in V(s)
      <4>1. PICK i \in 1 .. Len(s) : "close" \in Range(s[i].vals)  BY <2>9, <3>2
      <4>2. i \in 1 .. Len(t) /\ n \in 1 .. Len(t) /\ i < n /\ t[i] = s[i]  BY <2>8 DEF n
      <4> QED  BY <2>8, <3>1, <4>1, <4>2
    <3>3. CASE "close" \notin V(s)
      <4>1. ~b /\ "close" \in Range(x.vals)  BY <2>5, <2>6, <2>11, <3>3 DEF k
      <4>2. n \in 1 .. Len(t)  BY <2>8 DEF n
      <4> QED  BY <2>8, <3>1, <4>1, <4>2
    <3> QED  BY <3>2, <3>3
  <2> HIDE DEF Undone
  <2>12. Keeping(b, t) /\ "close" \notin V(t) => b \/ "keep-alive" \in V(t)
    BY <2>2, <2>3, <2>5, <2>6 DEF k
  <2>13. Keeping(b, t) /\ "close" \in V(t) => Undone(t)
    BY <2>2, <2>3, <2>5, <2>6, <2>10, <2>11 DEF k
  <2>14. ~Keeping(b, t) /\ b => "close" \in V(t)
    BY <2>2, <2>3, <2>5, <2>6 DEF k
  <2>15. Good(t)  BY <2>7, <2>12, <2>13, <2>14
  <2> QED  BY <2>1, <2>15 DEF t
<1>8. Seq(HeaderLine) \subseteq P
  <2> HIDE DEF P
  <2> QED  BY <1>6, <1>7, SeqSetInduction
<1>9. Good(L)  BY <1>1, <1>8
<1> HIDE DEF V, Undone
<1> QED  BY <1>1, <1>2, <1>3, <1>9, <1>10 DEF ServerKeeps

-----------------------------------------------------------------------------
(* Content-Length.                                                         *)

\* What the Content-Length lines of a head say, and what the code makes of it.
LengthAgrees(hs) ==
  /\ LengthsGiven(hs) \subseteq Nat
  /\ ~Has(hs, "content-length") => ContentLength(hs) = NaN /\ LengthsGiven(hs) = {} /\ LengthValid(hs)
  /\ Has(hs, "content-length") /\ LengthValid(hs) => LengthsGiven(hs) # {}
  /\ ContentLength(hs) # NaN =>
       LengthValid(hs) /\ LengthsGiven(hs) = {ContentLength(hs)} /\ ContentLength(hs) \in 0 .. Word - 1
  /\ Has(hs, "content-length") /\ ContentLength(hs) = NaN =>
       ~LengthValid(hs) \/ \E n \in LengthsGiven(hs) : n >= Word

\* content_length_parse_all: it has a number when all lines denote that number.
LEMMA LengthOf ==
  ASSUME NEW hs \in Seq(HeaderLine)
  PROVE  LengthAgrees(hs)
<1> DEFINE V == Values(hs, "content-length")
           N == {FromDigits(v) : v \in V}
           D == {Denotes(v) : v \in {u \in V : Numeral(u)}}
<1>1. V \subseteq Seq(Nat)
  <2> SUFFICES ASSUME NEW v \in V PROVE v \in Seq(Nat)  OBVIOUS
  <2>1. PICK l \in Range(hs) : l.name = "content-length" /\ v \in Range(l.vals)  BY FieldOf
  <2>2. l \in HeaderLine  BY RangeRules
  <2>3. l.vals \in Seq(Seq(Nat))  BY <2>1, <2>2, LineFacts
  <2> QED  BY <2>1, <2>3, RangeRules
<1>2. Has(hs, "content-length") <=> V # {}  BY FieldOf
<1>3. ContentLength(hs) = IF \E n \in N : N = {n} THEN CHOOSE n \in N : TRUE ELSE NaN
  BY Zenon DEF ContentLength
<1>4. LengthsGiven(hs) = D  BY DEF LengthsGiven
<1>5. LengthValid(hs) <=> (\A v \in V : Numeral(v)) /\ \A m, n \in D : m = n  BY <1>4 DEF LengthValid
<1>6. \A v \in V : /\ FromDigits(v) = IF Numeral(v) /\ Denotes(v) < Word THEN Denotes(v) ELSE NaN
                   /\ Denotes(v) \in Nat
  BY <1>1, FromDigitsIs
<1> HIDE DEF V
<1>7. D \subseteq Nat  BY <1>6
<1>8. ~Has(hs, "content-length") => ContentLength(hs) = NaN /\ LengthsGiven(hs) = {} /\ LengthValid(hs)
  <2> SUFFICES ASSUME V = {} PROVE ContentLength(hs) = NaN /\ LengthsGiven(hs) = {} /\ LengthValid(hs)
    BY <1>2
  <2>1. N = {} /\ D = {}  OBVIOUS
  <2> QED  BY <1>3, <1>4, <1>5, <2>1
<1>9. ASSUME V # {}, LengthValid(hs) PROVE D # {}
  <2>1. PICK v \in V : TRUE  BY <1>9
  <2>2. Denotes(v) \in D  BY <1>5, <1>9
  <2> QED  BY <2>2
<1>10. ASSUME ContentLength(hs) # NaN
       PROVE  LengthValid(hs) /\ D = {ContentLength(hs)} /\ ContentLength(hs) \in 0 .. Word - 1
  <2>1. PICK n \in N : N = {n}  BY <1>3, <1>10
  <2>2. ContentLength(hs) = n  BY <1>3, <2>1
  <2>3. n # NaN  BY <1>10, <2>2
  <2>4. \A v \in V : FromDigits(v) = n  BY <2>1
  <2>5. \A v \in V : Numeral(v) /\ Denotes(v) = n /\ n < Word /\ n \in Nat  BY <1>6, <2>3, <2>4
  <2>6. PICK v \in V : TRUE  BY <2>1
  <2>7. D = {n}  BY <2>5, <2>6
  <2>8. n \in 0 .. Word - 1  BY <2>5, <2>6, FramingAssumption
  <2>9. LengthValid(hs)  BY <1>5, <2>5, <2>7
  <2> QED  BY <2>2, <2>7, <2>8, <2>9
<1>11. ASSUME V # {}, ContentLength(hs) = NaN, LengthValid(hs) PROVE \E n \in D : n >= Word
  <2> SUFFICES ASSUME \A n \in D : ~(n >= Word) PROVE FALSE  OBVIOUS
  <2>1. PICK v \in V : TRUE  BY <1>11
  <2>2. \A u \in V : Numeral(u) /\ Denotes(u) \in D /\ Denotes(u) = Denotes(v)  BY <1>5, <1>11, <2>1
  <2>3. \A u \in V : Denotes(u) < Word  BY <1>6, <2>2, FramingAssumption
  <2>4. \A u \in V : FromDigits(u) = Denotes(v)  BY <1>6, <2>2, <2>3
  <2>5. N = {Denotes(v)}  BY <2>1, <2>4
  <2>6. ContentLength(hs) = Denotes(v)  BY <1>3, <2>5
  <2>7. Denotes(v) # Word  BY <1>6, <2>1, <2>3, FramingAssumption
  <2> QED  BY <1>11, <2>6, <2>7 DEF NaN
<1> HIDE DEF D, N
<1> QED  BY <1>2, <1>4, <1>7, <1>8, <1>9, <1>10, <1>11, Zenon DEF LengthAgrees

\* Only the Content-Length lines count.
LEMMA SameLengths ==
  ASSUME NEW hs, NEW ks, Values(hs, "content-length") = Values(ks, "content-length")
  PROVE  /\ LengthsGiven(hs) = LengthsGiven(ks) /\ LengthValid(hs) = LengthValid(ks)
         /\ ContentLength(hs) = ContentLength(ks)
BY Zenon DEF LengthsGiven, LengthValid, ContentLength

-----------------------------------------------------------------------------
(* Client::set_length.                                                     *)

\* The framing lines and the encoder agree: RequestFramed, of one message.
Right(hs, e) ==
  /\ ServerReads(hs) = e.kind
  /\ e.kind = "length" => LengthsGiven(hs) \subseteq {e.len}
  /\ e.kind = "length" /\ e.len > 0 => LengthsGiven(hs) # {}
  /\ ~(Has(hs, "transfer-encoding") /\ Has(hs, "content-length"))
  /\ e.trailers \subseteq Values(hs, "trailer")

\* A body of a length.
LEMMA LengthRight ==
  ASSUME NEW hs \in Seq(HeaderLine), NEW n, ~Has(hs, "transfer-encoding"), LengthValid(hs),
         LengthsGiven(hs) \subseteq {n}, n > 0 => LengthsGiven(hs) # {}
  PROVE  Right(Framed(hs, EncoderLength(n)).lines, Framed(hs, EncoderLength(n)).enc)
<1>1. Framed(hs, EncoderLength(n)).lines = hs /\ Framed(hs, EncoderLength(n)).enc = EncoderLength(n)
  BY DEF Framed
<1>2. EncoderLength(n).kind = "length" /\ EncoderLength(n).len = n /\ EncoderLength(n).trailers = {}
  BY DEF EncoderLength
<1>3. Codings(hs) = <<>>  BY CodingsIs
<1>4. ServerReads(hs) = "length"  BY <1>3 DEF ServerReads
<1> QED  BY <1>1, <1>2, <1>4 DEF Right

\* A chunked body.
LEMMA ChunkedRight ==
  ASSUME NEW hs \in Seq(HeaderLine), NEW te, IsChunked(hs), ~Has(hs, "content-length"),
         Values(te, "trailer") = Values(hs, "trailer")
  PROVE  Right(Framed(hs, EncoderChunked(te)).lines, Framed(hs, EncoderChunked(te)).enc)
<1>1. Framed(hs, EncoderChunked(te)).lines = hs /\ Framed(hs, EncoderChunked(te)).enc = EncoderChunked(te)
  BY DEF Framed
<1>2. EncoderChunked(te).kind = "chunked" /\ EncoderChunked(te).trailers = Values(te, "trailer")
  BY DEF EncoderChunked
<1>3. Has(hs, "transfer-encoding") /\ Last(Last(Lines(hs, "transfer-encoding")).vals) = "chunked"
  BY DEF IsChunked, Has
<1>4. Codings(hs) # <<>> /\ Last(Codings(hs)) = "chunked"  BY <1>3, CodingsIs
<1>5. ServerReads(hs) = "chunked"  BY <1>4 DEF ServerReads
<1> QED  BY <1>1, <1>2, <1>5 DEF Right

\* set_content_length.
LEMMA SetContentLengthRight ==
  ASSUME NEW hs \in Seq(HeaderLine), NEW n \in Nat, ~Has(hs, "transfer-encoding")
  PROVE  /\ Right(SetContentLength(hs, n).lines, SetContentLength(hs, n).enc)
         /\ ~Has(SetContentLength(hs, n).lines, "transfer-encoding")
<1> DEFINE l == Line("content-length", <<Digits(n)>>)
           ks == Insert(hs, l)
<1>1. Digits(n) \in Seq(Nat) /\ Numeral(Digits(n)) /\ Denotes(Digits(n)) = n  BY DigitsDenote
<1>2. l \in HeaderLine /\ l.name = "content-length" /\ l.vals = <<Digits(n)>>
  <2>1. <<Digits(n)>> \in Seq(Seq(Nat)) \ {<<>>}  BY <1>1
  <2> QED  BY <2>1 DEF Line, HeaderLine
<1>3. Range(<<Digits(n)>>) = {Digits(n)}  BY DEF Range
<1> HIDE DEF l
<1>4. /\ ks \in Seq(HeaderLine) /\ Values(ks, "content-length") = {Digits(n)}
      /\ ~Has(ks, "transfer-encoding")
  <2>1. /\ ks \in Seq(HeaderLine) /\ Values(ks, l.name) = Range(l.vals)
        /\ \A m : m # l.name => Has(ks, m) = Has(hs, m)
    BY <1>2, FieldInsert
  <2> HIDE DEF ks
  <2>2. Values(ks, "content-length") = {Digits(n)}  BY <1>2, <1>3, <2>1
  <2>3. Has(ks, "transfer-encoding") = Has(hs, "transfer-encoding")  BY <1>2, <2>1
  <2> QED  BY <2>1, <2>2, <2>3
<1> HIDE DEF ks
<1>5. LengthsGiven(ks) = {n}  BY <1>1, <1>4 DEF LengthsGiven
<1>6. LengthValid(ks)  BY <1>1, <1>4, <1>5 DEF LengthValid
<1>7. SetContentLength(hs, n) = Framed(ks, EncoderLength(n))  BY DEF SetContentLength, ks, l
<1>8. Framed(ks, EncoderLength(n)).lines = ks  BY DEF Framed
<1> QED  BY <1>4, <1>5, <1>6, <1>7, <1>8, LengthRight

\* add_chunked: the message is chunked, and its other fields are the same.
LEMMA AddChunkedIs ==
  ASSUME NEW hs \in Seq(HeaderLine), Has(hs, "transfer-encoding")
  PROVE  /\ AddChunked(hs) \in Seq(HeaderLine) /\ IsChunked(AddChunked(hs))
         /\ \A m : m # "transfer-encoding" => /\ Has(AddChunked(hs), m) = Has(hs, m)
                                              /\ Values(AddChunked(hs), m) = Values(hs, m)
<1> DEFINE te == Lines(hs, "transfer-encoding")
           w == Without(hs, "transfer-encoding")
           last == Line("transfer-encoding", Append(Last(te).vals, "chunked"))
           b == w \o Front(te)
<1>1. te \in Seq(HeaderLine) /\ te # <<>>  BY LinesRules DEF Has
<1>2. w \in Seq(HeaderLine)  BY LinesRules
<1>3. Range(te) = {l \in Range(hs) : l.name = "transfer-encoding"}
      /\ Range(w) = {l \in Range(hs) : l.name # "transfer-encoding"}
  BY LinesOf
<1>4. AddChunked(hs) = b \o <<last>>  BY DEF AddChunked
<1>5. Last(te) \in HeaderLine /\ Last(te).name = "transfer-encoding"
  <2> HIDE DEF te
  <2>1. Last(te) \in HeaderLine /\ Last(te) \in Range(te)  BY <1>1 DEF Last, Range
  <2> QED  BY <1>3, <2>1
<1>6. Front(te) \in Seq(HeaderLine) /\ Range(Front(te)) \subseteq Range(te)
  <2> HIDE DEF te
  <2>1. Front(te) = SubSeq(te, 1, Len(te) - 1)  BY DEF Front
  <2>2. Front(te) \in Seq(HeaderLine) /\ DOMAIN Front(te) = 1 .. Len(te) - 1
        /\ \A i \in 1 .. Len(te) - 1 : Front(te)[i] = te[i] /\ i \in DOMAIN te
    BY <1>1, <2>1
  <2> QED  BY <2>2 DEF Range
<1>7. last \in HeaderLine /\ last.name = "transfer-encoding" /\ Last(last.vals) = "chunked"
  <2>1. Last(te).vals \in Seq(Atoms)  BY <1>5, HeadsAssumption DEF HeaderLine
  <2> DEFINE v == Append(Last(te).vals, "chunked")
  <2>2. v \in Seq(Atoms) \ {<<>>} /\ Last(v) = "chunked"  BY <2>1, HeadsAssumption DEF Last
  <2>3. last = [name |-> "transfer-encoding", vals |-> v] /\ last.name = "transfer-encoding" /\ last.vals = v
    BY DEF Line
  <2> HIDE DEF v, last
  <2> QED  BY <2>2, <2>3, HeadsAssumption DEF HeaderLine
<1> HIDE DEF last, te, w
<1>8. b \in Seq(HeaderLine) /\ Range(b) = Range(w) \cup Range(Front(te))  BY <1>2, <1>6, RangeRules
<1>9. b \o <<last>> = Append(b, last)
  <2> HIDE DEF b
  <2> QED  BY <1>7, <1>8
<1> HIDE DEF b
<1>10. /\ Append(b, last) \in Seq(HeaderLine)
       /\ Lines(Append(b, last), "transfer-encoding") = Append(Lines(b, "transfer-encoding"), last)
       /\ \A m : m # "transfer-encoding" => /\ Has(Append(b, last), m) = Has(b, m)
                                            /\ Values(Append(b, last), m) = Values(b, m)
  BY <1>7, <1>8, FieldAppend
<1>11. IsChunked(Append(b, last))
  <2>1. Lines(b, "transfer-encoding") \in Seq(HeaderLine)  BY <1>8, LinesRules
  <2>2. Append(Lines(b, "transfer-encoding"), last) # <<>>
        /\ Last(Append(Lines(b, "transfer-encoding"), last)) = last
    BY <1>7, <2>1 DEF Last
  <2> QED  BY <1>7, <1>10, <2>2 DEF IsChunked
<1>12. ASSUME NEW m, m # "transfer-encoding" PROVE Has(b, m) = Has(hs, m) /\ Values(b, m) = Values(hs, m)
  <2>1. {l \in Range(b) : l.name = m} = {l \in Range(hs) : l.name = m}
    BY <1>3, <1>6, <1>8, <1>12
  <2>2. Values(b, m) = Values(hs, m)
    <3>1. Values(b, m) = UNION {Range(l.vals) : l \in {k \in Range(b) : k.name = m}}  BY <1>8, FieldOf
    <3>2. Values(hs, m) = UNION {Range(l.vals) : l \in {k \in Range(hs) : k.name = m}}  BY FieldOf
    <3> QED  BY <2>1, <3>1, <3>2
  <2>3. (Has(b, m) <=> Values(b, m) # {}) /\ (Has(hs, m) <=> Values(hs, m) # {})  BY <1>8, FieldOf
  <2>4. Has(b, m) \in BOOLEAN /\ Has(hs, m) \in BOOLEAN  BY DEF Has
  <2> QED  BY <2>2, <2>3, <2>4
<1> QED  BY <1>4, <1>9, <1>10, <1>11, <1>12

\* The header lines hs say what the user said about the body of req.
Says(req, hs) ==
  /\ hs \in Seq(HeaderLine) /\ LengthValid(hs) /\ \A n \in LengthsGiven(hs) : n < Word
  /\ req.body.kind = "none" => LengthsGiven(hs) \subseteq {0}

\* set_length: the server takes for the body what the encoder writes, and a
\* peer of another version than 1.1 is not sent chunks.
LEMMA SetLengthRight ==
  ASSUME NEW req, NEW v, NEW hs, Says(req, hs), req.body.kind = "known" => req.body.len \in Nat
  PROVE  Right(SetLength(req, v, hs).lines, SetLength(req, v, hs).enc)
<1> DEFINE len == ContentLength(hs)
           bare == Without(hs, "transfer-encoding")
           f == SetLength(req, v, hs)
<1>0. hs \in Seq(HeaderLine) /\ LengthValid(hs) /\ \A n \in LengthsGiven(hs) : n < Word  BY DEF Says
<1>1. /\ LengthsGiven(hs) \subseteq Nat
      /\ ~Has(hs, "content-length") => LengthsGiven(hs) = {}
      /\ len # NaN => LengthsGiven(hs) = {len} /\ len \in 0 .. Word - 1
      /\ Has(hs, "content-length") => len # NaN
  <2>1. LengthAgrees(hs)  BY <1>0, LengthOf
  <2>2. LengthsGiven(hs) \subseteq Nat  BY <2>1 DEF LengthAgrees
  <2>3. ~(\E n \in LengthsGiven(hs) : n >= Word)  BY <1>0, <2>2, FramingAssumption
  <2> QED  BY <1>0, <2>1, <2>3 DEF LengthAgrees
<1>2. bare \in Seq(HeaderLine) /\ ~Has(bare, "transfer-encoding")
      /\ Values(bare, "content-length") = Values(hs, "content-length")
  BY <1>0, FieldWithout
<1> HIDE DEF bare
<1>3. LengthsGiven(bare) = LengthsGiven(hs) /\ LengthValid(bare)  BY <1>0, <1>2, SameLengths
<1>4. CASE req.body.kind = "none"
  <2>1. f = Framed(bare, EncoderLength(0))  BY <1>4 DEF SetLength, bare
  <2>2. LengthsGiven(bare) \subseteq {0}  BY <1>3, <1>4 DEF Says
  <2> HIDE DEF f
  <2> QED  BY <1>2, <1>3, <2>1, <2>2, LengthRight DEF f
<1>5. CASE req.body.kind # "none" /\ v # 11
  <2>1. f = NotChunkable(req, bare, len)  BY <1>5, Zenon DEF SetLength, bare
  <2>2. CASE len # NaN
    <3>1. f = Framed(bare, EncoderLength(len))  BY <2>1, <2>2, Zenon DEF NotChunkable
    <3>2. LengthsGiven(bare) = {len}  BY <1>1, <1>3, <2>2
    <3> HIDE DEF f, len
    <3> QED  BY <1>2, <1>3, <3>1, <3>2, LengthRight DEF f
  <2>3. CASE len = NaN /\ req.body.kind = "known"
    <3>1. f = SetContentLength(bare, req.body.len)  BY <2>1, <2>3, Zenon DEF NotChunkable
    <3> HIDE DEF f
    <3> QED  BY <1>2, <2>3, <3>1, SetContentLengthRight DEF f
  <2>4. CASE len = NaN /\ req.body.kind # "known"
    <3>1. f = Framed(bare, EncoderLength(0))  BY <2>1, <2>4, Zenon DEF NotChunkable
    <3>2. LengthsGiven(bare) = {}  BY <1>1, <1>3, <2>4
    <3> HIDE DEF f
    <3> QED  BY <1>2, <1>3, <3>1, <3>2, LengthRight DEF f
  <2> QED  BY <2>2, <2>3, <2>4
<1>6. CASE req.body.kind # "none" /\ v = 11 /\ Has(hs, "transfer-encoding")
  <2> DEFINE te == IF IsChunked(hs) THEN hs ELSE AddChunked(hs)
             ks == IF len # NaN THEN Without(te, "content-length") ELSE te
  <2>1. f = Framed(ks, EncoderChunked(te))  BY <1>6, Zenon DEF SetLength, Occupied
  <2>2. /\ te \in Seq(HeaderLine) /\ IsChunked(te)
        /\ Has(te, "content-length") = Has(hs, "content-length")
    BY <1>0, <1>6, AddChunkedIs
  <2> HIDE DEF te
  <2>3. /\ Without(te, "content-length") \in Seq(HeaderLine) /\ ~Has(Without(te, "content-length"), "content-length")
        /\ Values(Without(te, "content-length"), "trailer") = Values(te, "trailer")
        /\ Lines(Without(te, "content-length"), "transfer-encoding") = Lines(te, "transfer-encoding")
    BY <2>2, FieldWithout
  <2>4. IsChunked(Without(te, "content-length"))  BY <2>2, <2>3 DEF IsChunked
  <2>5. ks \in Seq(HeaderLine) /\ IsChunked(ks) /\ ~Has(ks, "content-length")
        /\ Values(te, "trailer") = Values(ks, "trailer")
    <3>1. CASE len # NaN  BY <2>3, <2>4, <3>1
    <3>2. CASE len = NaN  BY <1>1, <2>2, <3>2
    <3> QED  BY <3>1, <3>2
  <2> HIDE DEF ks, f
  <2> QED  BY <2>1, <2>5, ChunkedRight DEF f
<1>7. CASE req.body.kind # "none" /\ v = 11 /\ ~Has(hs, "transfer-encoding")
  <2>1. f = Vacant(req, hs, len)  BY <1>7, Zenon DEF SetLength
  <2>2. CASE len # NaN
    <3>1. f = Framed(hs, EncoderLength(len))  BY <2>1, <2>2, Zenon DEF Vacant
    <3>2. LengthsGiven(hs) = {len}  BY <1>1, <2>2
    <3> HIDE DEF f, len
    <3> QED  BY <1>0, <1>7, <3>1, <3>2, LengthRight DEF f
  <2>3. CASE len = NaN /\ req.body.kind = "known"
    <3>1. f = SetContentLength(hs, req.body.len)  BY <2>1, <2>3, Zenon DEF Vacant
    <3> HIDE DEF f
    <3> QED  BY <1>0, <1>7, <2>3, <3>1, SetContentLengthRight DEF f
  <2>4. CASE len = NaN /\ req.body.kind # "known" /\ req.method \in {"GET", "HEAD", "CONNECT"}
    <3>1. f = Framed(hs, EncoderLength(0))  BY <2>1, <2>4, Zenon DEF Vacant
    <3>2. LengthsGiven(hs) = {}  BY <1>1, <2>4
    <3> HIDE DEF f
    <3> QED  BY <1>0, <1>7, <3>1, <3>2, LengthRight DEF f
  <2>5. CASE len = NaN /\ req.body.kind # "known" /\ req.method \notin {"GET", "HEAD", "CONNECT"}
    <3> DEFINE l == Line("transfer-encoding", <<"chunked">>)
               te == Append(hs, l)
    <3>1. f = Framed(te, EncoderChunked(te))  BY <2>1, <2>5, Zenon DEF Vacant
    <3>2. l \in HeaderLine /\ l.name = "transfer-encoding" /\ l.vals = <<"chunked">>
      <4>1. <<"chunked">> \in Seq(Atoms) \ {<<>>}  BY HeadsAssumption
      <4> QED  BY <4>1, HeadsAssumption DEF Line, HeaderLine
    <3>3. Last(<<"chunked">>) = "chunked"  BY DEF Last
    <3> HIDE DEF l
    <3>4. /\ te \in Seq(HeaderLine)
          /\ Lines(te, l.name) = Append(Lines(hs, l.name), l)
          /\ \A m : m # l.name => Has(te, m) = Has(hs, m)
      BY <1>0, <3>2, FieldAppend
    <3> HIDE DEF te
    <3>5. Has(te, "content-length") = Has(hs, "content-length")  BY <3>2, <3>4
    <3>6. Lines(te, "transfer-encoding") = Append(Lines(hs, "transfer-encoding"), l)  BY <3>2, <3>4
    <3>7. Lines(hs, "transfer-encoding") \in Seq(HeaderLine)  BY <1>0, LinesRules
    <3>8. Lines(te, "transfer-encoding") # <<>> /\ Last(Lines(te, "transfer-encoding")) = l
      BY <3>2, <3>6, <3>7 DEF Last
    <3>9. IsChunked(te)  BY <3>2, <3>3, <3>8 DEF IsChunked
    <3>10. ~Has(te, "content-length")  BY <1>1, <2>5, <3>5
    <3> HIDE DEF f
    <3> QED  BY <3>1, <3>4, <3>9, <3>10, ChunkedRight DEF f
  <2> QED  BY <2>2, <2>3, <2>4, <2>5
<1> QED  BY <1>4, <1>5, <1>6, <1>7

\* set_length for a peer that cannot read chunks.
LEMMA SetLengthPlain ==
  ASSUME NEW req, NEW v, v # 11, NEW hs \in Seq(HeaderLine), req.body.kind = "known" => req.body.len \in Nat
  PROVE  /\ SetLength(req, v, hs).enc.kind = "length"
         /\ ~Has(SetLength(req, v, hs).lines, "transfer-encoding")
<1> DEFINE len == ContentLength(hs)
           bare == Without(hs, "transfer-encoding")
           f == SetLength(req, v, hs)
<1>1. bare \in Seq(HeaderLine) /\ ~Has(bare, "transfer-encoding")  BY FieldWithout
<1>2. ASSUME NEW n PROVE Framed(bare, EncoderLength(n)).lines = bare /\ Framed(bare, EncoderLength(n)).enc.kind = "length"
  BY DEF Framed, EncoderLength
<1>3. ASSUME NEW n \in Nat
      PROVE ~Has(SetContentLength(bare, n).lines, "transfer-encoding") /\ SetContentLength(bare, n).enc.kind = "length"
  <2>1. ~Has(SetContentLength(bare, n).lines, "transfer-encoding")
    <3> HIDE DEF bare
    <3> QED  BY <1>1, SetContentLengthRight
  <2>2. SetContentLength(bare, n).enc.kind = "length"  BY DEF SetContentLength, Framed, EncoderLength
  <2> QED  BY <2>1, <2>2
<1>4. \/ \E n : f = Framed(bare, EncoderLength(n))
      \/ req.body.kind = "known" /\ f = SetContentLength(bare, req.body.len)
  <2>1. CASE req.body.kind = "none"  BY <2>1, Zenon DEF SetLength
  <2>2. CASE req.body.kind # "none"
    <3>1. f = NotChunkable(req, bare, len)  BY <2>2, Zenon DEF SetLength
    <3> HIDE DEF f, bare, len
    <3> QED  BY <3>1, Zenon DEF NotChunkable
  <2> QED  BY <2>1, <2>2
<1> HIDE DEF f, bare
<1>5. f.enc.kind = "length" /\ ~Has(f.lines, "transfer-encoding")
  <2>1. CASE \E n : f = Framed(bare, EncoderLength(n))  BY <1>1, <1>2, <2>1
  <2>2. CASE req.body.kind = "known" /\ f = SetContentLength(bare, req.body.len)  BY <1>3, <2>2
  <2> QED  BY <1>4, <2>1, <2>2
<1> QED  BY <1>5 DEF f

-----------------------------------------------------------------------------
(* enforce_version, Client::decoder.                                       *)

\* A Connection line that the code writes.
LEMMA ConnectionLine ==
  ASSUME NEW v \in {"keep-alive", "close"}
  PROVE  Line("connection", <<v>>) \in HeaderLine /\ Line("connection", <<v>>).name = "connection"
<1>1. <<v>> \in Seq(Atoms) \ {<<>>}  BY HeadsAssumption
<1> QED  BY <1>1, HeadsAssumption DEF Line, HeaderLine

\* enforce_version and fix_keep_alive touch the Connection lines only.
LEMMA EnforceVersionKeeps ==
  ASSUME NEW req \in Requests, version \in {10, 11}, keep \in BOOLEAN
  PROVE  /\ EnforceVersion(req).lines \in Seq(HeaderLine)
         /\ Values(EnforceVersion(req).lines, "content-length") = Values(req.lines, "content-length")
         /\ version = 10 => EnforceVersion(req).version = 10
         /\ EnforceVersion(req).keep \in BOOLEAN
<1>1. req.lines \in Seq(HeaderLine)  BY HeadsAssumption DEF Requests
<1>2. ASSUME NEW v \in {"keep-alive", "close"}
      PROVE  /\ Insert(req.lines, Line("connection", <<v>>)) \in Seq(HeaderLine)
             /\ Values(Insert(req.lines, Line("connection", <<v>>)), "content-length")
                  = Values(req.lines, "content-length")
  <2> DEFINE l == Line("connection", <<v>>)
  <2>1. l \in HeaderLine /\ l.name = "connection"  BY ConnectionLine
  <2> HIDE DEF l
  <2>2. /\ Insert(req.lines, l) \in Seq(HeaderLine)
        /\ \A m : m # l.name => Values(Insert(req.lines, l), m) = Values(req.lines, m)
    BY <1>1, <2>1, FieldInsert
  <2> QED  BY <2>1, <2>2 DEF l
<1>3. EnforceVersion(req).lines \in {req.lines} \cup {Insert(req.lines, Line("connection", <<v>>)) : v \in {"keep-alive", "close"}}
  BY DEF EnforceVersion
<1>4. version = 10 => EnforceVersion(req).version = 10  BY DEF EnforceVersion
<1>5. EnforceVersion(req).keep \in BOOLEAN
  <2>1. CASE version = 10
    <3>1. EnforceVersion(req).keep = (keep /\ (SaysKeepAlive(req.lines) \/ req.version # 10))
      BY <2>1 DEF EnforceVersion
    <3> QED  BY <3>1
  <2>2. CASE version # 10
    <3>1. EnforceVersion(req).keep = keep  BY <2>2 DEF EnforceVersion
    <3> QED  BY <3>1
  <2> QED  BY <2>1, <2>2
<1> QED  BY <1>1, <1>2, <1>3, <1>4, <1>5

\* Client::decoder: the response ends where the rules say.
LEMMA DecoderAgrees ==
  ASSUME NEW r \in Responses
  PROVE  /\ Meaning(Decoder(r).len) = ServerSends(method, r)
         /\ r.status = 101 => Decoder(r).upgrade
         /\ Decoder(r).upgrade \in BOOLEAN
<1> DEFINE hs == r.lines
           len == ContentLength(hs)
<1>0. Word \in Nat /\ Word > 4  BY FramingAssumption
<1>1. hs \in Seq(HeaderLine) /\ r.status \in Nat /\ (r.status \in 100 .. 199 => r.status = 101)
  BY HeadsAssumption, ZenonT(60) DEF Responses
<1>2. LengthAgrees(hs)  BY <1>1, LengthOf
<1>3. Codings(hs) # <<>> <=> Has(hs, "transfer-encoding")  BY <1>1, CodingsIs
<1>4. Has(hs, "transfer-encoding") => (IsChunked(hs) <=> Last(Codings(hs)) = "chunked")
  BY <1>1, CodingsIs DEF IsChunked, Has
<1>5. ASSUME NEW n, n = 0 \/ n \in 0 .. Word - 3 PROVE Meaning(n) = [kind |-> "length", len |-> n]
  BY <1>0, <1>5 DEF Meaning, Err, Chunked, CloseDelimited
<1>6. /\ Meaning(Err) = [kind |-> "bad", len |-> 0] /\ Meaning(Chunked) = [kind |-> "chunked", len |-> 0]
      /\ Meaning(CloseDelimited) = [kind |-> "close", len |-> 0]
  BY <1>0 DEF Meaning, Err, Chunked, CloseDelimited
<1> DEFINE NoBody == r.status = 101 \/ r.status \in {204, 304} \/ method = "HEAD"
                     \/ (method = "CONNECT" /\ r.status \in 200 .. 299)
<1>7. CASE NoBody
  <2>1. Decoder(r).len = 0  BY <1>7 DEF Decoder
  <2>2. ServerSends(method, r) = [kind |-> "length", len |-> 0]
    <3>1. method = "HEAD" \/ r.status \in (100 .. 199) \cup {204, 304} \/ (method = "CONNECT" /\ r.status \in 200 .. 299)
      BY <1>7
    <3> QED  BY <3>1, Zenon DEF ServerSends
  <2>3. r.status = 101 => Decoder(r).upgrade  BY DEF Decoder
  <2>4. Decoder(r).upgrade \in BOOLEAN  BY <1>7 DEF Decoder
  <2> QED  BY <1>5, <2>1, <2>2, <2>3, <2>4
<1>8. CASE ~NoBody
  <2> DEFINE d == IF Has(hs, "transfer-encoding")
                  THEN IF r.version = 10 THEN Err
                       ELSE IF IsChunked(hs) THEN Chunked ELSE CloseDelimited
                  ELSE IF len # NaN THEN CheckedNew(len)
                  ELSE IF Has(hs, "content-length") THEN Err
                  ELSE CloseDelimited
             s == IF Codings(hs) # <<>>
                  THEN [kind |-> IF r.version = 10 THEN "bad" ELSE IF Last(Codings(hs)) = "chunked" THEN "chunked" ELSE "close",
                        len |-> 0]
                  ELSE IF LengthsGiven(hs) = {} /\ LengthValid(hs) THEN [kind |-> "close", len |-> 0]
                  ELSE IF ~LengthValid(hs) \/ \E n \in LengthsGiven(hs) : n > MaxLen THEN [kind |-> "bad", len |-> 0]
                  ELSE [kind |-> "length", len |-> CHOOSE n \in LengthsGiven(hs) : TRUE]
  <2>1. Decoder(r) = [upgrade |-> FALSE, len |-> d]  BY <1>8, Zenon DEF Decoder
  <2>2. Decoder(r).len = d /\ Decoder(r).upgrade = FALSE
    <3> HIDE DEF d
    <3> QED  BY <2>1
  <2>3. ServerSends(method, r) = s
    <3>1. ~(method = "HEAD" \/ r.status \in (100 .. 199) \cup {204, 304} \/ (method = "CONNECT" /\ r.status \in 200 .. 299))
      BY <1>1, <1>8
    <3> QED  BY <3>1, Zenon DEF ServerSends
  <2>4. Meaning(d) = s
    <3>1. CASE Has(hs, "transfer-encoding")
      <4>1. d = IF r.version = 10 THEN Err ELSE IF IsChunked(hs) THEN Chunked ELSE CloseDelimited
        BY <3>1, Zenon
      <4>2. s = [kind |-> IF r.version = 10 THEN "bad" ELSE IF Last(Codings(hs)) = "chunked" THEN "chunked" ELSE "close",
                 len |-> 0]
        BY <1>3, <3>1, Zenon
      <4> HIDE DEF d, s, hs
      <4>3. CASE r.version = 10  BY <1>6, <4>1, <4>2, <4>3
      <4>4. CASE r.version # 10 /\ IsChunked(hs)  BY <1>4, <1>6, <3>1, <4>1, <4>2, <4>4
      <4>5. CASE r.version # 10 /\ ~IsChunked(hs)  BY <1>4, <1>6, <3>1, <4>1, <4>2, <4>5
      <4> QED  BY <4>3, <4>4, <4>5
    <3>2. CASE ~Has(hs, "transfer-encoding") /\ len # NaN
      <4>1. d = CheckedNew(len)  BY <3>2, Zenon
      <4>2. LengthValid(hs) /\ LengthsGiven(hs) = {len} /\ len \in 0 .. Word - 1  BY <1>2, <3>2 DEF LengthAgrees
      <4>3. s = IF len > MaxLen THEN [kind |-> "bad", len |-> 0] ELSE [kind |-> "length", len |-> len]
        <5> HIDE DEF len, hs
        <5>1. Codings(hs) = <<>> /\ ~(LengthsGiven(hs) = {}) /\ (CHOOSE n \in {len} : TRUE) = len  BY <1>3, <3>2, <4>2
        <5> QED  BY <4>2, <5>1
      <4> HIDE DEF d, s, len
      <4>4. CASE len > MaxLen
        <5>1. CheckedNew(len) = Err  BY <1>0, <4>2, <4>4 DEF CheckedNew, MaxLen
        <5> QED  BY <1>6, <4>1, <4>3, <4>4, <5>1
      <4>5. CASE ~(len > MaxLen)
        <5>1. CheckedNew(len) = len /\ len \in 0 .. Word - 3  BY <1>0, <4>2, <4>5 DEF CheckedNew, MaxLen
        <5> QED  BY <1>5, <4>1, <4>3, <4>5, <5>1
      <4> QED  BY <4>4, <4>5
    <3>3. CASE ~Has(hs, "transfer-encoding") /\ len = NaN /\ Has(hs, "content-length")
      <4>1. d = Err  BY <3>3, Zenon
      <4>2. ~LengthValid(hs) \/ \E n \in LengthsGiven(hs) : n >= Word  BY <1>2, <3>3 DEF LengthAgrees
      <4>3. LengthsGiven(hs) \subseteq Nat  BY <1>2 DEF LengthAgrees
      <4>4. ~LengthValid(hs) \/ \E n \in LengthsGiven(hs) : n > MaxLen  BY <1>0, <4>2, <4>3 DEF MaxLen
      <4>5. ~(LengthsGiven(hs) = {} /\ LengthValid(hs))  BY <4>2
      <4>6. s = [kind |-> "bad", len |-> 0]  BY <1>3, <3>3, <4>4, <4>5, Zenon
      <4> HIDE DEF d, s
      <4> QED  BY <1>6, <4>1, <4>6
    <3>4. CASE ~Has(hs, "transfer-encoding") /\ len = NaN /\ ~Has(hs, "content-length")
      <4>1. d = CloseDelimited  BY <3>4, Zenon
      <4>2. LengthsGiven(hs) = {} /\ LengthValid(hs)  BY <1>2, <3>4 DEF LengthAgrees
      <4>3. s = [kind |-> "close", len |-> 0]  BY <1>3, <3>4, <4>2, Zenon
      <4> HIDE DEF d, s
      <4> QED  BY <1>6, <4>1, <4>3
    <3> QED  BY <3>1, <3>2, <3>3, <3>4
  <2> HIDE DEF d, s
  <2>5. r.status # 101  BY <1>8
  <2> QED  BY <2>2, <2>3, <2>4, <2>5
<1> QED  BY <1>7, <1>8

-----------------------------------------------------------------------------
(* The inductive invariant of MessageFraming and the theorems.             *)

\* The request on the wire is right, in whatever the server speaks.
AskedRight ==
  phase = "sent" =>
    /\ asked.method = method
    /\ Sane(asked.req) => Right(asked.lines, asked.enc)
    /\ version = 10 =>
         asked.version = 10 /\ asked.enc.kind = "length" /\ ~Has(asked.lines, "transfer-encoding")

\* A connection goes on only behind a response that has an end of its own and
\* that did not ask for it to be closed.
GoesOn ==
  /\ eof \in BOOLEAN /\ (eof => phase \in {"read", "closed"})
  /\ phase # "closed" => decode # Err
  /\ phase = "read" => resp \in Responses /\ (keep => ParseKeepAlive(resp) = TRUE /\ resp.status # 101)
  /\ phase = "idle" =>
       /\ decode # CloseDelimited
       /\ \/ resp = NoResponse
          \/ resp \in Responses /\ ParseKeepAlive(resp) = TRUE /\ resp.status # 101

\* The inductive invariant.
FInv ==
  /\ phase \in {"idle", "sent", "read", "closed"} /\ version \in {10, 11} /\ keep \in BOOLEAN
  /\ AskedRight /\ GoesOn /\ ResponseFramed

\* It holds of a new connection.
LEMMA FInvInit == FInit => FInv
<1> SUFFICES ASSUME FInit PROVE FInv  OBVIOUS
<1>1. 0 # Err /\ 0 # CloseDelimited  BY FramingAssumption DEF Err, CloseDelimited
<1> QED  BY <1>1 DEF FInit, FInv, AskedRight, GoesOn, ResponseFramed

\* A request head is written.
LEMMA EncodeHeadKeeps ==
  ASSUME FInv, NEW req \in Requests, EncodeHead(req)
  PROVE  FInv'
<1> DEFINE e == EnforceVersion(req)
           f == SetLength(req, e.version, e.lines)
<1>1. /\ phase = "idle" /\ phase' = "sent" /\ method' = req.method /\ keep' = e.keep
      /\ asked' = [method |-> req.method, version |-> IF e.version = 10 THEN 10 ELSE 11,
                   lines |-> f.lines, enc |-> f.enc, req |-> req]
      /\ version' = version /\ decode' = decode /\ eof' = eof
  BY DEF EncodeHead
<1>2. /\ e.lines \in Seq(HeaderLine)
      /\ Values(e.lines, "content-length") = Values(req.lines, "content-length")
      /\ version = 10 => e.version = 10
      /\ e.keep \in BOOLEAN
  BY EnforceVersionKeeps DEF FInv
<1> HIDE DEF e
<1>3. req.body.kind = "known" => req.body.len \in Nat
  BY FramingAssumption DEF Requests, Bodies
<1>4. ASSUME Sane(req) PROVE Right(f.lines, f.enc)
  <2>1. LengthsGiven(e.lines) = LengthsGiven(req.lines) /\ LengthValid(e.lines) = LengthValid(req.lines)
    BY <1>2, SameLengths
  <2>2. Says(req, e.lines)  BY <1>2, <1>4, <2>1 DEF Says, Sane
  <2> QED  BY <1>3, <2>2, SetLengthRight
<1>5. ASSUME version = 10
      PROVE  e.version = 10 /\ f.enc.kind = "length" /\ ~Has(f.lines, "transfer-encoding")
  <2>1. e.version # 11 /\ e.version = 10  BY <1>2, <1>5
  <2> QED  BY <1>2, <1>3, <2>1, SetLengthPlain
<1> HIDE DEF f
<1>6. /\ asked'.method = req.method /\ asked'.version = (IF e.version = 10 THEN 10 ELSE 11)
      /\ asked'.lines = f.lines /\ asked'.enc = f.enc /\ asked'.req = req
  BY <1>1
<1>7. AskedRight'
  <2>1. asked'.method = method'  BY <1>1, <1>6
  <2>2. Sane(asked'.req) => Right(asked'.lines, asked'.enc)  BY <1>4, <1>6
  <2>3. version' = 10 =>
          asked'.version = 10 /\ asked'.enc.kind = "length" /\ ~Has(asked'.lines, "transfer-encoding")
    BY <1>1, <1>5, <1>6
  <2> QED  BY <2>1, <2>2, <2>3, Zenon DEF AskedRight
<1>8. GoesOn'  BY <1>1 DEF FInv, GoesOn, Err
<1>9. ResponseFramed'  BY <1>1 DEF FInv, GoesOn, ResponseFramed, Err
<1> QED  BY <1>1, <1>2, <1>7, <1>8, <1>9 DEF FInv

\* A response head is read.
LEMMA ReadHeadKeeps ==
  ASSUME FInv, NEW r \in Responses, ReadHead(r)
  PROVE  FInv'
<1> DEFINE d == Decoder(r)
<1>1. /\ phase = "sent" /\ resp' = r /\ decode' = d.len /\ method' = method /\ asked' = asked /\ eof' = eof
      /\ IF d.len = Err THEN phase' = "closed" /\ version' = version /\ keep' = keep
         ELSE /\ phase' = "read" /\ version' = r.version
              /\ keep' = (keep /\ ParseKeepAlive(r) /\ ~d.upgrade)
  BY DEF ReadHead
<1>2. Meaning(d.len) = ServerSends(method, r) /\ (r.status = 101 => d.upgrade) /\ d.upgrade \in BOOLEAN
  BY DecoderAgrees
<1> HIDE DEF d
<1>3. asked.method = method  BY <1>1 DEF FInv, AskedRight
<1>4. Meaning(decode') = ServerSends(asked'.method, resp')  BY <1>1, <1>2, <1>3
<1>5. ResponseFramed'  BY <1>4 DEF ResponseFramed
<1>6. phase' # "sent" /\ phase' # "idle"  BY <1>1
<1>7. AskedRight'  BY <1>6 DEF AskedRight
<1>8. r.version \in {10, 11}  BY DEF Responses
<1>9. phase' \in {"idle", "sent", "read", "closed"} /\ version' \in {10, 11}  BY <1>1, <1>8 DEF FInv
<1>10. keep' \in BOOLEAN  BY <1>1 DEF FInv
<1>11. GoesOn'
  <2>1. phase' # "closed" => decode' # Err  BY <1>1
  <2>2. ASSUME phase' = "read", keep' PROVE ParseKeepAlive(resp') = TRUE /\ resp'.status # 101
    <3>1. keep' = (keep /\ ParseKeepAlive(r) /\ ~d.upgrade)  BY <1>1, <2>2
    <3>2. ParseKeepAlive(r) /\ ~d.upgrade  BY <2>2, <3>1
    <3>3. ParseKeepAlive(r) \in BOOLEAN  BY KeepAliveBoolean
    <3> QED  BY <1>1, <1>2, <3>2, <3>3
  <2>3. resp' \in Responses  BY <1>1
  <2>4. eof' = FALSE  BY <1>1 DEF FInv, GoesOn
  <2> QED  BY <1>6, <2>1, <2>2, <2>3, <2>4, Zenon DEF GoesOn, Err
<1> QED  BY <1>5, <1>7, <1>9, <1>10, <1>11 DEF FInv

\* The end of the stream ends a body.
LEMMA BodyEofKeeps ==
  ASSUME FInv, BodyEof
  PROVE  FInv'
<1>1. /\ phase = "read" /\ phase' = phase /\ version' = version /\ keep' = keep /\ method' = method
      /\ asked' = asked /\ resp' = resp /\ decode' = decode /\ eof' = TRUE
  BY DEF BodyEof
<1>2. AskedRight'  BY <1>1 DEF AskedRight
<1>3. GoesOn'  BY <1>1 DEF FInv, GoesOn, Err
<1>4. ResponseFramed'  BY <1>1 DEF FInv, ResponseFramed, Err
<1> QED  BY <1>1, <1>2, <1>3, <1>4 DEF FInv

\* Both bodies are done.  An idle connection has not seen the end of the
\* stream, and so its response did not need it to end.
LEMMA FinishKeeps ==
  ASSUME FInv, Finish
  PROVE  FInv'
<1>1. /\ phase = "read" /\ version' = version /\ keep' = keep /\ resp' = resp /\ decode' = decode /\ eof' = eof
      /\ phase' \in {"idle", "closed"} /\ (phase' = "idle" => keep /\ ~eof /\ decode # CloseDelimited)
  BY DEF Finish, BodyRead
<1>2. decode # Err  BY <1>1 DEF FInv, GoesOn
<1>3. ResponseFramed'  BY <1>1, <1>2 DEF ResponseFramed, Err
<1>4. AskedRight'  BY <1>1 DEF AskedRight
<1>5. resp \in Responses /\ (keep => ParseKeepAlive(resp) = TRUE /\ resp.status # 101)
  BY <1>1 DEF FInv, GoesOn
<1>6. GoesOn'  BY <1>1, <1>2, <1>5 DEF FInv, GoesOn, Err, CloseDelimited
<1> QED  BY <1>1, <1>3, <1>4, <1>6 DEF FInv

\* Every step keeps it.
LEMMA FInvNext == FInv /\ [FNext]_fvars => FInv'
<1> SUFFICES ASSUME FInv, [FNext]_fvars PROVE FInv'  OBVIOUS
<1>1. CASE \E req \in Requests : EncodeHead(req)  BY <1>1, EncodeHeadKeeps
<1>2. CASE \E r \in Responses : ReadHead(r)  BY <1>2, ReadHeadKeeps
<1>3. CASE Finish  BY <1>3, FinishKeeps
<1>5. CASE BodyEof  BY <1>5, BodyEofKeeps
<1>4. CASE UNCHANGED fvars
  <2>1. AskedRight'  BY <1>4 DEF FInv, AskedRight, fvars
  <2>2. GoesOn'  BY <1>4 DEF FInv, GoesOn, fvars, Err, CloseDelimited
  <2>3. ResponseFramed'  BY <1>4 DEF FInv, ResponseFramed, fvars, Err
  <2> QED  BY <1>4, <2>1, <2>2, <2>3 DEF FInv, fvars
<1> QED  BY <1>1, <1>2, <1>3, <1>4, <1>5 DEF FNext

\* So it always holds.
LEMMA FInvariance == FSpec => []FInv
BY FInvInit, FInvNext, PTL DEF FSpec

\* Client::encode, set_length, enforce_version: whatever framing headers the
\* user sets, the server takes for the body of a request what the encoder
\* writes, and a server that answered in HTTP/1.0 is never sent chunks.
THEOREM RequestsUnderstood == FSpec => []RequestUnderstood
<1>1. FInv => RequestUnderstood
  BY Zenon DEF FInv, AskedRight, Right, RequestUnderstood, RequestFramed, PeerUnderstands
<1> QED  BY <1>1, FInvariance, PTL

\* Client::decoder: every response ends where RFC 7230 says that it ends, for
\* every method, status, version and header, lengths beyond the width of u64
\* and at the sentinels of DecodedLength included.
THEOREM ResponsesFramed == FSpec => []ResponseFramed
<1>1. FInv => ResponseFramed  BY DEF FInv
<1> QED  BY <1>1, FInvariance, PTL

\* Client::parse, try_keep_alive, maybe_notify: a connection is reused only if
\* the response had an end of its own and the server keeps the connection
\* open, with the one exception of a close that the server itself overrules.
THEOREM ReuseIsAgreed == FSpec => []ReuseAgreed
<1>1. ASSUME FInv PROVE ReuseAgreed
  <2> SUFFICES ASSUME phase = "idle"
               PROVE  /\ ServerKeeps(resp) \/ Overruled(resp)
                      /\ Meaning(decode).kind \in {"length", "chunked"} /\ resp.status # 101
    BY DEF ReuseAgreed
  <2>1. decode # Err /\ decode # CloseDelimited  BY <1>1 DEF FInv, GoesOn
  <2>2. Meaning(decode).kind \in {"length", "chunked"}  BY <2>1 DEF Meaning
  <2>3. CASE resp = NoResponse
    <3>1. resp.lines = <<>> /\ resp.version = 11 /\ resp.status = 0  BY <2>3 DEF NoResponse
    <3>2. <<>> \in Seq(HeaderLine)  OBVIOUS
    <3>3. Values(<<>>, "connection") = {}  BY LinesRules, RangeRules DEF Values
    <3> QED  BY <2>2, <3>1, <3>3 DEF ServerKeeps
  <2>4. CASE resp \in Responses /\ ParseKeepAlive(resp) = TRUE /\ resp.status # 101
    <3>1. resp.lines \in Seq(HeaderLine) /\ resp.version \in {10, 11}
      BY <2>4, HeadsAssumption DEF Responses
    <3> QED  BY <2>2, <2>4, <3>1, KeepAliveAgrees
  <2> QED  BY <1>1, <2>3, <2>4 DEF FInv, GoesOn
<1> QED  BY <1>1, FInvariance, PTL

-----------------------------------------------------------------------------
(* BodyCodec: bytes in a row.                                              *)

\* Joining sequences is associative, and lengths add up.
LEMMA JoinRules ==
  ASSUME NEW S
  PROVE  /\ \A a, b, c \in Seq(S) : (a \o b) \o c = a \o (b \o c)
         /\ \A a \in Seq(S) : a \o <<>> = a /\ <<>> \o a = a
         /\ \A a, b \in Seq(S) : a \o b \in Seq(S) /\ Len(a \o b) = Len(a) + Len(b)
<1>1. ASSUME NEW a \in Seq(S), NEW b \in Seq(S), NEW c \in Seq(S)
      PROVE  (a \o b) \o c = a \o (b \o c)
  BY ConcatAssociative
<1>2. \A a \in Seq(S) : a \o <<>> = a /\ <<>> \o a = a  OBVIOUS
<1>3. \A a, b \in Seq(S) : a \o b \in Seq(S) /\ Len(a \o b) = Len(a) + Len(b)  OBVIOUS
<1> QED  BY <1>1, <1>2, <1>3, Zenon

\* Bytes in a row are bytes.
LEMMA BytesJoin == \A a, b \in Seq(Byte) : a \o b \in Seq(Byte)
OBVIOUS

\* Joining bytes is associative.
LEMMA BytesAssoc == \A a, b, c \in Seq(Byte) : (a \o b) \o c = a \o (b \o c)
<1> SUFFICES ASSUME NEW a \in Seq(Byte), NEW b \in Seq(Byte), NEW c \in Seq(Byte)
             PROVE  (a \o b) \o c = a \o (b \o c)
  OBVIOUS
<1>1. PICK S : S = Byte  OBVIOUS
<1>2. a \in Seq(S) /\ b \in Seq(S) /\ c \in Seq(S)  BY <1>1
<1> QED  BY <1>2, JoinRules, SMTT(30)

\* The same, of three rows of bytes.
Regroups(a, b, c) == (a \o b) \o c = a \o (b \o c)

\* Any three rows can be joined either way.
LEMMA Regroup == \A a, b, c \in Seq(Byte) : Regroups(a, b, c)
BY BytesAssoc, Zenon DEF Regroups

\* Nothing is a unit of joining bytes.
LEMMA BytesUnit == \A a \in Seq(Byte) : a \o <<>> = a /\ <<>> \o a = a
OBVIOUS

\* The first byte of a row, and what is behind it.
LEMMA FirstOf ==
  ASSUME NEW S, NEW s \in Seq(S), NEW t \in Seq(S), s # <<>>
  PROVE  /\ (s \o t)[1] = s[1] /\ Tail(s \o t) = Tail(s) \o t /\ s[1] \in S
         /\ Tail(s) \in Seq(S) /\ s = <<s[1]>> \o Tail(s) /\ s \o t # <<>>
OBVIOUS

\* One byte in front of others.
LEMMA OneInFront ==
  ASSUME NEW S, NEW x \in S, NEW t \in Seq(S)
  PROVE  <<x>> \o t \in Seq(S) /\ <<x>> \o t # <<>> /\ (<<x>> \o t)[1] = x /\ Tail(<<x>> \o t) = t
OBVIOUS

\* The first n bytes of s \o t are of s, and the rest of it is followed by t.
Fronts(S, s, t, n) ==
  /\ SubSeq(s \o t, 1, n) = SubSeq(s, 1, n)
  /\ SubSeq(s \o t, n + 1, Len(s \o t)) = SubSeq(s, n + 1, Len(s)) \o t
  /\ s = SubSeq(s, 1, n) \o SubSeq(s, n + 1, Len(s))
  /\ SubSeq(s, 1, n) \in Seq(S) /\ SubSeq(s, n + 1, Len(s)) \in Seq(S)
  /\ Len(SubSeq(s, n + 1, Len(s))) = Len(s) - n /\ Len(SubSeq(s, 1, n)) = n

\* This holds up to the length of s.
LEMMA FrontOf ==
  ASSUME NEW S, NEW s \in Seq(S), NEW t \in Seq(S), NEW n \in 1 .. Len(s)
  PROVE  Fronts(S, s, t, n)
<1>0. Len(s) \in Nat /\ Len(t) \in Nat /\ Len(s \o t) = Len(s) + Len(t) /\ n \in Nat /\ n <= Len(s)  OBVIOUS
<1>1. SubSeq(s \o t, 1, n) = SubSeq(s, 1, n)  OBVIOUS
<1>2. SubSeq(s \o t, n + 1, Len(s \o t)) = SubSeq(s, n + 1, Len(s)) \o t
  <2> DEFINE u == SubSeq(s \o t, n + 1, Len(s \o t))
             v == SubSeq(s, n + 1, Len(s)) \o t
  <2>1. u \in Seq(S) /\ v \in Seq(S) /\ Len(u) = Len(s) + Len(t) - n /\ Len(v) = Len(u)  OBVIOUS
  <2>2. ASSUME NEW i \in 1 .. Len(u) PROVE u[i] = v[i]  OBVIOUS
  <2> HIDE DEF u, v
  <2>3. u = v  BY <2>1, <2>2
  <2> QED  BY <2>3 DEF u, v
<1>3. s = SubSeq(s, 1, n) \o SubSeq(s, n + 1, Len(s))  OBVIOUS
<1>4. SubSeq(s, 1, n) \in Seq(S) /\ SubSeq(s, n + 1, Len(s)) \in Seq(S)  OBVIOUS
<1>5. Len(SubSeq(s, n + 1, Len(s))) = Len(s) - n /\ Len(SubSeq(s, 1, n)) = n  OBVIOUS
<1> QED  BY <1>1, <1>2, <1>3, <1>4, <1>5, Zenon DEF Fronts

\* The bytes the coding tells apart.
LEMMA ByteFacts ==
  /\ Radix \in Nat /\ Radix > 1 /\ MaxSize \in Nat
  /\ Digit \subseteq Nat /\ Digit \subseteq Byte /\ Byte \subseteq Nat /\ 0 \in Digit
  /\ Cr \in Byte /\ Lf \in Byte /\ Other \in Byte
  /\ Cr \notin Digit /\ Cr # Ws /\ Cr # Semi /\ Cr # Lf /\ Other # Cr
BY DecoderAssumption DEF Digit, Byte, Cr, Lf, Other, Ws, Semi

\* The ends of lines and the last chunk are bytes.
LEMMA CrlfFacts ==
  /\ Crlf \in Seq(Byte) /\ Crlf # <<>> /\ Crlf[1] = Cr /\ Tail(Crlf) = <<Lf>> /\ Len(Crlf) = 2
  /\ <<Lf>> \in Seq(Byte) /\ <<Lf>> # <<>> /\ Tail(<<Lf>>) = <<>> /\ <<Lf>>[1] = Lf
  /\ <<0>> \in Seq(Byte) /\ <<>> \in Seq(Byte)
  /\ LastChunk = <<0>> \o Crlf /\ LastChunk \in Seq(Byte) /\ LastChunk # <<>>
  /\ LastChunk[1] = 0 /\ Tail(LastChunk) = Crlf
<1>1. Cr \in Byte /\ Lf \in Byte /\ 0 \in Byte  BY ByteFacts
<1>2. PICK c, l, B : c = Cr /\ l = Lf /\ B = Byte  OBVIOUS
<1>3. c \in B /\ l \in B /\ 0 \in B  BY <1>1, <1>2
<1>4. Crlf = <<c, l>> /\ LastChunk = <<0>> \o <<c, l>>  BY <1>2 DEF Crlf, LastChunk
<1>5. /\ <<c, l>> \in Seq(B) /\ <<c, l>> # <<>> /\ <<c, l>>[1] = c /\ Tail(<<c, l>>) = <<l>> /\ Len(<<c, l>>) = 2
      /\ <<l>> \in Seq(B) /\ <<l>> # <<>> /\ Tail(<<l>>) = <<>> /\ <<l>>[1] = l
      /\ <<0>> \in Seq(B) /\ <<>> \in Seq(B)
  BY <1>3
<1>6. <<0>> \o <<c, l>> \in Seq(B) /\ <<0>> \o <<c, l>> # <<>> /\ (<<0>> \o <<c, l>>)[1] = 0
      /\ Tail(<<0>> \o <<c, l>>) = <<c, l>>
  BY <1>3, <1>5, OneInFront, Zenon
<1> QED  BY <1>2, <1>4, <1>5, <1>6, Zenon

-----------------------------------------------------------------------------
(* Chunk sizes.                                                            *)

\* A set of triples <<v, ds, n>> such that a decoder whose size is v and
\* that reads the digits ds has the size n.
Spelling(P) ==
  /\ \A n \in Nat : <<n, <<>>, n>> \in P
  /\ \A v \in Nat, x \in Digit, ds \in Seq(Digit), n \in Nat :
       <<v * Radix + x, ds, n>> \in P => <<v, <<x>> \o ds, n>> \in P

\* ... and all such triples: the ones of the least such set.
Spelt(v, ds, n) == v \in Nat /\ ds \in Seq(Digit) /\ n \in Nat /\ \A P : Spelling(P) => <<v, ds, n>> \in P

\* No digits, and one digit more in front.
LEMMA SpeltRules ==
  /\ \A n \in Nat : Spelt(n, <<>>, n)
  /\ \A v \in Nat, x \in Digit, ds \in Seq(Digit), n \in Nat :
       Spelt(v * Radix + x, ds, n) => Spelt(v, <<x>> \o ds, n)
<1>1. ASSUME NEW n \in Nat PROVE Spelt(n, <<>>, n)
  <2>1. <<>> \in Seq(Digit)  OBVIOUS
  <2> QED  BY <2>1, Zenon DEF Spelt, Spelling
<1>2. ASSUME NEW v \in Nat, NEW x \in Digit, NEW ds \in Seq(Digit), NEW n \in Nat, Spelt(v * Radix + x, ds, n)
      PROVE  Spelt(v, <<x>> \o ds, n)
  <2>1. <<x>> \o ds \in Seq(Digit)  OBVIOUS
  <2>2. ASSUME NEW P, Spelling(P) PROVE <<v, <<x>> \o ds, n>> \in P
    <3>1. <<v * Radix + x, ds, n>> \in P  BY <1>2, <2>2, Zenon DEF Spelt
    <3> QED  BY <2>2, <3>1, Zenon DEF Spelling
  <2> QED  BY <2>1, <2>2, Zenon DEF Spelt
<1> QED  BY <1>1, <1>2, Zenon

\* What a digit does to the size.
LEMMA DigitPushed ==
  ASSUME NEW v \in Nat, NEW x \in Digit
  PROVE  v * Radix + x \in Nat /\ v <= v * Radix + x
<1>1. Radix \in Nat /\ Radix > 1 /\ x \in Nat  BY ByteFacts
<1> HIDE DEF Digit
<1>2. v * Radix \in Nat /\ v * Radix >= v  BY <1>1
<1> QED  BY <1>1, <1>2

\* The size does not shrink, and the first digit can be taken off.
LEMMA SpeltFirst ==
  ASSUME NEW v, NEW ds, NEW n, Spelt(v, ds, n)
  PROVE  /\ v \in Nat /\ ds \in Seq(Digit) /\ n \in Nat /\ v <= n
         /\ ds = <<>> => v = n
         /\ ds # <<>> => ds[1] \in Digit /\ Tail(ds) \in Seq(Digit) /\ Spelt(v * Radix + ds[1], Tail(ds), n)
<1> DEFINE Good(a, d, k) ==
             /\ a <= k
             /\ d = <<>> => a = k
             /\ d # <<>> => d[1] \in Digit /\ Tail(d) \in Seq(Digit) /\ Spelt(a * Radix + d[1], Tail(d), k)
           P == {p \in Nat \X Seq(Digit) \X Nat : Spelt(p[1], p[2], p[3]) /\ Good(p[1], p[2], p[3])}
<1>0. \A a, d, k : <<a, d, k>> \in P <=> a \in Nat /\ d \in Seq(Digit) /\ k \in Nat /\ Spelt(a, d, k) /\ Good(a, d, k)
  <2> HIDE DEF Good
  <2> QED  OBVIOUS
<1>1. ASSUME NEW k \in Nat PROVE <<k, <<>>, k>> \in P
  <2>1. Spelt(k, <<>>, k) /\ <<>> \in Seq(Digit)  BY SpeltRules
  <2>2. Good(k, <<>>, k)  OBVIOUS
  <2> HIDE DEF P, Good
  <2> QED  BY <1>0, <2>1, <2>2, Zenon
<1>2. ASSUME NEW a \in Nat, NEW x \in Digit, NEW d \in Seq(Digit), NEW k \in Nat, <<a * Radix + x, d, k>> \in P
      PROVE  <<a, <<x>> \o d, k>> \in P
  <2>1. Spelt(a * Radix + x, d, k) /\ Good(a * Radix + x, d, k)
    <3> HIDE DEF P, Good
    <3> QED  BY <1>0, <1>2, Zenon
  <2>2. Spelt(a, <<x>> \o d, k)  BY <2>1, SpeltRules, Zenon
  <2>3. <<x>> \o d \in Seq(Digit) /\ <<x>> \o d # <<>> /\ (<<x>> \o d)[1] = x /\ Tail(<<x>> \o d) = d  OBVIOUS
  <2>4. a <= k
    <3>1. a * Radix + x \in Nat /\ a <= a * Radix + x  BY DigitPushed
    <3>2. a * Radix + x <= k  BY <2>1
    <3> QED  BY <3>1, <3>2
  <2>5. Good(a, <<x>> \o d, k)  BY <2>1, <2>3, <2>4, Zenon
  <2> HIDE DEF P, Good
  <2> QED  BY <1>0, <2>2, <2>3, <2>5, Zenon
<1>3. Spelling(P)
  <2> HIDE DEF P
  <2> QED  BY <1>1, <1>2, Zenon DEF Spelling
<1>4. <<v, ds, n>> \in P
  <2> HIDE DEF P
  <2> QED  BY <1>3, Zenon DEF Spelt
<1> HIDE DEF P
<1> QED  BY <1>0, <1>4, Zenon

\* One digit more behind the others.
LEMMA SpeltLast ==
  ASSUME NEW v, NEW ds, NEW n, Spelt(v, ds, n), NEW x \in Digit
  PROVE  Spelt(v, Append(ds, x), n * Radix + x)
<1> DEFINE P == {p \in Nat \X Seq(Digit) \X Nat : Spelt(p[1], Append(p[2], x), p[3] * Radix + x)}
<1>0. \A a, d, k : <<a, d, k>> \in P <=> a \in Nat /\ d \in Seq(Digit) /\ k \in Nat /\ Spelt(a, Append(d, x), k * Radix + x)
  OBVIOUS
<1>1. ASSUME NEW k \in Nat PROVE <<k, <<>>, k>> \in P
  <2>1. k * Radix + x \in Nat  BY DigitPushed
  <2>2. <<>> \in Seq(Digit) /\ Append(<<>>, x) = <<x>> \o <<>>  OBVIOUS
  <2>3. Spelt(k * Radix + x, <<>>, k * Radix + x)  BY <2>1, SpeltRules, Zenon
  <2>4. Spelt(k, <<x>> \o <<>>, k * Radix + x)  BY <2>1, <2>2, <2>3, SpeltRules, Zenon
  <2> HIDE DEF P
  <2> QED  BY <1>0, <2>2, <2>4, Zenon
<1>2. ASSUME NEW a \in Nat, NEW y \in Digit, NEW d \in Seq(Digit), NEW k \in Nat, <<a * Radix + y, d, k>> \in P
      PROVE  <<a, <<y>> \o d, k>> \in P
  <2>1. Spelt(a * Radix + y, Append(d, x), k * Radix + x)
    <3> HIDE DEF P
    <3> QED  BY <1>0, <1>2, Zenon
  <2>2. k * Radix + x \in Nat  BY DigitPushed
  <2>3. Append(d, x) \in Seq(Digit) /\ <<y>> \o d \in Seq(Digit) /\ Append(<<y>> \o d, x) = <<y>> \o Append(d, x)  OBVIOUS
  <2>4. Spelt(a, <<y>> \o Append(d, x), k * Radix + x)  BY <2>1, <2>2, <2>3, SpeltRules, Zenon
  <2> HIDE DEF P
  <2> QED  BY <1>0, <2>3, <2>4, Zenon
<1>3. Spelling(P)
  <2> HIDE DEF P
  <2> QED  BY <1>1, <1>2, Zenon DEF Spelling
<1>4. <<v, ds, n>> \in P
  <2> HIDE DEF P
  <2> QED  BY <1>3, Zenon DEF Spelt
<1> HIDE DEF P
<1> QED  BY <1>0, <1>4, Zenon

\* A number and its last digit.
LEMMA RadixDivision ==
  ASSUME NEW n \in Nat
  PROVE  /\ n \div Radix \in Nat /\ n % Radix \in Digit
         /\ n = (n \div Radix) * Radix + (n % Radix)
         /\ n > 0 => n \div Radix < n
<1>1. Radix \in Nat /\ Radix > 1  BY ByteFacts
<1>2. n \div Radix \in Nat /\ n % Radix \in 0 .. Radix - 1  BY <1>1
<1>3. n = (n \div Radix) * Radix + (n % Radix)  BY <1>1
<1>4. n > 0 => n \div Radix < n  BY <1>1
<1> QED  BY <1>2, <1>3, <1>4 DEF Digit

\* The function ChunkSize computes with.
WritesSize(f, n) == f = [m \in 0 .. n |-> IF m < Radix THEN <<m>> ELSE Append(f[m \div Radix], m % Radix)]

\* There is one, built up from smaller numbers.
LEMMA WritesSizeExists ==
  ASSUME NEW k \in Nat
  PROVE  \E f : WritesSize(f, k)
<1> DEFINE D(f, m) == IF m < Radix THEN <<m>> ELSE Append(f[m \div Radix], m % Radix)
           Upto(f, n) == f = [m \in 0 .. n |-> D(f, m)]
           T == {n \in Nat : \E f : Upto(f, n)}
<1>0. Radix \in Nat /\ Radix > 1  BY ByteFacts
<1>1. 0 \in T
  <2> DEFINE g == [m \in 0 .. 0 |-> <<m>>]
             h == [m \in 0 .. 0 |-> D(g, m)]
  <2>1. \A m \in 0 .. 0 : g[m] = h[m]  BY <1>0
  <2>2. g = h  BY <2>1
  <2>3. Upto(g, 0)  BY <2>2, Zenon
  <2> QED  BY <2>3, Zenon
<1>2. ASSUME NEW n \in Nat, n \in T PROVE n + 1 \in T
  <2>1. PICK f : Upto(f, n)  BY <1>2, Zenon
  <2> DEFINE g == [m \in 0 .. n + 1 |-> IF m <= n THEN f[m] ELSE D(f, m)]
             h == [m \in 0 .. n + 1 |-> D(g, m)]
             F == [m \in 0 .. n |-> D(f, m)]
  <2>2. ASSUME NEW m \in 0 .. n + 1 PROVE D(g, m) = D(f, m)
    <3>1. CASE m < Radix  BY <3>1
    <3>2. CASE ~(m < Radix)
      <4>1. m \div Radix \in 0 .. n + 1 /\ m \div Radix <= n
        <5>1. m > 0 /\ m \in Nat  BY <1>0, <3>2
        <5>2. m \div Radix \in Nat /\ m \div Radix < m  BY <5>1, RadixDivision
        <5> QED  BY <5>2
      <4>2. g[m \div Radix] = f[m \div Radix]  BY <4>1
      <4> HIDE DEF g
      <4> QED  BY <3>2, <4>2
    <3> QED  BY <3>1, <3>2
  <2>3. ASSUME NEW m \in 0 .. n + 1 PROVE g[m] = D(f, m)
    <3>1. CASE m <= n
      <4>1. g[m] = f[m] /\ m \in 0 .. n  BY <3>1
      <4>2. F[m] = D(f, m)
        <5> HIDE DEF D
        <5> QED  BY <4>1
      <4>3. f[m] = F[m]
        <5> HIDE DEF D
        <5> QED  BY <2>1, Zenon
      <4> QED  BY <4>1, <4>2, <4>3, Zenon
    <3>2. CASE ~(m <= n)
      <4> HIDE DEF D
      <4> QED  BY <3>2
    <3> QED  BY <3>1, <3>2
  <2>4. g = h
    <3> HIDE DEF D, F
    <3>1. g = [m \in 0 .. n + 1 |-> g[m]]  OBVIOUS
    <3>2. \A m \in 0 .. n + 1 : g[m] = h[m]  BY <2>2, <2>3, Zenon
    <3>3. DOMAIN g = DOMAIN h  OBVIOUS
    <3> QED  BY <3>2, <3>3
  <2>5. Upto(g, n + 1)  BY <2>4, Zenon
  <2>6. n + 1 \in Nat  OBVIOUS
  <2> QED  BY <2>5, <2>6, Zenon
<1>3. Nat \subseteq T
  <2> HIDE DEF T
  <2> QED  BY <1>1, <1>2, SetInduction
<1>4. k \in T
  <2> HIDE DEF T
  <2> QED  BY <1>3
<1> QED  BY <1>4, Zenon DEF WritesSize

\* ChunkSize::new: digits that spell the size, and the end of the line.
LEMMA ChunkSizeSpells ==
  ASSUME NEW n \in Nat
  PROVE  \E ds \in Seq(Digit) : ds # <<>> /\ Spelt(0, ds, n) /\ ChunkSize(n) = ds \o Crlf
<1> DEFINE f == CHOOSE g : g = [m \in 0 .. n |-> IF m < Radix THEN <<m>> ELSE Append(g[m \div Radix], m % Radix)]
           Good(v, m) == v \in Seq(Digit) /\ v # <<>> /\ Spelt(0, v, m)
           T == {k \in Nat : \A m \in 0 .. n : m <= k => Good(f[m], m)}
<1>0. Radix \in Nat /\ Radix > 1  BY ByteFacts
<1>1. f = [m \in 0 .. n |-> IF m < Radix THEN <<m>> ELSE Append(f[m \div Radix], m % Radix)]
  BY WritesSizeExists, Zenon DEF WritesSize
<1>2. ChunkSize(n) = f[n] \o Crlf  BY Zenon DEF ChunkSize
<1> HIDE DEF f
<1>3. ASSUME NEW m \in 0 .. n
      PROVE  f[m] = IF m < Radix THEN <<m>> ELSE Append(f[m \div Radix], m % Radix)
  <2> DEFINE F == [k \in 0 .. n |-> IF k < Radix THEN <<k>> ELSE Append(f[k \div Radix], k % Radix)]
  <2>1. F[m] = IF m < Radix THEN <<m>> ELSE Append(f[m \div Radix], m % Radix)  OBVIOUS
  <2>2. f = F  BY <1>1, Zenon
  <2> HIDE DEF F
  <2> QED  BY <2>1, <2>2, Zenon
<1>4. ASSUME NEW m \in 0 .. n, m < Radix PROVE Good(f[m], m)
  <2>0. f[m] = <<m>>  BY <1>3, <1>4, Zenon
  <2>1. m \in Nat /\ m \in Digit /\ 0 * Radix + m = m  BY <1>0, <1>4 DEF Digit
  <2>2. <<m>> = <<m>> \o <<>> /\ <<>> \in Seq(Digit) /\ <<m>> \in Seq(Digit) /\ <<m>> # <<>>  BY <2>1
  <2>3. Spelt(0 * Radix + m, <<>>, m)  BY <2>1, SpeltRules
  <2>4. Spelt(0, <<m>> \o <<>>, m)  BY <2>1, <2>2, <2>3, SpeltRules, Zenon
  <2> QED  BY <2>0, <2>2, <2>4, Zenon
<1>5. 0 \in T
  <2> SUFFICES ASSUME NEW m \in 0 .. n, m <= 0 PROVE Good(f[m], m)  OBVIOUS
  <2>1. m < Radix  BY <1>0
  <2> QED  BY <1>4, <2>1
<1>6. ASSUME NEW k \in Nat, k \in T PROVE k + 1 \in T
  <2> SUFFICES ASSUME NEW m \in 0 .. n, m <= k + 1 PROVE Good(f[m], m)  OBVIOUS
  <2>1. CASE m < Radix  BY <1>4, <2>1
  <2>2. CASE ~(m < Radix)
    <3> DEFINE q == m \div Radix
               r == m % Radix
    <3>1. m \in Nat /\ m > 0  BY <1>0, <2>2
    <3>2. q \in Nat /\ r \in Digit /\ m = q * Radix + r /\ q < m  BY <3>1, RadixDivision
    <3>3. f[m] = Append(f[q], r)  BY <1>3, <2>2
    <3> HIDE DEF q, r
    <3>4. q \in 0 .. n /\ q <= k  BY <1>0, <3>2
    <3>5. Good(f[q], q)  BY <1>6, <3>4
    <3>6. Append(f[q], r) \in Seq(Digit) /\ Append(f[q], r) # <<>>  BY <3>2, <3>5
    <3>7. Spelt(0, Append(f[q], r), q * Radix + r)  BY <3>2, <3>5, SpeltLast, Zenon
    <3> QED  BY <3>2, <3>3, <3>6, <3>7, Zenon
  <2> QED  BY <2>1, <2>2
<1>7. Nat \subseteq T
  <2> HIDE DEF T
  <2> QED  BY <1>5, <1>6, SetInduction
<1>8. n \in T /\ n \in 0 .. n /\ n <= n
  <2> HIDE DEF T
  <2> QED  BY <1>7
<1>9. Good(f[n], n)  BY <1>8
<1> QED  BY <1>2, <1>9, Zenon

-----------------------------------------------------------------------------
(* Chunks in a row.                                                        *)

\* What encode makes of a frame.
ChunkOf(m) == ChunkSize(Len(m)) \o m \o Crlf

\* It is a size line, the frame and the end of a line.
LEMMA ChunkIs ==
  ASSUME NEW m \in Frames
  PROVE  /\ m \in Seq(Byte) /\ m # <<>> /\ Len(m) \in 1 .. MaxSize
         /\ ChunkOf(m) \in Seq(Byte)
         /\ \E ds \in Seq(Digit) : /\ ds # <<>> /\ Spelt(0, ds, Len(m))
                                   /\ ChunkOf(m) = ds \o (Crlf \o (m \o Crlf))
<1>1. m \in Seq(Byte) /\ Len(m) \in 1 .. MaxSize  BY CodecAssumption
<1>2. Len(m) \in Nat /\ m # <<>>  BY <1>1
<1>3. PICK ds \in Seq(Digit) : ds # <<>> /\ Spelt(0, ds, Len(m)) /\ ChunkSize(Len(m)) = ds \o Crlf
  BY <1>2, ChunkSizeSpells
<1>4. ds \in Seq(Byte)  
  <2>1. Digit \subseteq Byte  BY ByteFacts
  <2>2. ds \in [1 .. Len(ds) -> Digit] /\ Len(ds) \in Nat  OBVIOUS
  <2>3. ds \in [1 .. Len(ds) -> Byte]  BY <2>1, <2>2
  <2> QED  BY <2>2, <2>3
<1>5. Crlf \in Seq(Byte)  BY CrlfFacts
<1>6. ds \o Crlf \in Seq(Byte) /\ m \o Crlf \in Seq(Byte) /\ Crlf \o (m \o Crlf) \in Seq(Byte)
      /\ ds \o (Crlf \o (m \o Crlf)) \in Seq(Byte)
  BY <1>1, <1>4, <1>5, BytesJoin, Zenon
<1>7. ((ds \o Crlf) \o m) \o Crlf = (ds \o Crlf) \o (m \o Crlf)  BY <1>1, <1>5, <1>6, BytesAssoc, SMTT(30)
<1>8. (ds \o Crlf) \o (m \o Crlf) = ds \o (Crlf \o (m \o Crlf))  BY <1>4, <1>5, <1>6, BytesAssoc, ZenonT(60)
<1>9. ChunkOf(m) = ds \o (Crlf \o (m \o Crlf))  BY <1>3, <1>7, <1>8, Zenon DEF ChunkOf
<1> QED  BY <1>1, <1>2, <1>3, <1>6, <1>9, Zenon

\* A set of pairs <<w, x>> of what is on the wire and the data in it.
Chunking(P) ==
  /\ <<<<>>, <<>>>> \in P
  /\ \A w, x \in Seq(Byte), m \in Frames : <<w, x>> \in P => <<w \o ChunkOf(m), x \o m>> \in P

\* w is a row of chunks with the data x: such a pair is in every such set.
Written(w, x) == w \in Seq(Byte) /\ x \in Seq(Byte) /\ \A P : Chunking(P) => <<w, x>> \in P

\* No chunk, and one chunk more at the end.
LEMMA WrittenRules ==
  /\ Written(<<>>, <<>>)
  /\ \A w, x : \A m \in Frames : Written(w, x) => Written(w \o ChunkOf(m), x \o m)
<1>1. Written(<<>>, <<>>)
  <2>1. <<>> \in Seq(Byte)  OBVIOUS
  <2> QED  BY <2>1, Zenon DEF Written, Chunking
<1>2. ASSUME NEW w, NEW x, NEW m \in Frames, Written(w, x) PROVE Written(w \o ChunkOf(m), x \o m)
  <2>1. w \in Seq(Byte) /\ x \in Seq(Byte)  BY <1>2, Zenon DEF Written
  <2>2. w \o ChunkOf(m) \in Seq(Byte) /\ x \o m \in Seq(Byte)  BY <2>1, ChunkIs, BytesJoin, Zenon
  <2>3. ASSUME NEW P, Chunking(P) PROVE <<w \o ChunkOf(m), x \o m>> \in P
    <3>1. <<w, x>> \in P  BY <1>2, <2>3, Zenon DEF Written
    <3> QED  BY <2>1, <2>3, <3>1, Zenon DEF Chunking
  <2> QED  BY <2>2, <2>3, Zenon DEF Written
<1> QED  BY <1>1, <1>2, Zenon

\* Nothing, or a first chunk and others behind it.
ChunkAhead(w, x) ==
  \/ w = <<>> /\ x = <<>>
  \/ \E m \in Frames : \E v, y : Written(v, y) /\ w = ChunkOf(m) \o v /\ x = m \o y

\* Every row of chunks is one of these.
LEMMA FirstWritten ==
  ASSUME NEW w, NEW x, Written(w, x)
  PROVE  ChunkAhead(w, x)
<1> DEFINE Good(a, b) ==
             \/ a = <<>> /\ b = <<>>
             \/ \E m \in Frames : \E v, y : Written(v, y) /\ a = ChunkOf(m) \o v /\ b = m \o y
           P == {p \in Seq(Byte) \X Seq(Byte) : Good(p[1], p[2])}
<1>0. \A a, b : <<a, b>> \in P <=> a \in Seq(Byte) /\ b \in Seq(Byte) /\ Good(a, b)
  <2> HIDE DEF Good
  <2> QED  OBVIOUS
<1>1. <<<<>>, <<>>>> \in P
  <2>1. <<>> \in Seq(Byte)  OBVIOUS
  <2> HIDE DEF P
  <2> QED  BY <1>0, <2>1, Zenon
<1>2. ASSUME NEW a \in Seq(Byte), NEW b \in Seq(Byte), NEW m \in Frames, <<a, b>> \in P
      PROVE  <<a \o ChunkOf(m), b \o m>> \in P
  <2>0. m \in Seq(Byte) /\ ChunkOf(m) \in Seq(Byte)  BY ChunkIs, Zenon
  <2>1. a \o ChunkOf(m) \in Seq(Byte) /\ b \o m \in Seq(Byte)  BY <2>0, BytesJoin, Zenon
  <2>2. CASE a = <<>> /\ b = <<>>
    <3>1. a \o ChunkOf(m) = ChunkOf(m) \o <<>> /\ b \o m = m \o <<>>  BY <2>0, <2>2, BytesUnit, Zenon
    <3>2. Good(a \o ChunkOf(m), b \o m)  BY <3>1, WrittenRules, Zenon
    <3> HIDE DEF P, Good
    <3> QED  BY <1>0, <2>1, <3>2, Zenon
  <2>3. ASSUME NEW k \in Frames, NEW v, NEW y, Written(v, y), a = ChunkOf(k) \o v, b = k \o y
        PROVE  <<a \o ChunkOf(m), b \o m>> \in P
    <3>0. v \in Seq(Byte) /\ y \in Seq(Byte)  BY <2>3, Zenon DEF Written
    <3>1. k \in Seq(Byte) /\ ChunkOf(k) \in Seq(Byte)  BY ChunkIs, Zenon
    <3>2. Regroups(ChunkOf(k), v, ChunkOf(m))  BY <2>0, <3>0, <3>1, Regroup, Zenon
    <3>3. Regroups(k, y, m)  BY <2>0, <3>0, <3>1, Regroup, Zenon
    <3>4. Written(v \o ChunkOf(m), y \o m)  BY <2>3, WrittenRules, Zenon
    <3>5. Good(a \o ChunkOf(m), b \o m)  BY <2>3, <3>2, <3>3, <3>4, Zenon DEF Regroups
    <3> HIDE DEF P, Good
    <3> QED  BY <1>0, <2>1, <3>5, Zenon
  <2>4. Good(a, b)
    <3> HIDE DEF P, Good
    <3> QED  BY <1>0, <1>2, Zenon
  <2> HIDE DEF P
  <2> QED  BY <2>2, <2>3, <2>4, Zenon
<1>3. Chunking(P)
  <2> HIDE DEF P
  <2> QED  BY <1>1, <1>2, Zenon DEF Chunking
<1>4. <<w, x>> \in P
  <2> HIDE DEF P
  <2> QED  BY <1>3, Zenon DEF Written
<1>5. Good(w, x)
  <2> HIDE DEF P, Good
  <2> QED  BY <1>0, <1>4, Zenon
<1> HIDE DEF P
<1> QED  BY <1>5, Zenon DEF ChunkAhead

-----------------------------------------------------------------------------
(* Trailers.                                                               *)

\* The lines of fields are bytes.
LEMMA LinesAreBytes == \A k \in Nat : FieldLines(k) \in Seq(Byte)
<1> SUFFICES ASSUME NEW k \in Nat PROVE FieldLines(k) \in Seq(Byte)  OBVIOUS
<1>1. PICK c, l, o, B : c = Cr /\ l = Lf /\ o = Other /\ B = Byte  OBVIOUS
<1>2. c \in B /\ l \in B /\ o \in B  BY <1>1, ByteFacts
<1>3. \A i \in 1 .. 3 * k : (i % 3) + 1 \in 1 .. 3  OBVIOUS
<1>4. FieldLines(k) = [i \in 1 .. 3 * k |-> <<l, o, c>>[(i % 3) + 1]]  BY <1>1 DEF FieldLines
<1>5. \A j \in 1 .. 3 : <<l, o, c>>[j] \in B  BY <1>2
<1>6. FieldLines(k) \in [1 .. 3 * k -> B] /\ 3 * k \in Nat  BY <1>3, <1>4, <1>5
<1> QED  BY <1>1, <1>6

\* What is behind the last chunk when k fields are sent.
TailOf(k) == FieldLines(k) \o Crlf

\* Without fields it is an empty line; a field is a line in front of the others.
LEMMA TailRules ==
  /\ TailOf(0) = Crlf
  /\ \A k \in Nat : TailOf(k) \in Seq(Byte)
  /\ \A k \in Nat : TailOf(k + 1) = <<Other>> \o (Crlf \o TailOf(k))
<1>0. Cr \in Byte /\ Lf \in Byte /\ Other \in Byte /\ Crlf \in Seq(Byte)  BY ByteFacts, CrlfFacts
<1>1. PICK c, l, o, B : c = Cr /\ l = Lf /\ o = Other /\ B = Byte  OBVIOUS
<1>2. c \in B /\ l \in B /\ o \in B /\ Crlf \in Seq(B) /\ Crlf = <<c, l>>  BY <1>0, <1>1 DEF Crlf
<1>3. \A k \in Nat : FieldLines(k) = [i \in 1 .. 3 * k |-> <<l, o, c>>[(i % 3) + 1]]  BY <1>1 DEF FieldLines
<1>4. ASSUME NEW k \in Nat
      PROVE  /\ FieldLines(k) \in Seq(B) /\ Len(FieldLines(k)) = 3 * k
             /\ \A i \in 1 .. 3 * k : /\ i % 3 = 0 => FieldLines(k)[i] = l
                                      /\ i % 3 = 1 => FieldLines(k)[i] = o
                                      /\ i % 3 = 2 => FieldLines(k)[i] = c
  <2>1. \A i \in 1 .. 3 * k : i % 3 \in {0, 1, 2}  OBVIOUS
  <2>2. FieldLines(k) = [i \in 1 .. 3 * k |-> <<l, o, c>>[(i % 3) + 1]]  BY <1>3, Zenon
  <2>a. 3 * k \in Nat  OBVIOUS
  <2>3. \A i \in 1 .. 3 * k : /\ i % 3 = 0 => FieldLines(k)[i] = l
                              /\ i % 3 = 1 => FieldLines(k)[i] = o
                              /\ i % 3 = 2 => FieldLines(k)[i] = c
    BY <2>2
  <2>4. \A i \in 1 .. 3 * k : FieldLines(k)[i] \in B  BY <1>2, <2>1, <2>3
  <2>5. FieldLines(k) \in [1 .. 3 * k -> B]  BY <2>2, <2>4
  <2>6. FieldLines(k) \in Seq(B) /\ Len(FieldLines(k)) = 3 * k  BY <2>a, <2>5
  <2> QED  BY <2>3, <2>6
<1>5. FieldLines(0) = <<>>
  <2>1. FieldLines(0) \in Seq(B) /\ Len(FieldLines(0)) = 3 * 0  BY <1>4
  <2> QED  BY <2>1
<1>6. TailOf(0) = Crlf  BY <1>0, <1>5, BytesUnit, Zenon DEF TailOf
<1>7. \A k \in Nat : TailOf(k) \in Seq(Byte)  BY <1>0, <1>1, <1>4, BytesJoin DEF TailOf
<1>8. ASSUME NEW k \in Nat PROVE TailOf(k + 1) = <<Other>> \o (Crlf \o TailOf(k))
  <2> DEFINE u == FieldLines(k + 1)
             t == FieldLines(k)
             v == <<o>> \o (Crlf \o t)
  <2>1. k + 1 \in Nat /\ 3 * (k + 1) = 3 * k + 3 /\ 3 * k \in Nat  OBVIOUS
  <2>2. t \in Seq(B) /\ Len(t) = 3 * k
        /\ \A i \in 1 .. 3 * k : /\ i % 3 = 0 => t[i] = l
                                 /\ i % 3 = 1 => t[i] = o
                                 /\ i % 3 = 2 => t[i] = c
    BY <1>4
  <2>3. u \in Seq(B) /\ Len(u) = 3 * k + 3
        /\ \A i \in 1 .. 3 * k + 3 : /\ i % 3 = 0 => u[i] = l
                                     /\ i % 3 = 1 => u[i] = o
                                     /\ i % 3 = 2 => u[i] = c
    <3>1. /\ FieldLines(k + 1) \in Seq(B) /\ Len(FieldLines(k + 1)) = 3 * (k + 1)
          /\ \A i \in 1 .. 3 * (k + 1) :
               /\ i % 3 = 0 => FieldLines(k + 1)[i] = l
               /\ i % 3 = 1 => FieldLines(k + 1)[i] = o
               /\ i % 3 = 2 => FieldLines(k + 1)[i] = c
      BY <1>4, <2>1
    <3> QED  BY <2>1, <3>1
  <2> HIDE DEF u, t
  <2>4. v \in Seq(B) /\ Len(v) = 3 * k + 3 /\ v[1] = o /\ v[2] = c /\ v[3] = l
        /\ \A i \in 4 .. 3 * k + 3 : v[i] = t[i - 3]
    BY <1>2, <2>1, <2>2
  <2>5. ASSUME NEW i \in 1 .. 3 * k + 3 PROVE u[i] = v[i]
    <3>0. i \in Nat /\ 3 * k \in Nat  BY <2>1
    <3>1. CASE i = 1
      <4>1. i % 3 = 1  BY <3>1
      <4> HIDE DEF v
      <4> QED  BY <2>3, <2>4, <3>1, <4>1
    <3>2. CASE i = 2
      <4>1. i % 3 = 2  BY <3>2
      <4> HIDE DEF v
      <4> QED  BY <2>3, <2>4, <3>2, <4>1
    <3>3. CASE i = 3
      <4>1. i % 3 = 0  BY <3>3
      <4> HIDE DEF v
      <4> QED  BY <2>3, <2>4, <3>3, <4>1
    <3>4. CASE i > 3
      <4>1. i \in 4 .. 3 * k + 3 /\ i - 3 \in 1 .. 3 * k  BY <2>1, <3>4
      <4>2. (i - 3) % 3 = i % 3 /\ i % 3 \in {0, 1, 2}  BY <3>0, <3>4
      <4> HIDE DEF v
      <4>3. v[i] = t[i - 3]  BY <2>4, <4>1
      <4>4. CASE i % 3 = 0  BY <2>2, <2>3, <4>1, <4>2, <4>3, <4>4
      <4>5. CASE i % 3 = 1  BY <2>2, <2>3, <4>1, <4>2, <4>3, <4>5
      <4>6. CASE i % 3 = 2  BY <2>2, <2>3, <4>1, <4>2, <4>3, <4>6
      <4> QED  BY <4>2, <4>4, <4>5, <4>6
    <3>5. i = 1 \/ i = 2 \/ i = 3 \/ i > 3  OBVIOUS
    <3> HIDE DEF v
    <3> QED  BY <3>5, <3>1, <3>2, <3>3, <3>4, Zenon
  <2>6. u = v
    <3> HIDE DEF v
    <3> QED  BY <2>3, <2>4, <2>5
  <2>7. <<o>> \in Seq(Byte) /\ t \in Seq(Byte) /\ Crlf \o t \in Seq(Byte)  BY <1>1, <1>2, <2>2
  <2>8. (<<o>> \o (Crlf \o t)) \o Crlf = <<o>> \o ((Crlf \o t) \o Crlf)  BY <1>0, <2>7, BytesAssoc, Zenon
  <2>9. (Crlf \o t) \o Crlf = Crlf \o (t \o Crlf)  BY <1>0, <2>7, BytesAssoc, Zenon
  <2>10. TailOf(k + 1) = u \o Crlf /\ TailOf(k) = t \o Crlf  BY Zenon DEF TailOf, u, t
  <2> HIDE DEF v
  <2>11. u = <<o>> \o (Crlf \o t)  BY <2>6 DEF v
  <2> QED  BY <1>1, <2>8, <2>9, <2>10, <2>11, Zenon
<1> QED  BY <1>6, <1>7, <1>8, Zenon

-----------------------------------------------------------------------------
(* The decoder on what the encoder writes.                                 *)

\* A decoder behind the last chunk, with n bytes and k lines of trailers.
DecEnd(state, n, k) == [state |-> state, size |-> 0, ext |-> 0, tlen |-> n, tcount |-> k]

\* What a byte does to it.
Reads(d, b) == DecodeTrailers(Step(d, b), TRUE)

\* The sizes and data of chunks, state by state.
LEMMA ReadsChunk ==
  /\ \A v \in Nat, b \in Digit : v * Radix + b <= MaxSize =>
       /\ Reads(Dec("Size", v), b) = Dec("Size", v * Radix + b)
       /\ v = 0 => Reads(Dec("Start", v), b) = Dec("Size", v * Radix + b)
  /\ \A v \in Nat : Reads(Dec("Size", v), Cr) = Dec("SizeLf", v)
  /\ \A v \in Nat : v > 0 => Reads(Dec("SizeLf", v), Lf) = Dec("Body", v)
  /\ Reads(Dec("SizeLf", 0), Lf) = DecEnd("EndCr", 0, 0)
  /\ Reads(Dec("BodyCr", 0), Cr) = Dec("BodyLf", 0)
  /\ Reads(Dec("BodyLf", 0), Lf) = Dec("Start", 0)
<1>1. ASSUME NEW v \in Nat, NEW b \in Digit, v * Radix + b <= MaxSize
      PROVE  Reads(Dec("Size", v), b) = Dec("Size", v * Radix + b)
  <2>1. Step(Dec("Size", v), b) = Dec("Size", v * Radix + b)
    <3>1. PICK n : n = v * Radix + b  OBVIOUS
    <3>2. ~(n > MaxSize)  BY <1>1, <3>1, DigitPushed, ByteFacts
    <3>3. Step(Dec("Size", v), b) = Push(Dec("Size", v), b)  BY DEF Step, ReadSize, Dec
    <3>4. Push(Dec("Size", v), b) = Dec("Size", n)  BY <3>1, <3>2 DEF Push, Dec
    <3> QED  BY <3>1, <3>3, <3>4
  <2> QED  BY <2>1 DEF Reads, DecodeTrailers, Dec
<1>2. ASSUME NEW b \in Digit, 0 * Radix + b <= MaxSize
      PROVE  Reads(Dec("Start", 0), b) = Dec("Size", 0 * Radix + b)
  <2>1. Step(Dec("Start", 0), b) = Dec("Size", 0 * Radix + b)
    <3>1. PICK n : n = 0 * Radix + b  OBVIOUS
    <3>2. ~(n > MaxSize)  BY <1>2, <3>1, DigitPushed, ByteFacts
    <3>3. Step(Dec("Start", 0), b) = Push(Dec("Start", 0), b)  BY DEF Step, ReadStart, Dec
    <3>4. Push(Dec("Start", 0), b) = Dec("Size", n)  BY <3>1, <3>2 DEF Push, Dec
    <3> QED  BY <3>1, <3>3, <3>4
  <2> QED  BY <2>1 DEF Reads, DecodeTrailers, Dec
<1>3. ASSUME NEW v \in Nat PROVE Reads(Dec("Size", v), Cr) = Dec("SizeLf", v)
  <2>1. Cr \notin Digit /\ Cr # Ws /\ Cr # Semi  BY ByteFacts
  <2>2. Step(Dec("Size", v), Cr) = ReadSizeLws(Dec("Size", v), Cr)  BY <2>1 DEF Step, ReadSize, Dec
  <2>3. ReadSizeLws(Dec("Size", v), Cr) = Dec("SizeLf", v)  BY <2>1 DEF ReadSizeLws, Goto, Dec
  <2> QED  BY <2>2, <2>3 DEF Reads, DecodeTrailers, Dec
<1>4. ASSUME NEW v \in Nat, v > 0 PROVE Reads(Dec("SizeLf", v), Lf) = Dec("Body", v)
  <2>1. Step(Dec("SizeLf", v), Lf) = Dec("Body", v)  BY <1>4 DEF Step, ReadSizeLf, Goto, Dec
  <2> QED  BY <2>1 DEF Reads, DecodeTrailers, Dec
<1>5. Reads(Dec("SizeLf", 0), Lf) = DecEnd("EndCr", 0, 0)
  <2>1. Step(Dec("SizeLf", 0), Lf) = DecEnd("EndCr", 0, 0)  BY DEF Step, ReadSizeLf, Goto, Dec, DecEnd
  <2> QED  BY <2>1 DEF Reads, DecodeTrailers, DecEnd
<1>6. Reads(Dec("BodyCr", 0), Cr) = Dec("BodyLf", 0)
  <2>1. Step(Dec("BodyCr", 0), Cr) = Dec("BodyLf", 0)  BY DEF Step, ReadBodyCr, Goto, Dec
  <2> QED  BY <2>1 DEF Reads, DecodeTrailers, Dec
<1>7. Reads(Dec("BodyLf", 0), Lf) = Dec("Start", 0)
  <2>1. Step(Dec("BodyLf", 0), Lf) = Dec("Start", 0)  BY DEF Step, ReadBodyLf, Goto, Dec
  <2> QED  BY <2>1 DEF Reads, DecodeTrailers, Dec
<1> QED  BY <1>1, <1>2, <1>3, <1>4, <1>5, <1>6, <1>7

\* A slice of a chunk, and of a body with a length.
LEMMA ReadsSlice ==
  ASSUME NEW a \in Nat, NEW n \in Nat
  PROVE  /\ n < a => /\ ReadBody(Dec("Body", a), n) = Dec("Body", a - n)
                     /\ ReadLength(Dec("Length", a), n) = Dec("Length", a - n)
         /\ ~(n < a) /\ a - n = 0 => /\ ReadBody(Dec("Body", a), n) = Dec("BodyCr", 0)
                                     /\ ReadLength(Dec("Length", a), n) = Dec("End", 0)
<1>2. Dec("Body", a).size = a /\ Dec("Length", a).size = a  BY DEF Dec
<1>3. ReadBody(Dec("Body", a), n) = Dec(IF n < a THEN "Body" ELSE "BodyCr", a - n)
  <2>1. CASE n < a
    <3>1. ReadBody(Dec("Body", a), n) = [Dec("Body", a) EXCEPT !.size = @ - n, !.state = "Body"]  BY <1>2, <2>1, Zenon DEF ReadBody
    <3>2. (IF n < a THEN [Dec("Body", a) EXCEPT !.size = @ - n, !.state = "Body"] ELSE Dec("Body", a - n)) = Dec("Body", a - n)  BY DEF Dec
    <3> QED  BY <2>1, <3>1, <3>2, Zenon
  <2>2. CASE ~(n < a)
    <3>1. ReadBody(Dec("Body", a), n) = [Dec("Body", a) EXCEPT !.size = @ - n, !.state = "BodyCr"]  BY <1>2, <2>2, Zenon DEF ReadBody
    <3>2. (IF ~(n < a) THEN [Dec("Body", a) EXCEPT !.size = @ - n, !.state = "BodyCr"] ELSE Dec("BodyCr", a - n)) = Dec("BodyCr", a - n)  BY DEF Dec
    <3> QED  BY <2>2, <3>1, <3>2, Zenon
  <2> QED  BY <2>1, <2>2
<1>4. ReadLength(Dec("Length", a), n) = Dec(IF n < a THEN "Length" ELSE "End", a - n)
  <2>1. CASE n < a
    <3>1. ReadLength(Dec("Length", a), n) = [Dec("Length", a) EXCEPT !.size = @ - n, !.state = "Length"]  BY <1>2, <2>1, Zenon DEF ReadLength
    <3>2. (IF n < a THEN [Dec("Length", a) EXCEPT !.size = @ - n, !.state = "Length"] ELSE Dec("Length", a - n)) = Dec("Length", a - n)  BY DEF Dec
    <3> QED  BY <2>1, <3>1, <3>2, Zenon
  <2>2. CASE ~(n < a)
    <3>1. ReadLength(Dec("Length", a), n) = [Dec("Length", a) EXCEPT !.size = @ - n, !.state = "End"]  BY <1>2, <2>2, Zenon DEF ReadLength
    <3>2. (IF ~(n < a) THEN [Dec("Length", a) EXCEPT !.size = @ - n, !.state = "End"] ELSE Dec("End", a - n)) = Dec("End", a - n)  BY DEF Dec
    <3> QED  BY <2>2, <3>1, <3>2, Zenon
  <2> QED  BY <2>1, <2>2
<1> QED  BY <1>3, <1>4, Zenon

\* The bytes of trailers_buf when its k lines and n more are in it.
BufferedTrailers(k, n) == IF k = 0 THEN 0 ELSE 3 * k + n

\* The trailers, state by state: there is room for all of them.
LEMMA ReadsTail ==
  ASSUME NEW k \in Nat, k < MaxHeaders, 3 * k + 2 < TrailerLimit
  PROVE  /\ \A j \in 0 .. k : j < k =>
              /\ Reads(DecEnd("EndCr", 3 * j, j), Other) = DecEnd("Trailer", 3 * j + 1, j)
              /\ Reads(DecEnd("Trailer", 3 * j + 1, j), Cr) = DecEnd("TrailerLf", 3 * j + 2, j)
              /\ Reads(DecEnd("TrailerLf", 3 * j + 2, j), Lf) = DecEnd("EndCr", 3 * (j + 1), j + 1)
         /\ Reads(DecEnd("EndCr", 3 * k, k), Cr) = DecEnd("EndLf", BufferedTrailers(k, 1), k)
         /\ Reads(DecEnd("EndLf", BufferedTrailers(k, 1), k), Lf) = DecEnd("End", BufferedTrailers(k, 2), k)
<1>0. TrailerLimit \in Nat /\ MaxHeaders \in Nat /\ Other # Cr  BY DecoderAssumption, ByteFacts
<1>1. ASSUME NEW j \in 0 .. k, j < k
      PROVE  Reads(DecEnd("EndCr", 3 * j, j), Other) = DecEnd("Trailer", 3 * j + 1, j)
  <2>1. PICK n : n = 3 * j  OBVIOUS
  <2>2. n \in Nat /\ ~(n + 1 >= TrailerLimit) /\ (~(n > 0) => n = 0)  BY <1>0, <1>1, <2>1
  <2>3. Step(DecEnd("EndCr", n, j), Other) = ReadEndCr(DecEnd("EndCr", n, j), Other)  BY DEF Step, DecEnd
  <2>4. ReadEndCr(DecEnd("EndCr", n, j), Other) = DecEnd("Trailer", n + 1, j)
    <3>1. CASE n > 0  BY <1>0, <2>2, <3>1 DEF ReadEndCr, PutU8, DecEnd
    <3>2. CASE ~(n > 0)
      <4>1. n = 0 /\ n + 1 = 1  BY <2>2, <3>2
      <4> QED  BY <1>0, <3>2, <4>1 DEF ReadEndCr, DecEnd
    <3> QED  BY <3>1, <3>2
  <2>5. Reads(DecEnd("EndCr", n, j), Other) = DecEnd("Trailer", n + 1, j)
    BY <2>3, <2>4 DEF Reads, DecodeTrailers, DecEnd
  <2> QED  BY <2>1, <2>5, Zenon
<1>2. ASSUME NEW j \in 0 .. k, j < k
      PROVE  Reads(DecEnd("Trailer", 3 * j + 1, j), Cr) = DecEnd("TrailerLf", 3 * j + 2, j)
  <2>1. PICK n : n = 3 * j + 1  OBVIOUS
  <2>2. n \in Nat /\ ~(n + 1 >= TrailerLimit) /\ n + 1 = 3 * j + 2  BY <1>0, <1>2, <2>1
  <2>3. Step(DecEnd("Trailer", n, j), Cr) = DecEnd("TrailerLf", n + 1, j)
    BY <2>2 DEF Step, ReadTrailer, PutU8, DecEnd
  <2>4. Reads(DecEnd("Trailer", n, j), Cr) = DecEnd("TrailerLf", n + 1, j)
    BY <2>3 DEF Reads, DecodeTrailers, DecEnd
  <2> QED  BY <2>1, <2>2, <2>4, Zenon
<1>3. ASSUME NEW j \in 0 .. k, j < k
      PROVE  Reads(DecEnd("TrailerLf", 3 * j + 2, j), Lf) = DecEnd("EndCr", 3 * (j + 1), j + 1)
  <2>1. PICK n : n = 3 * j + 2  OBVIOUS
  <2>2. n \in Nat /\ ~(n + 1 >= TrailerLimit) /\ n + 1 = 3 * (j + 1) /\ ~(j >= MaxHeaders)  BY <1>0, <1>3, <2>1
  <2>3. Step(DecEnd("TrailerLf", n, j), Lf) = DecEnd("EndCr", n + 1, j + 1)
    BY <2>2 DEF Step, ReadTrailerLf, PutU8, DecEnd
  <2>4. Reads(DecEnd("TrailerLf", n, j), Lf) = DecEnd("EndCr", n + 1, j + 1)
    BY <2>3 DEF Reads, DecodeTrailers, DecEnd
  <2> QED  BY <2>1, <2>2, <2>4, Zenon
<1>4. Reads(DecEnd("EndCr", 3 * k, k), Cr) = DecEnd("EndLf", BufferedTrailers(k, 1), k)
  <2>1. PICK n : n = 3 * k  OBVIOUS
  <2>2. n \in Nat /\ ~(n + 1 >= TrailerLimit) /\ (n > 0 => BufferedTrailers(k, 1) = n + 1)
        /\ (~(n > 0) => n = 0 /\ BufferedTrailers(k, 1) = 0)
    BY <1>0, <2>1 DEF BufferedTrailers
  <2>3. Step(DecEnd("EndCr", n, k), Cr) = ReadEndCr(DecEnd("EndCr", n, k), Cr)  BY DEF Step, DecEnd
  <2>4. ReadEndCr(DecEnd("EndCr", n, k), Cr) = DecEnd("EndLf", BufferedTrailers(k, 1), k)
    BY <2>2 DEF ReadEndCr, PutU8, DecEnd
  <2>5. Reads(DecEnd("EndCr", n, k), Cr) = DecEnd("EndLf", BufferedTrailers(k, 1), k)
    BY <2>3, <2>4 DEF Reads, DecodeTrailers, DecEnd
  <2> QED  BY <2>1, <2>5, Zenon
<1>5. Reads(DecEnd("EndLf", BufferedTrailers(k, 1), k), Lf) = DecEnd("End", BufferedTrailers(k, 2), k)
  <2>1. PICK n : n = BufferedTrailers(k, 1)  OBVIOUS
  <2>2. n \in Nat /\ ~(n + 1 >= TrailerLimit) /\ (n > 0 => BufferedTrailers(k, 2) = n + 1)
        /\ (~(n > 0) => n = 0 /\ BufferedTrailers(k, 2) = 0) /\ ~(k >= MaxHeaders)
    BY <1>0, <2>1 DEF BufferedTrailers
  <2>3. Step(DecEnd("EndLf", n, k), Lf) = ReadEndLf(DecEnd("EndLf", n, k), Lf)  BY DEF Step, DecEnd
  <2>4. ReadEndLf(DecEnd("EndLf", n, k), Lf) = DecEnd("End", BufferedTrailers(k, 2), k)
    BY <2>2 DEF ReadEndLf, PutU8, Goto, DecEnd
  <2>5. Reads(DecEnd("EndLf", n, k), Lf) = DecEnd("End", BufferedTrailers(k, 2), k)
    BY <2>2, <2>3, <2>4 DEF Reads, DecodeTrailers, DecEnd
  <2> QED  BY <2>1, <2>5, Zenon
<1> QED  BY <1>1, <1>2, <1>3, <1>4, <1>5, Zenon

\* The decoder is in a chunk, or between two: cur is left of it, with the data x.
Within(d, cur, x) ==
  /\ x \in Seq(Byte) /\ Len(x) <= MaxSize
  /\ \/ d = Dec("Start", 0) /\ x = <<>> /\ cur = <<>>
     \/ \E v, ds : /\ d = Dec("Size", v) /\ x # <<>> /\ Spelt(v, ds, Len(x))
                   /\ cur = ds \o (Crlf \o (x \o Crlf))
     \/ d = Dec("SizeLf", Len(x)) /\ x # <<>> /\ cur = <<Lf>> \o (x \o Crlf)
     \/ d = Dec("Body", Len(x)) /\ x # <<>> /\ cur = x \o Crlf
     \/ d = Dec("BodyCr", 0) /\ x = <<>> /\ cur = Crlf
     \/ d = Dec("BodyLf", 0) /\ x = <<>> /\ cur = <<Lf>>

\* The decoder is behind the 0 of the last chunk: cur is left, with k fields in all.
AtEnd(d, cur, k) ==
  \/ d = Dec("Size", 0) /\ cur = Crlf \o TailOf(k)
  \/ d = Dec("SizeLf", 0) /\ cur = <<Lf>> \o TailOf(k)
  \/ \E j \in 0 .. k : d = DecEnd("EndCr", 3 * j, j) /\ cur = TailOf(k - j)
  \/ \E j \in 0 .. k : j < k /\ d = DecEnd("Trailer", 3 * j + 1, j) /\ cur = Crlf \o TailOf(k - (j + 1))
  \/ \E j \in 0 .. k : j < k /\ d = DecEnd("TrailerLf", 3 * j + 2, j) /\ cur = <<Lf>> \o TailOf(k - (j + 1))
  \/ d = DecEnd("EndLf", BufferedTrailers(k, 1), k) /\ cur = <<Lf>>
  \/ d = DecEnd("End", BufferedTrailers(k, 2), k) /\ cur = <<>>

\* Digits are bytes.
LEMMA DigitsAreBytes == \A ds \in Seq(Digit) : ds \in Seq(Byte)
<1> SUFFICES ASSUME NEW ds \in Seq(Digit) PROVE ds \in Seq(Byte)  OBVIOUS
<1>1. Digit \subseteq Byte  BY ByteFacts
<1>2. ds \in [1 .. Len(ds) -> Digit] /\ Len(ds) \in Nat  OBVIOUS
<1>3. ds \in [1 .. Len(ds) -> Byte]  BY <1>1, <1>2
<1> QED  BY <1>2, <1>3

\* What is left of a chunk is bytes, and the states tell how the decoder reads on.
LEMMA WithinFacts ==
  ASSUME NEW d, NEW cur, NEW x, Within(d, cur, x)
  PROVE  /\ cur \in Seq(Byte) /\ x \in Seq(Byte)
         /\ d.state \in ByteStates \cup {"Body"}
         /\ d.state = "Start" => d = Dec("Start", 0) /\ cur = <<>> /\ x = <<>>
         /\ d.state = "Body" => d = Dec("Body", Len(x)) /\ x # <<>> /\ cur = x \o Crlf
         /\ d.state # "Start" => cur # <<>>
<1>0. x \in Seq(Byte) /\ Crlf \in Seq(Byte) /\ <<Lf>> \in Seq(Byte) /\ Crlf # <<>> /\ <<Lf>> # <<>> /\ <<>> \in Seq(Byte)
  BY CrlfFacts, Zenon DEF Within
<1>1. x \o Crlf \in Seq(Byte)  BY <1>0, BytesJoin, Zenon
<1>2. Crlf \o (x \o Crlf) \in Seq(Byte) /\ <<Lf>> \o (x \o Crlf) \in Seq(Byte)  BY <1>0, <1>1, BytesJoin, Zenon
<1>3. x \o Crlf # <<>> /\ Crlf \o (x \o Crlf) # <<>> /\ <<Lf>> \o (x \o Crlf) # <<>>
  <2>1. PICK B : B = Byte  OBVIOUS
  <2>2. PICK c, l : c = Crlf /\ l = <<Lf>>  OBVIOUS
  <2>3. x \in Seq(B) /\ c \in Seq(B) /\ c # <<>> /\ l \in Seq(B) /\ l # <<>>  BY <1>0, <2>1, <2>2
  <2>4. x \o c # <<>> /\ c \o (x \o c) # <<>> /\ l \o (x \o c) # <<>>  BY <2>3
  <2> QED  BY <2>2, <2>4
<1>4. CASE d = Dec("Start", 0) /\ x = <<>> /\ cur = <<>>
  BY <1>0, <1>4 DEF Dec, ByteStates
<1>5. ASSUME NEW v, NEW ds, d = Dec("Size", v), Spelt(v, ds, Len(x)), cur = ds \o (Crlf \o (x \o Crlf))
      PROVE  cur \in Seq(Byte) /\ cur # <<>> /\ d.state = "Size"
  <2>1. ds \in Seq(Byte)  BY <1>5, SpeltFirst, DigitsAreBytes
  <2>2. PICK B, c : B = Byte /\ c = Crlf \o (x \o Crlf)  OBVIOUS
  <2>3. ds \in Seq(B) /\ c \in Seq(B) /\ c # <<>>  BY <1>2, <1>3, <2>1, <2>2
  <2>4. ds \o c \in Seq(B) /\ ds \o c # <<>>  BY <2>3
  <2> QED  BY <1>5, <2>2, <2>4 DEF Dec
<1>6. CASE d = Dec("SizeLf", Len(x)) /\ x # <<>> /\ cur = <<Lf>> \o (x \o Crlf)
  <2>1. d.state = "SizeLf"  BY <1>6 DEF Dec
  <2> QED  BY <1>0, <1>2, <1>3, <1>6, <2>1 DEF ByteStates
<1>7. CASE d = Dec("Body", Len(x)) /\ x # <<>> /\ cur = x \o Crlf
  <2>1. d.state = "Body"  BY <1>7 DEF Dec
  <2> QED  BY <1>0, <1>1, <1>3, <1>7, <2>1 DEF ByteStates
<1>8. CASE d = Dec("BodyCr", 0) /\ x = <<>> /\ cur = Crlf
  <2>1. d.state = "BodyCr"  BY <1>8 DEF Dec
  <2> QED  BY <1>0, <1>8, <2>1 DEF ByteStates
<1>9. CASE d = Dec("BodyLf", 0) /\ x = <<>> /\ cur = <<Lf>>
  <2>1. d.state = "BodyLf"  BY <1>9 DEF Dec
  <2> QED  BY <1>0, <1>9, <2>1 DEF ByteStates
<1>10. CASE \E v, ds : d = Dec("Size", v) /\ x # <<>> /\ Spelt(v, ds, Len(x)) /\ cur = ds \o (Crlf \o (x \o Crlf))
  <2>1. cur \in Seq(Byte) /\ cur # <<>> /\ d.state = "Size"  BY <1>5, <1>10, Zenon
  <2> QED  BY <1>0, <2>1 DEF ByteStates
<1> QED  BY <1>4, <1>6, <1>7, <1>8, <1>9, <1>10, Zenon DEF Within

\* The next byte of a chunk is the one the decoder expects.
LEMMA WithinStep ==
  ASSUME NEW d, NEW cur, NEW x, Within(d, cur, x), d.state \notin {"Start", "Body"}
  PROVE  Within(Reads(d, cur[1]), Tail(cur), x)
<1>0. x \in Seq(Byte) /\ Len(x) \in Nat /\ Len(x) <= MaxSize /\ Crlf \in Seq(Byte)
  <2>1. x \in Seq(Byte) /\ Len(x) <= MaxSize /\ Crlf \in Seq(Byte)  BY CrlfFacts, Zenon DEF Within
  <2> QED  BY <2>1
<1>1. x \o Crlf \in Seq(Byte) /\ Crlf \o (x \o Crlf) \in Seq(Byte)  BY <1>0, BytesJoin, Zenon
<1>2. ASSUME NEW v, NEW ds, d = Dec("Size", v), x # <<>>, Spelt(v, ds, Len(x)), cur = ds \o (Crlf \o (x \o Crlf))
      PROVE  Within(Reads(d, cur[1]), Tail(cur), x)
  <2>0. v \in Nat /\ ds \in Seq(Digit) /\ ds \in Seq(Byte)  BY <1>2, SpeltFirst, DigitsAreBytes
  <2>1. CASE ds = <<>>
    <3>1. v = Len(x)  BY <1>2, <2>1, SpeltFirst, Zenon
    <3>2. cur = Crlf \o (x \o Crlf)  BY <1>1, <1>2, <2>1, BytesUnit, Zenon
    <3>3. cur[1] = Crlf[1] /\ Tail(cur) = Tail(Crlf) \o (x \o Crlf)  BY <1>0, <1>1, <3>2, FirstOf, CrlfFacts
    <3>4. cur[1] = Cr /\ Tail(cur) = <<Lf>> \o (x \o Crlf)  BY <3>3, CrlfFacts, Zenon
    <3>5. Reads(d, Cr) = Dec("SizeLf", Len(x))  BY <1>2, <2>0, <3>1, ReadsChunk, Zenon
    <3> QED  BY <1>0, <1>2, <3>4, <3>5, Zenon DEF Within
  <2>2. CASE ds # <<>>
    <3> DEFINE b == ds[1]
    <3>1. b \in Digit /\ Tail(ds) \in Seq(Digit) /\ Spelt(v * Radix + b, Tail(ds), Len(x))  BY <1>2, <2>2, SpeltFirst, Zenon
    <3>2. cur[1] = b /\ Tail(cur) = Tail(ds) \o (Crlf \o (x \o Crlf))
      <4>1. PICK r : r = Crlf \o (x \o Crlf)  OBVIOUS
      <4>2. r \in Seq(Byte)  BY <1>1, <4>1
      <4>3. (ds \o r)[1] = ds[1] /\ Tail(ds \o r) = Tail(ds) \o r  BY <2>0, <2>2, <4>2, FirstOf
      <4> QED  BY <1>2, <4>1, <4>3, Zenon
    <3> HIDE DEF b
    <3>3. v * Radix + b <= Len(x) /\ v * Radix + b \in Nat  BY <3>1, SpeltFirst, Zenon
    <3>4. v * Radix + b <= MaxSize  BY <1>0, <3>3, ByteFacts
    <3>5. Reads(d, b) = Dec("Size", v * Radix + b)  BY <1>2, <2>0, <3>1, <3>4, ReadsChunk, Zenon
    <3> QED  BY <1>0, <1>2, <3>1, <3>2, <3>5, Zenon DEF Within
  <2> QED  BY <2>1, <2>2
<1>3. CASE d = Dec("SizeLf", Len(x)) /\ x # <<>> /\ cur = <<Lf>> \o (x \o Crlf)
  <2>1. Len(x) > 0  BY <1>0, <1>3
  <2>2. cur[1] = Lf /\ Tail(cur) = x \o Crlf  BY <1>1, <1>3, OneInFront, ByteFacts, SMTT(30)
  <2>3. Reads(d, Lf) = Dec("Body", Len(x))  BY <1>0, <1>3, <2>1, ReadsChunk, Zenon
  <2> QED  BY <1>0, <1>3, <2>2, <2>3, Zenon DEF Within
<1>4. CASE d = Dec("BodyCr", 0) /\ x = <<>> /\ cur = Crlf
  <2>1. cur[1] = Cr /\ Tail(cur) = <<Lf>>  BY <1>4, CrlfFacts, Zenon
  <2>2. Reads(d, Cr) = Dec("BodyLf", 0)  BY <1>4, ReadsChunk, Zenon
  <2> QED  BY <1>0, <1>4, <2>1, <2>2, Zenon DEF Within
<1>5. CASE d = Dec("BodyLf", 0) /\ x = <<>> /\ cur = <<Lf>>
  <2>1. cur[1] = Lf /\ Tail(cur) = <<>>  BY <1>5, CrlfFacts, Zenon
  <2>2. Reads(d, Lf) = Dec("Start", 0)  BY <1>5, ReadsChunk, Zenon
  <2> QED  BY <1>0, <1>5, <2>1, <2>2, Zenon DEF Within
<1>6. ~(d = Dec("Start", 0)) /\ ~(d = Dec("Body", Len(x)))  BY DEF Dec
<1> QED  BY <1>2, <1>3, <1>4, <1>5, <1>6, Zenon DEF Within

\* A chunk begins.
LEMMA ChunkStarts ==
  ASSUME NEW m \in Frames
  PROVE  Within(Reads(Dec("Start", 0), ChunkOf(m)[1]), Tail(ChunkOf(m)), m) /\ ChunkOf(m) # <<>>
<1>1. m \in Seq(Byte) /\ m # <<>> /\ Len(m) \in 1 .. MaxSize  BY ChunkIs, Zenon
<1>2. PICK ds \in Seq(Digit) : ds # <<>> /\ Spelt(0, ds, Len(m)) /\ ChunkOf(m) = ds \o (Crlf \o (m \o Crlf))
  BY ChunkIs, Zenon
<1>3. Len(m) \in Nat /\ Len(m) <= MaxSize /\ MaxSize \in Nat  BY <1>1, ByteFacts
<1>4. m \o Crlf \in Seq(Byte) /\ Crlf \o (m \o Crlf) \in Seq(Byte) /\ ds \in Seq(Byte)
  BY <1>1, CrlfFacts, BytesJoin, DigitsAreBytes, Zenon
<1> DEFINE b == ds[1]
           r == Crlf \o (m \o Crlf)
<1>5. b \in Digit /\ Tail(ds) \in Seq(Digit) /\ Spelt(0 * Radix + b, Tail(ds), Len(m))  BY <1>2, SpeltFirst, Zenon
<1>6. ChunkOf(m)[1] = b /\ Tail(ChunkOf(m)) = Tail(ds) \o r /\ ChunkOf(m) # <<>>
  <2>1. ChunkOf(m) = ds \o r /\ r \in Seq(Byte)  BY <1>2, <1>4
  <2> HIDE DEF r
  <2> QED  BY <1>2, <1>4, <2>1, FirstOf
<1> HIDE DEF b
<1>7. 0 * Radix + b <= Len(m) /\ 0 * Radix + b \in Nat  BY <1>5, SpeltFirst, Zenon
<1>8. 0 * Radix + b <= MaxSize  BY <1>3, <1>7
<1>9. Reads(Dec("Start", 0), b) = Dec("Size", 0 * Radix + b)
  <2>1. 0 \in Nat  OBVIOUS
  <2> QED  BY <1>5, <1>8, <2>1, ReadsChunk, Zenon
<1> QED  BY <1>1, <1>3, <1>5, <1>6, <1>9, Zenon DEF Within

\* A slice of the data of a chunk is taken.
LEMMA WithinSlice ==
  ASSUME NEW d, NEW cur, NEW x, Within(d, cur, x), d.state = "Body", NEW n \in 1 .. d.size
  PROVE  /\ n \in 1 .. Len(x) /\ n \in 1 .. Len(cur)
         /\ SubSeq(cur, 1, n) = SubSeq(x, 1, n)
         /\ Within(ReadBody(d, n), SubSeq(cur, n + 1, Len(cur)), SubSeq(x, n + 1, Len(x)))
<1>0. d = Dec("Body", Len(x)) /\ x # <<>> /\ cur = x \o Crlf /\ x \in Seq(Byte)  BY WithinFacts, Zenon
<1>1. Crlf \in Seq(Byte) /\ Len(x) \in Nat /\ Len(x) <= MaxSize /\ d.size = Len(x) /\ MaxSize \in Nat
  <2>1. Len(x) <= MaxSize  BY Zenon DEF Within
  <2> QED  BY <1>0, <2>1, CrlfFacts, ByteFacts DEF Dec
<1>2. n \in 1 .. Len(x) /\ n \in Nat  BY <1>1
<1> DEFINE y == SubSeq(x, n + 1, Len(x))
<1>a. PICK c, B : c = Crlf /\ B = Byte  OBVIOUS
<1>b. c \in Seq(B) /\ x \in Seq(B) /\ cur = x \o c /\ Len(c) = 2  BY <1>0, <1>1, <1>a, CrlfFacts
<1>3. /\ SubSeq(cur, 1, n) = SubSeq(x, 1, n) /\ SubSeq(cur, n + 1, Len(cur)) = y \o Crlf
      /\ y \in Seq(Byte) /\ Len(y) = Len(x) - n
  <2>1. /\ SubSeq(x \o c, 1, n) = SubSeq(x, 1, n)
        /\ SubSeq(x \o c, n + 1, Len(x \o c)) = SubSeq(x, n + 1, Len(x)) \o c
        /\ SubSeq(x, n + 1, Len(x)) \in Seq(B) /\ Len(SubSeq(x, n + 1, Len(x))) = Len(x) - n
    <3>1. c \in Seq(B) /\ x \in Seq(B)  BY <1>b
    <3>2. Fronts(B, x, c, n)  BY <1>2, <3>1, FrontOf
    <3> QED  BY <3>2, Zenon DEF Fronts
  <2> QED  BY <1>a, <1>b, <2>1, Zenon
<1>4. Len(cur) = Len(x) + 2
  <2>1. c \in Seq(B) /\ x \in Seq(B)  BY <1>b
  <2>2. Len(x \o c) = Len(x) + Len(c)  BY <2>1
  <2> QED  BY <1>b, <2>2
<1> HIDE DEF y
<1>5. n \in 1 .. Len(cur) /\ Len(y) <= MaxSize /\ Len(y) \in Nat  BY <1>1, <1>2, <1>3, <1>4
<1>6. CASE n < Len(x)
  <2>1. Len(y) > 0 /\ y # <<>>  BY <1>1, <1>2, <1>3, <1>6
  <2>2. ReadBody(d, n) = Dec("Body", Len(y))
    <3>1. PICK a, e : a = Len(x) /\ e = Len(y)  OBVIOUS
    <3>2. d = Dec("Body", a) /\ e = a - n /\ n < a  BY <1>0, <1>3, <1>6, <3>1
    <3>3. a \in Nat /\ n \in Nat  BY <1>1, <1>2, <3>1
    <3>4. ReadBody(d, n) = Dec("Body", e)  BY <3>2, <3>3, ReadsSlice, Zenon
    <3> QED  BY <3>1, <3>4
  <2>3. Within(ReadBody(d, n), y \o Crlf, y)  BY <1>3, <1>5, <2>1, <2>2, Zenon DEF Within
  <2> QED  BY <1>2, <1>3, <1>5, <2>3, Zenon DEF y
<1>7. CASE ~(n < Len(x))
  <2>1. Len(y) = 0 /\ Len(x) - n = 0  BY <1>1, <1>2, <1>3, <1>7
  <2>2. y = <<>>  BY <1>3, <2>1
  <2>3. ReadBody(d, n) = Dec("BodyCr", 0)
    <3>1. PICK a : a = Len(x)  OBVIOUS
    <3>2. d = Dec("Body", a) /\ a - n = 0 /\ ~(n < a)  BY <1>0, <1>7, <2>1, <3>1
    <3>3. a \in Nat /\ n \in Nat  BY <1>1, <1>2, <3>1
    <3> QED  BY <3>2, <3>3, ReadsSlice, Zenon
  <2>4. y \o Crlf = Crlf  BY <1>1, <2>2, BytesUnit, Zenon
  <2>5. Within(ReadBody(d, n), y \o Crlf, y)  BY <1>3, <1>5, <2>2, <2>3, <2>4, Zenon DEF Within
  <2> QED  BY <1>2, <1>3, <1>5, <2>5, Zenon DEF y
<1> QED  BY <1>6, <1>7

\* There is room for k fields.
RoomFor(k) == k \in Nat /\ k < MaxHeaders /\ 3 * k + 2 < TrailerLimit

\* What is left behind the last chunk is bytes, and only its end leaves nothing.
LEMMA AtEndFacts ==
  ASSUME NEW k, RoomFor(k), NEW d, NEW cur, AtEnd(d, cur, k)
  PROVE  /\ cur \in Seq(Byte)
         /\ d.state \in ByteStates \cup {"End"}
         /\ cur = <<>> <=> d.state = "End"
         /\ d.state = "End" => d.tcount = k
<1>0. k \in Nat  BY Zenon DEF RoomFor
<1>1. PICK c, l, B : c = Crlf /\ l = <<Lf>> /\ B = Byte  OBVIOUS
<1>2. c \in Seq(B) /\ c # <<>> /\ l \in Seq(B) /\ l # <<>> /\ <<>> \in Seq(B)  BY <1>1, CrlfFacts
<1>3. ASSUME NEW t \in Seq(B) PROVE c \o t \in Seq(B) /\ c \o t # <<>> /\ l \o t \in Seq(B) /\ l \o t # <<>>
  BY <1>2
<1>4. \A j \in Nat : TailOf(j) \in Seq(B)  BY <1>1, TailRules
<1>5. ASSUME NEW j \in Nat PROVE TailOf(j) # <<>>
  <2>1. CASE j = 0  BY <1>1, <1>2, <2>1, TailRules
  <2>2. CASE j # 0
    <3>1. PICK i \in Nat : j = i + 1
      <4>1. j - 1 \in Nat /\ j = (j - 1) + 1  BY <2>2
      <4> QED  BY <4>1
    <3>2. TailOf(i + 1) = <<Other>> \o (c \o TailOf(i))  BY <1>1, TailRules, Zenon
    <3>3. c \o TailOf(i) \in Seq(B) /\ Other \in B  BY <1>1, <1>3, <1>4, ByteFacts
    <3>4. <<Other>> \o (c \o TailOf(i)) # <<>>  BY <3>3, OneInFront, Zenon
    <3> QED  BY <3>1, <3>2, <3>4
  <2> QED  BY <2>1, <2>2
<1>6. CASE d = Dec("Size", 0) /\ cur = Crlf \o TailOf(k)
  <2>1. d.state = "Size"  BY <1>6 DEF Dec
  <2>2. cur \in Seq(B) /\ cur # <<>>  BY <1>0, <1>1, <1>3, <1>4, <1>6, Zenon
  <2> QED  BY <1>1, <2>1, <2>2 DEF ByteStates
<1>7. CASE d = Dec("SizeLf", 0) /\ cur = <<Lf>> \o TailOf(k)
  <2>1. d.state = "SizeLf"  BY <1>7 DEF Dec
  <2>2. cur \in Seq(B) /\ cur # <<>>  BY <1>0, <1>1, <1>3, <1>4, <1>7, Zenon
  <2> QED  BY <1>1, <2>1, <2>2 DEF ByteStates
<1>8. ASSUME NEW j \in 0 .. k, d = DecEnd("EndCr", 3 * j, j), cur = TailOf(k - j)
      PROVE  cur \in Seq(B) /\ cur # <<>> /\ d.state = "EndCr"
  <2>1. d.state = "EndCr"  BY <1>8 DEF DecEnd
  <2>2. k - j \in Nat  BY <1>0
  <2> QED  BY <1>4, <1>5, <1>8, <2>1, <2>2, Zenon
<1>9. ASSUME NEW j \in 0 .. k, j < k, d = DecEnd("Trailer", 3 * j + 1, j), cur = Crlf \o TailOf(k - (j + 1))
      PROVE  cur \in Seq(B) /\ cur # <<>> /\ d.state = "Trailer"
  <2>1. d.state = "Trailer"  BY <1>9 DEF DecEnd
  <2>2. k - (j + 1) \in Nat  BY <1>0, <1>9
  <2> QED  BY <1>1, <1>3, <1>4, <1>9, <2>1, <2>2, Zenon
<1>10. ASSUME NEW j \in 0 .. k, j < k, d = DecEnd("TrailerLf", 3 * j + 2, j), cur = <<Lf>> \o TailOf(k - (j + 1))
      PROVE  cur \in Seq(B) /\ cur # <<>> /\ d.state = "TrailerLf"
  <2>1. d.state = "TrailerLf"  BY <1>10 DEF DecEnd
  <2>2. k - (j + 1) \in Nat  BY <1>0, <1>10
  <2> QED  BY <1>1, <1>3, <1>4, <1>10, <2>1, <2>2, Zenon
<1>11. CASE d = DecEnd("EndLf", BufferedTrailers(k, 1), k) /\ cur = <<Lf>>
  <2>1. d.state = "EndLf"  BY <1>11 DEF DecEnd
  <2> QED  BY <1>1, <1>2, <1>11, <2>1 DEF ByteStates
<1>12. CASE d = DecEnd("End", BufferedTrailers(k, 2), k) /\ cur = <<>>
  <2>1. d.state = "End" /\ d.tcount = k  BY <1>12 DEF DecEnd
  <2> QED  BY <1>1, <1>2, <1>12, <2>1 DEF ByteStates
<1>13. CASE cur \in Seq(B) /\ cur # <<>> /\ d.state \in {"EndCr", "Trailer", "TrailerLf"}
  BY <1>1, <1>13 DEF ByteStates
<1>14. d.state = "EndCr" \/ d.state = "Trailer" \/ d.state = "TrailerLf" => d.state \in {"EndCr", "Trailer", "TrailerLf"}
  OBVIOUS
<1> QED  BY <1>6, <1>7, <1>8, <1>9, <1>10, <1>11, <1>12, <1>13, <1>14, Zenon DEF AtEnd

\* The next byte behind the last chunk is the one the decoder expects.
LEMMA AtEndStep ==
  ASSUME NEW k, RoomFor(k), NEW d, NEW cur, AtEnd(d, cur, k), cur # <<>>
  PROVE  AtEnd(Reads(d, cur[1]), Tail(cur), k)
<1>0. k \in Nat /\ k < MaxHeaders /\ 3 * k + 2 < TrailerLimit  BY Zenon DEF RoomFor
<1>1. \A j \in Nat : TailOf(j) \in Seq(Byte)  BY TailRules, Zenon
<1>a. Crlf \in Seq(Byte) /\ Crlf # <<>> /\ Crlf[1] = Cr /\ Tail(Crlf) = <<Lf>>  BY CrlfFacts, Zenon
<1>b. Lf \in Byte /\ Other \in Byte /\ 0 \in Nat  BY ByteFacts
<1>2. ASSUME NEW t \in Seq(Byte)
      PROVE  /\ (Crlf \o t)[1] = Cr /\ Tail(Crlf \o t) = <<Lf>> \o t
             /\ (<<Lf>> \o t)[1] = Lf /\ Tail(<<Lf>> \o t) = t
             /\ (<<Other>> \o t)[1] = Other /\ Tail(<<Other>> \o t) = t
  <2>1. (Crlf \o t)[1] = Crlf[1] /\ Tail(Crlf \o t) = Tail(Crlf) \o t  BY <1>a, FirstOf
  <2>2. (<<Lf>> \o t)[1] = Lf /\ Tail(<<Lf>> \o t) = t  BY <1>b, OneInFront
  <2>3. (<<Other>> \o t)[1] = Other /\ Tail(<<Other>> \o t) = t  BY <1>b, OneInFront
  <2> QED  BY <1>a, <2>1, <2>2, <2>3, Zenon
<1>6. CASE d = Dec("Size", 0) /\ cur = Crlf \o TailOf(k)
  <2>1. cur[1] = Cr /\ Tail(cur) = <<Lf>> \o TailOf(k)  BY <1>0, <1>1, <1>2, <1>6, Zenon
  <2>2. Reads(d, Cr) = Dec("SizeLf", 0)  BY <1>b, <1>6, ReadsChunk, Zenon
  <2> QED  BY <2>1, <2>2, Zenon DEF AtEnd
<1>7. CASE d = Dec("SizeLf", 0) /\ cur = <<Lf>> \o TailOf(k)
  <2>1. cur[1] = Lf /\ Tail(cur) = TailOf(k)  BY <1>0, <1>1, <1>2, <1>7, Zenon
  <2>2. Reads(d, Lf) = DecEnd("EndCr", 0, 0)  BY <1>7, ReadsChunk, Zenon
  <2>3. 0 \in 0 .. k /\ 3 * 0 = 0 /\ k - 0 = k  BY <1>0
  <2>4. Reads(d, Lf) = DecEnd("EndCr", 3 * 0, 0) /\ Tail(cur) = TailOf(k - 0)  BY <2>1, <2>2, <2>3
  <2> QED  BY <2>1, <2>3, <2>4, Zenon DEF AtEnd
<1>8. ASSUME NEW j \in 0 .. k, d = DecEnd("EndCr", 3 * j, j), cur = TailOf(k - j)
      PROVE  AtEnd(Reads(d, cur[1]), Tail(cur), k)
  <2>1. CASE j < k
    <3>1. PICK i \in Nat : i = k - (j + 1) /\ k - j = i + 1
      <4>1. k - (j + 1) \in Nat /\ k - j = (k - (j + 1)) + 1  BY <1>0, <2>1
      <4> QED  BY <4>1
    <3>2. cur = <<Other>> \o (Crlf \o TailOf(i))  BY <1>8, <3>1, TailRules
    <3>3. Crlf \o TailOf(i) \in Seq(Byte)  BY <1>1, <1>a, BytesJoin, Zenon
    <3>4. cur[1] = Other /\ Tail(cur) = Crlf \o TailOf(i)  BY <1>2, <3>2, <3>3, Zenon
    <3>5. Reads(d, Other) = DecEnd("Trailer", 3 * j + 1, j)  BY <1>0, <1>8, <2>1, ReadsTail, Zenon
    <3> QED  BY <2>1, <3>1, <3>4, <3>5, Zenon DEF AtEnd
  <2>2. CASE ~(j < k)
    <3>1. j = k /\ k - j = 0  BY <1>0, <2>2
    <3>2. cur = Crlf  BY <1>8, <3>1, TailRules
    <3>3. Reads(d, Cr) = DecEnd("EndLf", BufferedTrailers(k, 1), k)  BY <1>0, <1>8, <3>1, ReadsTail, Zenon
    <3> QED  BY <1>a, <3>2, <3>3, Zenon DEF AtEnd
  <2> QED  BY <2>1, <2>2
<1>9. ASSUME NEW j \in 0 .. k, j < k, d = DecEnd("Trailer", 3 * j + 1, j), cur = Crlf \o TailOf(k - (j + 1))
      PROVE  AtEnd(Reads(d, cur[1]), Tail(cur), k)
  <2>1. k - (j + 1) \in Nat  BY <1>0, <1>9
  <2>2. cur[1] = Cr /\ Tail(cur) = <<Lf>> \o TailOf(k - (j + 1))  BY <1>1, <1>2, <1>9, <2>1, Zenon
  <2>3. Reads(d, Cr) = DecEnd("TrailerLf", 3 * j + 2, j)  BY <1>0, <1>9, ReadsTail, Zenon
  <2> QED  BY <1>9, <2>2, <2>3, Zenon DEF AtEnd
<1>10. ASSUME NEW j \in 0 .. k, j < k, d = DecEnd("TrailerLf", 3 * j + 2, j), cur = <<Lf>> \o TailOf(k - (j + 1))
      PROVE  AtEnd(Reads(d, cur[1]), Tail(cur), k)
  <2>1. k - (j + 1) \in Nat /\ j + 1 \in 0 .. k  BY <1>0, <1>10
  <2>2. cur[1] = Lf /\ Tail(cur) = TailOf(k - (j + 1))  BY <1>1, <1>2, <1>10, <2>1, Zenon
  <2>3. Reads(d, Lf) = DecEnd("EndCr", 3 * (j + 1), j + 1)  BY <1>0, <1>10, ReadsTail, Zenon
  <2> QED  BY <2>1, <2>2, <2>3, Zenon DEF AtEnd
<1>11. CASE d = DecEnd("EndLf", BufferedTrailers(k, 1), k) /\ cur = <<Lf>>
  <2>1. cur[1] = Lf /\ Tail(cur) = <<>>  BY <1>11, CrlfFacts, Zenon
  <2>2. Reads(d, Lf) = DecEnd("End", BufferedTrailers(k, 2), k)  BY <1>0, <1>11, ReadsTail, Zenon
  <2> QED  BY <2>1, <2>2, Zenon DEF AtEnd
<1> QED  BY <1>6, <1>7, <1>8, <1>9, <1>10, <1>11, Zenon DEF AtEnd

-----------------------------------------------------------------------------
(* A chunked body between encoder and decoder.                             *)

\* The pipe p holds the rest of a chunk, whole chunks and the tail tl; the
\* decoder d delivered o, and o with the data in the pipe is t.
Flow(d, p, o, t, tl) ==
  \E w, x, cur, y : /\ Written(w, x) /\ Within(d, cur, y)
                    /\ p = cur \o (w \o tl) /\ t = o \o (y \o x)

\* What is in the pipe is bytes.
LEMMA FlowBytes ==
  ASSUME NEW d, NEW p, NEW o, NEW t, NEW tl \in Seq(Byte), Flow(d, p, o, t, tl)
  PROVE  p \in Seq(Byte)
<1>1. PICK w, x, cur, y : Written(w, x) /\ Within(d, cur, y) /\ p = cur \o (w \o tl)
  BY Zenon DEF Flow
<1>2. w \in Seq(Byte)  BY <1>1, Zenon DEF Written
<1>3. cur \in Seq(Byte)  BY <1>1, WithinFacts, Zenon
<1>4. w \o tl \in Seq(Byte)  BY <1>2, BytesJoin, Zenon
<1> QED  BY <1>1, <1>3, <1>4, BytesJoin, Zenon

\* encode: one chunk more.
LEMMA FlowChunk ==
  ASSUME NEW d, NEW p, NEW o \in Seq(Byte), NEW t, Flow(d, p, o, t, <<>>), NEW m \in Frames
  PROVE  Flow(d, p \o ChunkOf(m), o, t \o m, <<>>)
<1>1. PICK w, x, cur, y : Written(w, x) /\ Within(d, cur, y) /\ p = cur \o (w \o <<>>) /\ t = o \o (y \o x)
  BY Zenon DEF Flow
<1>2. w \in Seq(Byte) /\ x \in Seq(Byte)  BY <1>1, Zenon DEF Written
<1>3. cur \in Seq(Byte) /\ y \in Seq(Byte)  BY <1>1, WithinFacts, Zenon
<1>4. m \in Seq(Byte) /\ ChunkOf(m) \in Seq(Byte)  BY ChunkIs, Zenon
<1>5. Written(w \o ChunkOf(m), x \o m)  BY <1>1, WrittenRules, Zenon
<1>6. w \o ChunkOf(m) \in Seq(Byte) /\ x \o m \in Seq(Byte)  BY <1>5, Zenon DEF Written
<1>7. Regroups(cur, w, ChunkOf(m))  BY <1>2, <1>3, <1>4, Regroup, Zenon
<1>8. p \o ChunkOf(m) = cur \o ((w \o ChunkOf(m)) \o <<>>)
  <2>1. w \o <<>> = w /\ (w \o ChunkOf(m)) \o <<>> = w \o ChunkOf(m)  BY <1>2, <1>6, BytesUnit, Zenon
  <2> QED  BY <1>1, <1>7, <2>1, Zenon DEF Regroups
<1>9. y \o x \in Seq(Byte)  BY <1>2, <1>3, BytesJoin, Zenon
<1>10. Regroups(o, y \o x, m) /\ Regroups(y, x, m)  BY <1>2, <1>3, <1>4, <1>9, Regroup, Zenon
<1>11. t \o m = o \o (y \o (x \o m))  BY <1>1, <1>10, Zenon DEF Regroups
<1> QED  BY <1>1, <1>5, <1>8, <1>11, Zenon DEF Flow

\* end: the tail.
LEMMA FlowTail ==
  ASSUME NEW d, NEW p, NEW o, NEW t, Flow(d, p, o, t, <<>>), NEW tl \in Seq(Byte)
  PROVE  Flow(d, p \o tl, o, t, tl)
<1>1. PICK w, x, cur, y : Written(w, x) /\ Within(d, cur, y) /\ p = cur \o (w \o <<>>) /\ t = o \o (y \o x)
  BY Zenon DEF Flow
<1>2. w \in Seq(Byte)  BY <1>1, Zenon DEF Written
<1>3. cur \in Seq(Byte)  BY <1>1, WithinFacts, Zenon
<1>4. w \o <<>> = w  BY <1>2, BytesUnit, Zenon
<1>5. Regroups(cur, w, tl)  BY <1>2, <1>3, Regroup, Zenon
<1>6. p \o tl = cur \o (w \o tl)  BY <1>1, <1>4, <1>5, Zenon DEF Regroups
<1> QED  BY <1>1, <1>6, Zenon DEF Flow

\* decode: one byte of a size or of the end of a line; the first byte of the
\* last chunk is one of the tail.
LEMMA FlowByte ==
  ASSUME NEW d, NEW p, NEW o \in Seq(Byte), NEW t, NEW tl \in Seq(Byte), Flow(d, p, o, t, tl),
         d.state \in ByteStates, p # <<>>
  PROVE  \/ Flow(Reads(d, p[1]), Tail(p), o, t, tl)
         \/ d = Dec("Start", 0) /\ p = tl /\ o = t
<1>1. PICK w, x, cur, y : Written(w, x) /\ Within(d, cur, y) /\ p = cur \o (w \o tl) /\ t = o \o (y \o x)
  BY Zenon DEF Flow
<1>2. w \in Seq(Byte) /\ x \in Seq(Byte)  BY <1>1, Zenon DEF Written
<1>3. cur \in Seq(Byte) /\ y \in Seq(Byte)  BY <1>1, WithinFacts, Zenon
<1>4. w \o tl \in Seq(Byte)  BY <1>2, BytesJoin, Zenon
<1>5. CASE d.state # "Start"
  <2>1. d.state \notin {"Start", "Body"}  BY <1>5 DEF ByteStates
  <2>2. cur # <<>>  BY <1>1, <1>5, WithinFacts, Zenon
  <2>3. Within(Reads(d, cur[1]), Tail(cur), y)  BY <1>1, <2>1, WithinStep
  <2>4. PICK r : r = w \o tl  OBVIOUS
  <2>5. r \in Seq(Byte)  BY <1>4, <2>4
  <2>6. (cur \o r)[1] = cur[1] /\ Tail(cur \o r) = Tail(cur) \o r  BY <1>3, <2>2, <2>5, FirstOf
  <2>7. p[1] = cur[1] /\ Tail(p) = Tail(cur) \o (w \o tl)  BY <1>1, <2>4, <2>6, Zenon
  <2> QED  BY <1>1, <2>3, <2>7, Zenon DEF Flow
<1>6. CASE d.state = "Start"
  <2>1. d = Dec("Start", 0) /\ cur = <<>> /\ y = <<>>  BY <1>1, <1>6, WithinFacts, Zenon
  <2>2. p = w \o tl /\ t = o \o x  BY <1>1, <1>2, <1>4, <2>1, BytesUnit, Zenon
  <2>3. CASE w = <<>> /\ x = <<>>
    <3>1. p = tl /\ t = o  BY <2>2, <2>3, BytesUnit, Zenon
    <3> QED  BY <2>1, <3>1
  <2>4. ASSUME NEW m \in Frames, NEW v, NEW z, Written(v, z), w = ChunkOf(m) \o v, x = m \o z
        PROVE  Flow(Reads(d, p[1]), Tail(p), o, t, tl)
    <3>1. v \in Seq(Byte) /\ z \in Seq(Byte)  BY <2>4, Zenon DEF Written
    <3>2. PICK c : c = ChunkOf(m)  OBVIOUS
    <3>3. c \in Seq(Byte) /\ c # <<>>  BY <3>2, ChunkIs, ChunkStarts, Zenon
    <3>4. PICK r : r = v \o tl  OBVIOUS
    <3>5. r \in Seq(Byte)  BY <3>1, <3>4, BytesJoin
    <3>6. Regroups(c, v, tl)  BY <3>1, <3>3, Regroup, Zenon
    <3>7. p = c \o r  BY <2>2, <2>4, <3>2, <3>4, <3>6, Zenon DEF Regroups
    <3>8. (c \o r)[1] = c[1] /\ Tail(c \o r) = Tail(c) \o r  BY <3>3, <3>5, FirstOf
    <3>9. p[1] = ChunkOf(m)[1] /\ Tail(p) = Tail(ChunkOf(m)) \o (v \o tl)  BY <3>2, <3>4, <3>7, <3>8, Zenon
    <3>10. Within(Reads(d, ChunkOf(m)[1]), Tail(ChunkOf(m)), m)  BY <2>1, ChunkStarts, Zenon
    <3> QED  BY <2>2, <2>4, <3>9, <3>10, Zenon DEF Flow
  <2>5. Written(w, x)  BY <1>1, Zenon
  <2>6. ChunkAhead(w, x)  BY <2>5, FirstWritten, Zenon
  <2> QED  BY <2>3, <2>4, <2>6, Zenon DEF ChunkAhead
<1> QED  BY <1>5, <1>6

\* decode: a slice of the data.
LEMMA FlowSlice ==
  ASSUME NEW d, NEW p, NEW o \in Seq(Byte), NEW t, NEW tl \in Seq(Byte), Flow(d, p, o, t, tl),
         d.state = "Body", NEW n \in 1 .. d.size
  PROVE  /\ Flow(ReadBody(d, n), SubSeq(p, n + 1, Len(p)), o \o SubSeq(p, 1, n), t, tl)
         /\ o \o SubSeq(p, 1, n) \in Seq(Byte)
<1>1. PICK w, x, cur, y : Written(w, x) /\ Within(d, cur, y) /\ p = cur \o (w \o tl) /\ t = o \o (y \o x)
  BY Zenon DEF Flow
<1>2. w \in Seq(Byte) /\ x \in Seq(Byte)  BY <1>1, Zenon DEF Written
<1>3. cur \in Seq(Byte) /\ y \in Seq(Byte)  BY <1>1, WithinFacts, Zenon
<1>4. PICK r : r = w \o tl  OBVIOUS
<1>5. r \in Seq(Byte)  BY <1>2, <1>4, BytesJoin
<1>6. /\ n \in 1 .. Len(y) /\ n \in 1 .. Len(cur)
      /\ SubSeq(cur, 1, n) = SubSeq(y, 1, n)
      /\ Within(ReadBody(d, n), SubSeq(cur, n + 1, Len(cur)), SubSeq(y, n + 1, Len(y)))
  BY <1>1, WithinSlice
<1>7. Fronts(Byte, cur, r, n)  BY <1>3, <1>5, <1>6, FrontOf
<1>8. Fronts(Byte, y, r, n)  BY <1>3, <1>5, <1>6, FrontOf
<1>9. PICK a, b : a = SubSeq(y, 1, n) /\ b = SubSeq(y, n + 1, Len(y))  OBVIOUS
<1>10. a \in Seq(Byte) /\ b \in Seq(Byte) /\ y = a \o b  BY <1>8, <1>9, Zenon DEF Fronts
<1>11. SubSeq(p, 1, n) = a /\ SubSeq(p, n + 1, Len(p)) = SubSeq(cur, n + 1, Len(cur)) \o (w \o tl)
  BY <1>1, <1>4, <1>6, <1>7, <1>9, Zenon DEF Fronts
<1>12. b \o x \in Seq(Byte) /\ o \o a \in Seq(Byte)  BY <1>2, <1>10, BytesJoin, Zenon
<1>13. Regroups(a, b, x) /\ Regroups(o, a, b \o x)  BY <1>2, <1>10, <1>12, Regroup, Zenon
<1>14. t = (o \o a) \o (b \o x)  BY <1>1, <1>10, <1>13, Zenon DEF Regroups
<1>15. Flow(ReadBody(d, n), SubSeq(p, n + 1, Len(p)), o \o a, t, tl)
  BY <1>1, <1>6, <1>9, <1>11, <1>14, Zenon DEF Flow
<1> QED  BY <1>11, <1>12, <1>15, Zenon

-----------------------------------------------------------------------------
(* The inductive invariant of BodyCodec.                                   *)

\* The encoder's state.
EncStates == [state : {"none", "body", "ending", "done", "closed"}, left : Nat,
              allowed : SUBSET FieldNames, frames : Nat]
EncShape == enc \in EncStates

\* The end of a message that was ended.
MessageTail == IF enc.state = "done" THEN LastChunk \o TailOf(Cardinality(fields)) ELSE <<>>

\* A chunked body is in its chunks, or behind the 0 of its last one.
ChunkedFlows ==
  /\ kind = "chunked" /\ ended = FALSE /\ enc.state \in {"body", "ending", "done"}
  /\ enc.state # "done" => fields = {}
  /\ out \in Seq(Byte)
  /\ \/ Flow(dec, pipe, out, sent, MessageTail)
     \/ enc.state = "done" /\ AtEnd(dec, pipe, Cardinality(fields)) /\ out = sent

\* A decoder that waits for n bytes of a body with a length.
Waits(d, n) == d = Dec(IF n = 0 THEN "End" ELSE "Length", n)

\* A body with a length: the decoder waits for what is in the pipe and what
\* is not encoded yet, or saw the connection closed in its middle.
LengthFlows ==
  /\ kind = "length" /\ fields = {} /\ enc.state \in {"body", "ending", "done", "closed"}
  /\ out \in Seq(Byte) /\ pipe \in Seq(Byte) /\ sent = out \o pipe
  /\ enc.state = "done" <=> enc.left = 0
  /\ \/ ended = FALSE /\ Waits(dec, Len(pipe) + enc.left)
     \/ ended = TRUE /\ enc.state = "closed" /\ dec.state = "Err"

\* ... and only allowed fields were sent.  Nothing is said of other peers.
CodecInv ==
  /\ EncShape /\ fields \subseteq enc.allowed \ Forbidden
  /\ Foreign => pipe = <<>>
  /\ ~Foreign => ChunkedFlows \/ LengthFlows

\* The peer has room for the fields that can be sent.
LEMMA FieldsFit ==
  ASSUME NEW S, S \subseteq FieldNames \ Forbidden
  PROVE  RoomFor(Cardinality(S))
<1>1. IsFiniteSet(FieldNames \ Forbidden)  BY TrailersAssumption, FS_Difference
<1>2. PICK T : T = FieldNames \ Forbidden  OBVIOUS
<1>3. Cardinality(S) \in Nat /\ Cardinality(T) \in Nat /\ Cardinality(S) <= Cardinality(T)
  <2>1. IsFiniteSet(T) /\ S \subseteq T  BY <1>1, <1>2
  <2>2. IsFiniteSet(S) /\ Cardinality(S) <= Cardinality(T)  BY <2>1, FS_Subset
  <2> QED  BY <2>1, <2>2, FS_CardinalityType
<1>4. Cardinality(T) < MaxHeaders /\ 3 * Cardinality(T) + 2 < TrailerLimit  BY <1>2, TrailersAssumption
<1>5. MaxHeaders \in Nat /\ TrailerLimit \in Nat  BY DecoderAssumption
<1>6. PICK a, b : a = Cardinality(S) /\ b = Cardinality(T)  OBVIOUS
<1>7. a \in Nat /\ a < MaxHeaders /\ 3 * a + 2 < TrailerLimit  BY <1>3, <1>4, <1>5, <1>6
<1> QED  BY <1>6, <1>7 DEF RoomFor

\* Without fields.
LEMMA NoFields == Cardinality({}) = 0
BY FS_EmptySet

\* The end of a message: bytes that begin with the 0 of the last chunk.
LEMMA TailStarts ==
  ASSUME NEW k \in Nat
  PROVE  /\ LastChunk \o TailOf(k) \in Seq(Byte) /\ LastChunk \o TailOf(k) # <<>>
         /\ (LastChunk \o TailOf(k))[1] = 0
         /\ Tail(LastChunk \o TailOf(k)) = Crlf \o TailOf(k)
<1>1. LastChunk \in Seq(Byte) /\ LastChunk # <<>> /\ LastChunk[1] = 0 /\ Tail(LastChunk) = Crlf  BY CrlfFacts, Zenon
<1>2. TailOf(k) \in Seq(Byte)  BY TailRules, Zenon
<1>3. PICK a, t : a = LastChunk /\ t = TailOf(k)  OBVIOUS
<1>4. a \in Seq(Byte) /\ a # <<>> /\ t \in Seq(Byte)  BY <1>1, <1>2, <1>3
<1>5. a \o t \in Seq(Byte) /\ a \o t # <<>> /\ (a \o t)[1] = a[1] /\ Tail(a \o t) = Tail(a) \o t
  BY <1>4, FirstOf, BytesJoin
<1> QED  BY <1>1, <1>3, <1>5, Zenon

\* What a message that was not ended has for its end.
LEMMA TailType ==
  ASSUME CodecInv
  PROVE  MessageTail \in Seq(Byte) /\ Cardinality(fields) \in Nat /\ RoomFor(Cardinality(fields))
         /\ (enc.state # "done" => MessageTail = <<>>)
         /\ (enc.state = "done" => MessageTail = LastChunk \o TailOf(Cardinality(fields)))
<1>1. fields \subseteq FieldNames \ Forbidden  BY DEF CodecInv, EncShape, EncStates
<1>2. RoomFor(Cardinality(fields))  BY <1>1, FieldsFit, Zenon
<1>3. Cardinality(fields) \in Nat  BY <1>2, Zenon DEF RoomFor
<1>4. LastChunk \o TailOf(Cardinality(fields)) \in Seq(Byte) /\ <<>> \in Seq(Byte)  BY <1>3, TailStarts, CrlfFacts, Zenon
<1> QED  BY <1>2, <1>3, <1>4, Zenon DEF MessageTail

\* Nothing is in the pipe at first.
LEMMA CodecInvInit == CInit => CodecInv
<1> SUFFICES ASSUME CInit PROVE CodecInv  OBVIOUS
<1>1. sent = <<>> /\ fields = {} /\ pipe = <<>> /\ out = <<>> /\ ended = FALSE  BY DEF CInit, BInit
<1>2. CASE enc = Enc("none", 0, {})
  <2>1. enc.state = "none" /\ EncShape  BY <1>2 DEF Enc, EncShape, EncStates
  <2> QED  BY <1>1, <2>1 DEF CodecInv, Foreign
<1>3. ASSUME kind # "eof", NEW allowed \in SUBSET FieldNames,
             enc = Enc(IF dec.state = "End" THEN "done" ELSE "body", dec.size, allowed)
      PROVE  CodecInv
  <2>1. CASE kind = "chunked" /\ dec = Dec("Start", 0)
    <3>1. enc = Enc("body", 0, allowed)  BY <1>3, <2>1 DEF Dec
    <3>2. EncShape /\ enc.state = "body" /\ enc.allowed = allowed  BY <3>1 DEF Enc, EncShape, EncStates
    <3>3. Within(dec, <<>>, <<>>)
      <4>1. <<>> \in Seq(Byte) /\ Len(<<>>) <= MaxSize  BY ByteFacts
      <4> QED  BY <2>1, <4>1, Zenon DEF Within
    <3>4. <<>> = <<>> \o (<<>> \o <<>>)  OBVIOUS
    <3>5. Flow(dec, <<>>, <<>>, <<>>, <<>>)  BY <3>3, <3>4, WrittenRules, Zenon DEF Flow
    <3>6. MessageTail = <<>>  BY <3>2 DEF MessageTail
    <3>7. ChunkedFlows  BY <1>1, <2>1, <3>2, <3>5, <3>6 DEF ChunkedFlows
    <3> QED  BY <1>1, <3>2, <3>7 DEF CodecInv, Foreign
  <2>2. ASSUME kind = "length", NEW n \in Lengths, dec = Dec(IF n = 0 THEN "End" ELSE "Length", n)
        PROVE  CodecInv
    <3>1. n \in Nat  BY DecoderAssumption
    <3>2. dec.size = n /\ (dec.state = "End" <=> n = 0)  BY <2>2 DEF Dec
    <3>3. enc = Enc(IF n = 0 THEN "done" ELSE "body", n, allowed)  BY <1>3, <3>2
    <3>4. /\ EncShape /\ enc.state = (IF n = 0 THEN "done" ELSE "body") /\ enc.allowed = allowed /\ enc.left = n
          /\ enc.state \in {"body", "ending", "done", "closed"} /\ ~Foreign
      BY <3>1, <3>3 DEF Enc, EncShape, EncStates, Foreign
    <3>5. enc.state = "done" <=> enc.left = 0  BY <3>4
    <3>6. <<>> \in Seq(Byte) /\ <<>> = <<>> \o <<>> /\ Len(<<>>) + n = n  BY <3>1
    <3>7. Waits(dec, Len(pipe) + enc.left)  BY <1>1, <2>2, <3>4, <3>6 DEF Waits
    <3>8. LengthFlows  BY <1>1, <2>2, <3>4, <3>5, <3>6, <3>7 DEF LengthFlows
    <3> QED  BY <1>1, <3>4, <3>8 DEF CodecInv
  <2> QED  BY <1>3, <2>1, <2>2 DEF CInit, BInit
<1> QED  BY <1>2, <1>3 DEF CInit

\* The invariant is what CodecAgrees needs.
LEMMA CodecInvAgrees == CodecInv => CodecAgrees
<1> SUFFICES ASSUME CodecInv PROVE CodecAgrees  OBVIOUS
<1>0. MessageTail \in Seq(Byte) /\ Cardinality(fields) \in Nat /\ RoomFor(Cardinality(fields))
      /\ (enc.state = "done" => MessageTail = LastChunk \o TailOf(Cardinality(fields)))
  BY TailType, Zenon
<1>1. CASE Foreign
  <2>1. enc.state = "none"  BY <1>1 DEF Foreign
  <2> QED  BY <1>1, <2>1 DEF CodecInv, CodecAgrees, RoundTrip, EndsTogether, AlwaysAccepted, TrailersFiltered
<1>2. CASE ~Foreign /\ ChunkedFlows
  <2>1. CASE Flow(dec, pipe, out, sent, MessageTail)
    <3>1. PICK w, x, cur, y : Written(w, x) /\ Within(dec, cur, y) /\ pipe = cur \o (w \o MessageTail)
      BY <2>1, Zenon DEF Flow
    <3>2. w \in Seq(Byte)  BY <3>1, Zenon DEF Written
    <3>3. cur \in Seq(Byte) /\ dec.state \in ByteStates \cup {"Body"}  BY <3>1, WithinFacts, Zenon
    <3>4. dec.state # "End" /\ dec.state # "Err"  BY <3>3 DEF ByteStates
    <3>5. enc.state = "done" => pipe # <<>>
      <4> SUFFICES ASSUME enc.state = "done" PROVE pipe # <<>>  OBVIOUS
      <4>1. MessageTail # <<>>  BY <1>0, TailStarts, Zenon
      <4>2. PICK t : t = MessageTail  OBVIOUS
      <4>3. t \in Seq(Byte) /\ t # <<>> /\ pipe = cur \o (w \o t)  BY <1>0, <3>1, <4>1, <4>2
      <4>4. cur \o (w \o t) # <<>>  BY <3>2, <3>3, <4>3
      <4> QED  BY <4>3, <4>4
    <3>6. enc.state # "closed"  BY <1>2 DEF ChunkedFlows
    <3> QED  BY <3>4, <3>5, <3>6
             DEF CodecInv, CodecAgrees, RoundTrip, EndsTogether, AlwaysAccepted, TrailersFiltered
  <2>2. CASE enc.state = "done" /\ AtEnd(dec, pipe, Cardinality(fields)) /\ out = sent
    <3>1. /\ dec.state \in ByteStates \cup {"End"}
          /\ pipe = <<>> <=> dec.state = "End"
          /\ dec.state = "End" => dec.tcount = Cardinality(fields)
      BY <1>0, <2>2, AtEndFacts, Zenon
    <3>2. dec.state # "Err"  BY <3>1 DEF ByteStates
    <3> QED  BY <2>2, <3>1, <3>2
             DEF CodecInv, CodecAgrees, RoundTrip, EndsTogether, AlwaysAccepted, TrailersFiltered
  <2> QED  BY <1>2, <2>1, <2>2 DEF ChunkedFlows
<1>3. CASE ~Foreign /\ LengthFlows
  <2>1. enc.left \in Nat  BY DEF CodecInv, EncShape, EncStates
  <2>2. pipe \in Seq(Byte) /\ Len(pipe) \in Nat /\ sent = out \o pipe /\ out \in Seq(Byte) /\ fields = {}
    BY <1>3 DEF LengthFlows
  <2>3. Cardinality(fields) = 0  BY <2>2, NoFields
  <2>4. CASE ended = FALSE /\ Waits(dec, Len(pipe) + enc.left)
    <3>1. PICK n : n = Len(pipe) + enc.left  OBVIOUS
    <3>2. n \in Nat /\ (n = 0 <=> Len(pipe) = 0 /\ enc.left = 0)  BY <2>1, <2>2, <3>1
    <3>3. dec.state = (IF n = 0 THEN "End" ELSE "Length") /\ dec.tcount = 0  BY <2>4, <3>1 DEF Waits, Dec
    <3>4. enc.state = "done" <=> enc.left = 0  BY <1>3 DEF LengthFlows
    <3>5. (Len(pipe) = 0 <=> pipe = <<>>)  BY <2>2
    <3>6. pipe = <<>> => out = sent  BY <2>2
    <3>7. enc.state = "closed" => enc.left # 0  BY <3>4
    <3> QED  BY <2>3, <3>2, <3>3, <3>4, <3>5, <3>6, <3>7
             DEF CodecInv, CodecAgrees, RoundTrip, EndsTogether, AlwaysAccepted, TrailersFiltered
  <2>5. CASE ended = TRUE /\ enc.state = "closed" /\ dec.state = "Err"
    BY <2>5 DEF CodecInv, CodecAgrees, RoundTrip, EndsTogether, AlwaysAccepted, TrailersFiltered
  <2> QED  BY <1>3, <2>4, <2>5 DEF LengthFlows
<1> QED  BY <1>1, <1>2, <1>3 DEF CodecInv

\* An encoder that is writing a body: what is known of its other end.
LEMMA Writing ==
  ASSUME CodecInv, enc.state \in {"body", "ending"}
  PROVE  /\ \/ /\ ChunkedFlows /\ kind = "chunked" /\ fields = {}
               /\ Flow(dec, pipe, out, sent, <<>>)
            \/ LengthFlows /\ kind = "length" /\ enc.left # 0
         /\ ~Foreign /\ enc.left \in Nat
<1>1. ~Foreign  BY DEF Foreign
<1>2. enc.left \in Nat  BY DEF CodecInv, EncShape, EncStates
<1>3. CASE ChunkedFlows
  <2>1. MessageTail = <<>> /\ enc.state # "done"  BY DEF MessageTail
  <2> QED  BY <1>1, <1>2, <1>3, <2>1 DEF ChunkedFlows
<1>4. CASE LengthFlows  BY <1>1, <1>2, <1>4 DEF LengthFlows
<1> QED  BY <1>1, <1>3, <1>4 DEF CodecInv

\* What Take leaves of a frame when there is room for n bytes.
LEMMA TakeFacts ==
  ASSUME NEW m \in Frames, NEW n \in Nat, n > 0
  PROVE  /\ Take(m, n) \in Seq(Byte) /\ Len(m) \in Nat
         /\ Len(m) >= n => Len(Take(m, n)) = n
         /\ Len(m) < n => Len(Take(m, n)) = Len(m)
<1>1. m \in Seq(Byte) /\ Len(m) \in Nat /\ Len(m) > 0
  <2>1. m \in Seq(Byte) /\ m # <<>>  BY ChunkIs, Zenon
  <2> QED  BY <2>1
<1>2. PICK B : B = Byte  OBVIOUS
<1>3. m \in Seq(B)  BY <1>1, <1>2
<1>4. CASE n < Len(m)
  <2>1. Take(m, n) = SubSeq(m, 1, n)  BY <1>4, Zenon DEF Take
  <2>2. SubSeq(m, 1, n) \in Seq(B) /\ Len(SubSeq(m, 1, n)) = n  BY <1>1, <1>3, <1>4
  <2> QED  BY <1>1, <1>2, <1>4, <2>1, <2>2
<1>5. CASE ~(n < Len(m))
  <2>1. Take(m, n) = SubSeq(m, 1, Len(m))  BY <1>5, Zenon DEF Take
  <2>2. SubSeq(m, 1, Len(m)) \in Seq(B) /\ Len(SubSeq(m, 1, Len(m))) = Len(m)  BY <1>1, <1>3
  <2> QED  BY <1>1, <1>2, <1>5, <2>1, <2>2
<1> QED  BY <1>4, <1>5

\* A frame of a body with a length: cut to what is left of it.
LEMMA FrameOfLength ==
  ASSUME CodecInv, enc.state = "body", LengthFlows, enc.left > 0, NEW m \in Frames,
         pipe' = pipe \o Take(m, enc.left), sent' = sent \o Take(m, enc.left),
         UNCHANGED <<kind, dec, out, ended, fields>>, EncShape',
         enc'.left = (IF Len(m) > enc.left THEN 0 ELSE enc.left - Len(m)),
         enc'.state \in {"body", "closed", "done"}, (enc'.state = "done") <=> Len(m) >= enc.left
  PROVE  LengthFlows'
<1>0. enc.left \in Nat  BY DEF CodecInv, EncShape, EncStates
<1>1. PICK c : c = Take(m, enc.left)  OBVIOUS
<1>2. c \in Seq(Byte) /\ Len(m) \in Nat /\ (Len(m) >= enc.left => Len(c) = enc.left)
      /\ (Len(m) < enc.left => Len(c) = Len(m))
  BY <1>0, <1>1, TakeFacts, Zenon
<1>3. out \in Seq(Byte) /\ pipe \in Seq(Byte) /\ sent = out \o pipe /\ fields = {} /\ kind = "length"
      /\ ended = FALSE /\ Waits(dec, Len(pipe) + enc.left)
  BY DEF LengthFlows
<1>4. pipe' = pipe \o c /\ sent' = sent \o c  BY <1>1
<1>5. pipe' \in Seq(Byte) /\ Len(pipe') = Len(pipe) + Len(c) /\ Len(pipe) \in Nat /\ Len(c) \in Nat
  <2>1. pipe \o c \in Seq(Byte) /\ Len(pipe \o c) = Len(pipe) + Len(c) /\ Len(pipe) \in Nat /\ Len(c) \in Nat
    <3>1. pipe \in Seq(Byte) /\ c \in Seq(Byte)  BY <1>2, <1>3
    <3> QED  BY <3>1
  <2> QED  BY <1>4, <2>1
<1>6. sent' = out \o pipe'
  <2>1. Regroups(out, pipe, c)  BY <1>2, <1>3, Regroup, Zenon
  <2> QED  BY <1>3, <1>4, <2>1, Zenon DEF Regroups
<1>7. Len(pipe') + enc'.left = Len(pipe) + enc.left /\ (enc'.left = 0 <=> Len(m) >= enc.left)
  BY <1>0, <1>2, <1>5
<1>8. Waits(dec', Len(pipe') + enc'.left)  BY <1>3, <1>7
<1> QED  BY <1>3, <1>5, <1>6, <1>7, <1>8 DEF LengthFlows

\* The encoder after a frame.
FrameEnds == {"body", "closed", "done"}
AfterFrame(e, n, s) == [e EXCEPT !.left = n, !.frames = @ + 1, !.state = s]

\* It is an encoder, with the state s and n bytes left.
LEMMA FrameWritten ==
  ASSUME NEW e \in EncStates, NEW n \in Nat, NEW s \in FrameEnds
  PROVE  /\ AfterFrame(e, n, s) \in EncStates /\ AfterFrame(e, n, s).state = s
         /\ AfterFrame(e, n, s).left = n /\ AfterFrame(e, n, s).allowed = e.allowed
<1> DEFINE f == AfterFrame(e, n, s)
<1>0. f = [e EXCEPT !.left = n, !.frames = @ + 1, !.state = s]  BY DEF AfterFrame
<1> HIDE DEF f
<1>1. f.state = s /\ f.left = n /\ f.allowed = e.allowed /\ f.frames = e.frames + 1  BY <1>0 DEF EncStates
<1>2. e.frames + 1 \in Nat /\ e.allowed \in SUBSET FieldNames  BY DEF EncStates
<1>3. s \in {"none", "body", "ending", "done", "closed"}  BY DEF FrameEnds
<1>5. f = [state |-> f.state, left |-> f.left, allowed |-> f.allowed, frames |-> f.frames]
  BY <1>0 DEF EncStates
<1>6. f \in EncStates  BY <1>1, <1>2, <1>3, <1>5 DEF EncStates
<1> QED  BY <1>1, <1>6 DEF f

\* Conn::write_body, Encoder::encode.
LEMMA EncodeKeeps ==
  ASSUME CodecInv, NEW m \in Frames, Encode(m)
  PROVE  CodecInv'
<1>0. enc.state = "body" /\ UNCHANGED <<kind, dec, wire, out, ended, fields>>
  BY DEF Encode, Gives, Unread, bvars
<1>1. enc' = [enc EXCEPT !.left = Left(Len(m)), !.frames = @ + 1,
                         !.state = IF kind = "length" /\ Len(m) >= enc.left THEN "done" ELSE @]
  BY Zenon DEF Encode
<1>2. enc \in [state : {"none", "body", "ending", "done", "closed"}, left : Nat, allowed : SUBSET FieldNames, frames : Nat]
  BY DEF CodecInv, EncShape, EncStates
<1>3. Len(m) \in Nat /\ Left(Len(m)) \in Nat
  <2>1. Len(m) \in Nat  BY ChunkIs
  <2>2. enc.left \in Nat  BY <1>2
  <2> QED  BY <2>1, <2>2 DEF Left
<1>4. PICK s : s = IF kind = "length" /\ Len(m) >= enc.left THEN "done" ELSE "body"  OBVIOUS
<1>5. enc' = [enc EXCEPT !.left = Left(Len(m)), !.frames = @ + 1, !.state = s]  BY <1>0, <1>1, <1>4
<1>6. s \in {"body", "done"}  BY <1>4
<1>7. EncShape' /\ enc'.state = s /\ enc'.left = Left(Len(m)) /\ enc'.allowed = enc.allowed
  <2>1. PICK n, e : n = Left(Len(m)) /\ e = enc'  OBVIOUS
  <2>2. e = AfterFrame(enc, n, s)  BY <1>5, <2>1 DEF AfterFrame
  <2>3. n \in Nat  BY <1>3, <2>1
  <2>4. e \in EncStates /\ e.state = s /\ e.left = n /\ e.allowed = enc.allowed
    <3>1. enc \in EncStates  BY DEF CodecInv, EncShape
    <3>2. s \in FrameEnds  BY <1>6 DEF FrameEnds
    <3>3. /\ AfterFrame(enc, n, s) \in EncStates /\ AfterFrame(enc, n, s).state = s
          /\ AfterFrame(enc, n, s).left = n /\ AfterFrame(enc, n, s).allowed = enc.allowed
      BY <2>3, <3>1, <3>2, FrameWritten, ZenonT(60)
    <3> QED  BY <2>2, <3>3, Zenon
  <2> QED  BY <2>1, <2>4 DEF EncShape, EncStates
<1>8. fields' \subseteq enc'.allowed \ Forbidden /\ ~Foreign'  BY <1>0, <1>6, <1>7 DEF CodecInv, Foreign
<1>9. CASE ChunkedFlows /\ kind = "chunked" /\ fields = {} /\ Flow(dec, pipe, out, sent, <<>>)
  <2>1. s = "body" /\ out \in Seq(Byte) /\ ended = FALSE  BY <1>4, <1>9 DEF ChunkedFlows
  <2>2. pipe' = pipe \o ChunkOf(m) /\ sent' = sent \o m
    BY <1>9, Zenon DEF Encode, Gives, EncodeBytes, ChunkOf
  <2>3. Flow(dec, pipe \o ChunkOf(m), out, sent \o m, <<>>)  BY <1>9, <2>1, FlowChunk, Zenon
  <2>4. MessageTail' = <<>>  BY <1>7, <2>1 DEF MessageTail
  <2>5. Flow(dec', pipe', out', sent', <<>>)  BY <1>0, <2>2, <2>3
  <2>6. ChunkedFlows'  BY <1>0, <1>7, <1>9, <2>1, <2>4, <2>5 DEF ChunkedFlows
  <2> QED  BY <1>7, <1>8, <2>6 DEF CodecInv
<1>10. CASE LengthFlows /\ kind = "length" /\ enc.left # 0
  <2>1. enc.left > 0 /\ enc.left \in Nat  BY <1>2, <1>10
  <2>2. pipe' = pipe \o Take(m, enc.left) /\ sent' = sent \o Take(m, enc.left)
    BY <1>10 DEF Encode, Gives, EncodeBytes
  <2>3. enc'.left = (IF Len(m) > enc.left THEN 0 ELSE enc.left - Len(m))  BY <1>7, <1>10 DEF Left
  <2>4. enc'.state \in {"body", "closed", "done"} /\ ((enc'.state = "done") <=> Len(m) >= enc.left)
    BY <1>4, <1>6, <1>7, <1>10
  <2>5. LengthFlows'  BY <1>0, <1>7, <1>10, <2>1, <2>2, <2>3, <2>4, FrameOfLength
  <2> QED  BY <1>7, <1>8, <2>5 DEF CodecInv
<1> QED  BY <1>0, <1>9, <1>10, Writing

\* Encoder::encode_and_end.
LEMMA EncodeAndEndKeeps ==
  ASSUME CodecInv, NEW m \in Frames, EncodeAndEnd(m)
  PROVE  CodecInv'
<1>0. enc.state = "body" /\ UNCHANGED <<kind, dec, wire, out, ended, fields>>
  BY DEF EncodeAndEnd, Gives, Unread, bvars
<1>1. enc' = [enc EXCEPT !.left = Left(Len(m)), !.frames = @ + 1,
                         !.state = IF kind = "chunked" \/ Len(m) >= enc.left THEN "done" ELSE "closed"]
  BY Zenon DEF EncodeAndEnd
<1>2. enc \in [state : {"none", "body", "ending", "done", "closed"}, left : Nat, allowed : SUBSET FieldNames, frames : Nat]
  BY DEF CodecInv, EncShape, EncStates
<1>3. Len(m) \in Nat /\ Left(Len(m)) \in Nat
  <2>1. Len(m) \in Nat  BY ChunkIs
  <2>2. enc.left \in Nat  BY <1>2
  <2> QED  BY <2>1, <2>2 DEF Left
<1>4. PICK s : s = IF kind = "chunked" \/ Len(m) >= enc.left THEN "done" ELSE "closed"  OBVIOUS
<1>5. enc' = [enc EXCEPT !.left = Left(Len(m)), !.frames = @ + 1, !.state = s]  BY <1>0, <1>1, <1>4
<1>6. s \in {"closed", "done"}  BY <1>4
<1>7. EncShape' /\ enc'.state = s /\ enc'.left = Left(Len(m)) /\ enc'.allowed = enc.allowed
  <2>1. PICK n, e : n = Left(Len(m)) /\ e = enc'  OBVIOUS
  <2>2. e = AfterFrame(enc, n, s)  BY <1>5, <2>1 DEF AfterFrame
  <2>3. n \in Nat  BY <1>3, <2>1
  <2>4. e \in EncStates /\ e.state = s /\ e.left = n /\ e.allowed = enc.allowed
    <3>1. enc \in EncStates  BY DEF CodecInv, EncShape
    <3>2. s \in FrameEnds  BY <1>6 DEF FrameEnds
    <3>3. /\ AfterFrame(enc, n, s) \in EncStates /\ AfterFrame(enc, n, s).state = s
          /\ AfterFrame(enc, n, s).left = n /\ AfterFrame(enc, n, s).allowed = enc.allowed
      BY <2>3, <3>1, <3>2, FrameWritten, ZenonT(60)
    <3> QED  BY <2>2, <3>3, Zenon
  <2> QED  BY <2>1, <2>4 DEF EncShape, EncStates
<1>8. fields' \subseteq enc'.allowed \ Forbidden /\ ~Foreign'  BY <1>0, <1>6, <1>7 DEF CodecInv, Foreign
<1>9. CASE ChunkedFlows /\ kind = "chunked" /\ fields = {} /\ Flow(dec, pipe, out, sent, <<>>)
  <2>1. s = "done" /\ out \in Seq(Byte) /\ ended = FALSE  BY <1>4, <1>9 DEF ChunkedFlows
  <2>2. pipe' = (pipe \o ChunkOf(m)) \o (LastChunk \o Crlf) /\ sent' = sent \o m
    BY <1>9, Zenon DEF EncodeAndEnd, Gives, EncodeBytes, ChunkOf
  <2>3. Flow(dec, pipe \o ChunkOf(m), out, sent \o m, <<>>)  BY <1>9, <2>1, FlowChunk, Zenon
  <2>4. LastChunk \o Crlf \in Seq(Byte)  BY CrlfFacts, BytesJoin, Zenon
  <2>5. Flow(dec, (pipe \o ChunkOf(m)) \o (LastChunk \o Crlf), out, sent \o m, LastChunk \o Crlf)
    BY <2>3, <2>4, FlowTail, Zenon
  <2>6. MessageTail' = LastChunk \o Crlf
    <3>1. fields' = {} /\ Cardinality({}) = 0 /\ TailOf(0) = Crlf  BY <1>0, <1>9, NoFields, TailRules
    <3> QED  BY <1>7, <2>1, <3>1 DEF MessageTail
  <2>7. Flow(dec', pipe', out', sent', MessageTail')  BY <1>0, <2>2, <2>5, <2>6
  <2>8. ChunkedFlows'  BY <1>0, <1>7, <1>9, <2>1, <2>7 DEF ChunkedFlows
  <2> QED  BY <1>7, <1>8, <2>8 DEF CodecInv
<1>10. CASE LengthFlows /\ kind = "length" /\ enc.left # 0
  <2>1. enc.left > 0 /\ enc.left \in Nat  BY <1>2, <1>10
  <2>2. pipe' = pipe \o Take(m, enc.left) /\ sent' = sent \o Take(m, enc.left)
    <3>1. pipe' = (pipe \o Take(m, enc.left)) \o <<>> /\ sent' = sent \o Take(m, enc.left)
      BY <1>10 DEF EncodeAndEnd, Gives, EncodeBytes
    <3>2. Take(m, enc.left) \in Seq(Byte)  BY <2>1, TakeFacts, Zenon
    <3>3. pipe \in Seq(Byte)  BY <1>10 DEF LengthFlows
    <3>4. pipe \o Take(m, enc.left) \in Seq(Byte)  BY <3>2, <3>3, BytesJoin, Zenon
    <3> QED  BY <3>1, <3>4, BytesUnit, Zenon
  <2>3. enc'.left = (IF Len(m) > enc.left THEN 0 ELSE enc.left - Len(m))  BY <1>7, <1>10 DEF Left
  <2>4. enc'.state \in {"body", "closed", "done"} /\ ((enc'.state = "done") <=> Len(m) >= enc.left)
    BY <1>4, <1>6, <1>7, <1>10
  <2>5. LengthFlows'  BY <1>0, <1>7, <1>10, <2>1, <2>2, <2>3, <2>4, FrameOfLength
  <2> QED  BY <1>7, <1>8, <2>5 DEF CodecInv
<1> QED  BY <1>0, <1>9, <1>10, Writing

\* Encoder::end.
LEMMA EndKeeps ==
  ASSUME CodecInv, End
  PROVE  CodecInv'
<1>0. enc.state \in {"body", "ending"} /\ UNCHANGED <<kind, dec, wire, out, ended, fields, sent>>
  BY DEF End, Unread, bvars
<1>2. enc \in [state : {"none", "body", "ending", "done", "closed"}, left : Nat, allowed : SUBSET FieldNames, frames : Nat]
  BY DEF CodecInv, EncShape, EncStates
<1>4. PICK s : s = IF kind = "chunked" \/ enc.left = 0 THEN "done" ELSE "closed"  OBVIOUS
<1>5. enc' = [enc EXCEPT !.state = s]  BY <1>4 DEF End
<1>6. s \in {"closed", "done"}  BY <1>4
<1>7. EncShape' /\ enc'.state = s /\ enc'.left = enc.left /\ enc'.allowed = enc.allowed
  BY <1>2, <1>5, <1>6 DEF EncShape, EncStates
<1>8. fields' \subseteq enc'.allowed \ Forbidden /\ ~Foreign'  BY <1>0, <1>6, <1>7 DEF CodecInv, Foreign
<1>9. CASE ChunkedFlows /\ kind = "chunked" /\ fields = {} /\ Flow(dec, pipe, out, sent, <<>>)
  <2>1. s = "done" /\ out \in Seq(Byte) /\ ended = FALSE  BY <1>4, <1>9 DEF ChunkedFlows
  <2>2. pipe' = (pipe \o LastChunk) \o Crlf  BY <1>9 DEF End
  <2>3. LastChunk \o Crlf \in Seq(Byte) /\ LastChunk \in Seq(Byte) /\ Crlf \in Seq(Byte)  BY CrlfFacts, BytesJoin, Zenon
  <2>4. pipe \in Seq(Byte)
    <3>1. <<>> \in Seq(Byte) /\ Flow(dec, pipe, out, sent, <<>>)  BY <1>9
    <3> QED  BY <3>1, FlowBytes, Zenon
  <2>5. pipe' = pipe \o (LastChunk \o Crlf)
    <3>1. Regroups(pipe, LastChunk, Crlf)  BY <2>3, <2>4, Regroup, Zenon
    <3> QED  BY <2>2, <3>1, Zenon DEF Regroups
  <2>6. Flow(dec, pipe \o (LastChunk \o Crlf), out, sent, LastChunk \o Crlf)  BY <1>9, <2>3, FlowTail, Zenon
  <2>7. MessageTail' = LastChunk \o Crlf
    <3>1. fields' = {} /\ Cardinality({}) = 0 /\ TailOf(0) = Crlf  BY <1>0, <1>9, NoFields, TailRules
    <3> QED  BY <1>7, <2>1, <3>1 DEF MessageTail
  <2>8. Flow(dec', pipe', out', sent', MessageTail')  BY <1>0, <2>5, <2>6, <2>7
  <2>9. ChunkedFlows'  BY <1>0, <1>7, <1>9, <2>1, <2>8 DEF ChunkedFlows
  <2> QED  BY <1>7, <1>8, <2>9 DEF CodecInv
<1>10. CASE LengthFlows /\ kind = "length" /\ enc.left # 0
  <2>1. pipe' = pipe /\ s = "closed"  BY <1>4, <1>10 DEF End
  <2>2. ended = FALSE /\ Waits(dec, Len(pipe) + enc.left)  BY <1>0, <1>10 DEF LengthFlows
  <2>3. Waits(dec', Len(pipe') + enc'.left)  BY <1>0, <1>7, <2>1, <2>2
  <2>4. LengthFlows'  BY <1>0, <1>7, <1>10, <2>1, <2>2, <2>3 DEF LengthFlows
  <2> QED  BY <1>7, <1>8, <2>4 DEF CodecInv
<1> QED  BY <1>0, <1>9, <1>10, Writing

\* Encoder::encode_trailers.
LEMMA EncodeTrailersKeeps ==
  ASSUME CodecInv, NEW ts \in SUBSET FieldNames, EncodeTrailers(ts)
  PROVE  CodecInv'
<1> DEFINE S == IF kind = "chunked" THEN AllowedTrailers(ts) ELSE {}
<1>0. /\ enc.state = "body" /\ UNCHANGED <<kind, dec, wire, out, ended, sent>> /\ fields' = S
      /\ pipe' = (IF S = {} THEN pipe ELSE pipe \o LastChunk \o FieldLines(Cardinality(S)) \o Crlf)
      /\ enc' = [enc EXCEPT !.state = IF S = {} THEN "ending" ELSE "done"]
  BY DEF EncodeTrailers, bvars
<1>1. S \subseteq enc.allowed \ Forbidden  BY DEF AllowedTrailers
<1>2. enc \in [state : {"none", "body", "ending", "done", "closed"}, left : Nat, allowed : SUBSET FieldNames, frames : Nat]
  BY DEF CodecInv, EncShape, EncStates
<1>3. kind = "length" => S = {}  OBVIOUS
<1> HIDE DEF S
<1>4. PICK s : s = IF S = {} THEN "ending" ELSE "done"  OBVIOUS
<1>5. enc' = [enc EXCEPT !.state = s]  BY <1>0, <1>4
<1>6. s \in {"ending", "done"}  BY <1>4
<1>7. EncShape' /\ enc'.state = s /\ enc'.left = enc.left /\ enc'.allowed = enc.allowed
  BY <1>2, <1>5, <1>6 DEF EncShape, EncStates
<1>8. fields' \subseteq enc'.allowed \ Forbidden /\ ~Foreign'  BY <1>0, <1>1, <1>6, <1>7 DEF Foreign
<1>9. CASE ChunkedFlows /\ kind = "chunked" /\ fields = {} /\ Flow(dec, pipe, out, sent, <<>>)
  <2>0. out \in Seq(Byte) /\ ended = FALSE  BY <1>9 DEF ChunkedFlows
  <2>1. CASE S = {}
    <3>1. s = "ending" /\ pipe' = pipe /\ fields' = {}  BY <1>0, <1>4, <2>1
    <3>2. MessageTail' = <<>>  BY <1>7, <3>1 DEF MessageTail
    <3>3. Flow(dec', pipe', out', sent', MessageTail')  BY <1>0, <1>9, <3>1, <3>2
    <3>4. ChunkedFlows'  BY <1>0, <1>7, <1>9, <2>0, <3>1, <3>3 DEF ChunkedFlows
    <3> QED  BY <1>7, <1>8, <3>4 DEF CodecInv
  <2>2. CASE S # {}
    <3> DEFINE k == Cardinality(S)
               f == FieldLines(k)
    <3>1. s = "done" /\ pipe' = ((pipe \o LastChunk) \o f) \o Crlf  BY <1>0, <1>4, <2>2
    <3>2. k \in Nat
      <4>1. S \subseteq FieldNames \ Forbidden  BY <1>1, <1>2
      <4>2. RoomFor(Cardinality(S))  BY <4>1, FieldsFit, Zenon
      <4> QED  BY <4>2, Zenon DEF RoomFor
    <3>3. f \in Seq(Byte)  BY <3>2, LinesAreBytes, Zenon
    <3> HIDE DEF f
    <3>4. LastChunk \in Seq(Byte) /\ Crlf \in Seq(Byte) /\ f \o Crlf \in Seq(Byte)  BY <3>3, CrlfFacts, BytesJoin, Zenon
    <3>5. pipe \in Seq(Byte)
      <4>1. <<>> \in Seq(Byte) /\ Flow(dec, pipe, out, sent, <<>>)  BY <1>9
      <4> QED  BY <4>1, FlowBytes, Zenon
    <3>6. pipe \o LastChunk \in Seq(Byte) /\ LastChunk \o (f \o Crlf) \in Seq(Byte)  BY <3>4, <3>5, BytesJoin, Zenon
    <3>7. Regroups(pipe \o LastChunk, f, Crlf)  BY <3>3, <3>4, <3>6, Regroup, Zenon
    <3>8. Regroups(pipe, LastChunk, f \o Crlf)  BY <3>4, <3>5, Regroup, Zenon
    <3>9. pipe' = pipe \o (LastChunk \o (f \o Crlf))  BY <3>1, <3>7, <3>8, Zenon DEF Regroups
    <3>10. Flow(dec, pipe \o (LastChunk \o (f \o Crlf)), out, sent, LastChunk \o (f \o Crlf))
      BY <1>9, <3>6, FlowTail, Zenon
    <3>11. MessageTail' = LastChunk \o (f \o Crlf)  BY <1>0, <1>7, <3>1 DEF MessageTail, TailOf, f
    <3>12. Flow(dec', pipe', out', sent', MessageTail')  BY <1>0, <3>9, <3>10, <3>11
    <3>13. ChunkedFlows'  BY <1>0, <1>7, <1>9, <2>0, <3>1, <3>12 DEF ChunkedFlows
    <3> QED  BY <1>7, <1>8, <3>13 DEF CodecInv
  <2> QED  BY <2>1, <2>2
<1>10. CASE LengthFlows /\ kind = "length" /\ enc.left # 0
  <2>1. pipe' = pipe /\ s = "ending" /\ fields' = {}  BY <1>0, <1>3, <1>4, <1>10
  <2>2. ended = FALSE /\ Waits(dec, Len(pipe) + enc.left)  BY <1>0, <1>10 DEF LengthFlows
  <2>3. Waits(dec', Len(pipe') + enc'.left)  BY <1>0, <1>7, <2>1, <2>2
  <2>4. LengthFlows'  BY <1>0, <1>7, <1>10, <2>1, <2>2, <2>3 DEF LengthFlows
  <2> QED  BY <1>7, <1>8, <2>4 DEF CodecInv
<1> QED  BY <1>0, <1>9, <1>10, Writing

\* The decoder takes a slice of n bytes.
SliceTaken(n) ==
  \/ dec.state = "Body" /\ dec' = ReadBody(dec, n)
  \/ dec.state = "Length" /\ dec' = ReadLength(dec, n)

\* What Receive does: one byte of the coding, or a slice of the data.
LEMMA ReceiveCases ==
  ASSUME Receive, pipe \in Seq(Byte)
  PROVE  /\ UNCHANGED <<kind, ended, enc, sent, fields>> /\ ended = FALSE /\ pipe # <<>>
         /\ \/ /\ dec.state \in ByteStates /\ dec' = Reads(dec, pipe[1])
               /\ pipe' = Tail(pipe) /\ out' = out
            \/ \E n \in 1 .. Len(pipe) :
                 /\ n \in 1 .. dec.size
                 /\ SliceTaken(n)
                 /\ pipe' = SubSeq(pipe, n + 1, Len(pipe)) /\ out' = out \o SubSeq(pipe, 1, n)
<1>0. UNCHANGED <<enc, sent, fields>> /\ pipe # <<>>  BY DEF Receive
<1>1. CASE DecodeByte(pipe[1], TRUE) /\ pipe' = Tail(pipe)
  <2>1. dec.state \in ByteStates /\ dec' = Reads(dec, pipe[1]) /\ UNCHANGED <<kind, out, ended>> /\ ~ended
    BY <1>1, Zenon DEF DecodeByte, Reads
  <2>2. ended = FALSE  BY <2>1
  <2> QED  BY <1>0, <1>1, <2>1, <2>2
<1>2. ASSUME NEW n \in 1 .. Len(pipe), DecodeBody(SubSeq(pipe, 1, n)) \/ DecodeLength(SubSeq(pipe, 1, n)),
             pipe' = SubSeq(pipe, n + 1, Len(pipe))
      PROVE  /\ UNCHANGED <<kind, ended>> /\ ended = FALSE
             /\ n \in 1 .. dec.size
             /\ SliceTaken(n)
             /\ out' = out \o SubSeq(pipe, 1, n)
  <2>1. PICK s : s = SubSeq(pipe, 1, n)  OBVIOUS
  <2>2. Len(s) = n
    <3>1. Fronts(Byte, pipe, <<>>, n)
      <4>1. <<>> \in Seq(Byte)  OBVIOUS
      <4> QED  BY <4>1, FrontOf
    <3> QED  BY <2>1, <3>1, Zenon DEF Fronts
  <2>3. CASE DecodeBody(s)
    <3>1. ~ended /\ dec.state = "Body" /\ n \in 1 .. dec.size /\ dec' = ReadBody(dec, n) /\ out' = out \o s
          /\ UNCHANGED <<kind, ended>>
      BY <2>2, <2>3, Zenon DEF DecodeBody
    <3>2. ended = FALSE  BY <3>1
    <3> QED  BY <2>1, <3>1, <3>2 DEF SliceTaken
  <2>4. CASE DecodeLength(s)
    <3>1. ~ended /\ dec.state = "Length" /\ n \in 1 .. dec.size /\ dec' = ReadLength(dec, n) /\ out' = out \o s
          /\ UNCHANGED <<kind, ended>>
      BY <2>2, <2>4, Zenon DEF DecodeLength
    <3>2. ended = FALSE  BY <3>1
    <3> QED  BY <2>1, <3>1, <3>2 DEF SliceTaken
  <2> QED  BY <1>2, <2>1, <2>3, <2>4
<1>3. CASE \E n \in 1 .. Len(pipe) :
             /\ DecodeBody(SubSeq(pipe, 1, n)) \/ DecodeLength(SubSeq(pipe, 1, n))
             /\ pipe' = SubSeq(pipe, n + 1, Len(pipe))
  <2>1. PICK n \in 1 .. Len(pipe) :
             /\ DecodeBody(SubSeq(pipe, 1, n)) \/ DecodeLength(SubSeq(pipe, 1, n))
             /\ pipe' = SubSeq(pipe, n + 1, Len(pipe))
    BY <1>3
  <2>2. /\ UNCHANGED <<kind, ended>> /\ ended = FALSE
        /\ n \in 1 .. dec.size
        /\ SliceTaken(n)
        /\ out' = out \o SubSeq(pipe, 1, n)
    BY <1>2, <2>1
  <2> QED  BY <1>0, <2>1, <2>2, Zenon
<1> QED  BY <1>1, <1>3 DEF Receive

\* Decoder::decode on chunks, whatever of the pipe it sees.
LEMMA ReceiveChunked ==
  ASSUME CodecInv, Receive, ~Foreign, ChunkedFlows
  PROVE  ChunkedFlows'
<1>0. MessageTail \in Seq(Byte) /\ Cardinality(fields) \in Nat /\ RoomFor(Cardinality(fields))
      /\ (enc.state # "done" => MessageTail = <<>>)
      /\ (enc.state = "done" => MessageTail = LastChunk \o TailOf(Cardinality(fields)))
  BY TailType, Zenon
<1>1. kind = "chunked" /\ enc.state \in {"body", "ending", "done"} /\ (enc.state # "done" => fields = {})
      /\ out \in Seq(Byte)
  BY DEF ChunkedFlows
<1>2. CASE Flow(dec, pipe, out, sent, MessageTail)
  <2>1. pipe \in Seq(Byte)  BY <1>0, <1>2, FlowBytes, Zenon
  <2>2. dec.state \in ByteStates \cup {"Body"}
    <3>1. PICK cur, y : Within(dec, cur, y)  BY <1>2, Zenon DEF Flow
    <3> QED  BY <3>1, WithinFacts, Zenon
  <2>3. UNCHANGED <<kind, ended, enc, sent, fields>> /\ ended = FALSE /\ pipe # <<>>  BY <2>1, ReceiveCases
  <2>4. MessageTail' = MessageTail  BY <2>3 DEF MessageTail
  <2>5. CASE dec.state \in ByteStates /\ dec' = Reads(dec, pipe[1]) /\ pipe' = Tail(pipe) /\ out' = out
    <3>1. CASE Flow(Reads(dec, pipe[1]), Tail(pipe), out, sent, MessageTail)
      <4>1. Flow(dec', pipe', out', sent', MessageTail')  BY <2>3, <2>4, <2>5, <3>1
      <4> QED  BY <1>1, <2>3, <2>5, <4>1 DEF ChunkedFlows
    <3>2. CASE dec = Dec("Start", 0) /\ pipe = MessageTail /\ out = sent
      <4>1. enc.state = "done"  BY <1>0, <2>3, <3>2
      <4>2. PICK k \in Nat : k = Cardinality(fields)  BY <1>0
      <4>3. pipe = LastChunk \o TailOf(k)  BY <1>0, <3>2, <4>1, <4>2
      <4>4. pipe[1] = 0 /\ Tail(pipe) = Crlf \o TailOf(k)  BY <4>3, TailStarts, Zenon
      <4>5. Reads(Dec("Start", 0), 0) = Dec("Size", 0)
        <5>1. 0 \in Nat /\ 0 \in Digit /\ 0 * Radix + 0 = 0 /\ 0 <= MaxSize  BY DecoderAssumption DEF Digit
        <5>2. PICK n : n = 0 * Radix + 0  OBVIOUS
        <5>3. n = 0 /\ n <= MaxSize  BY <5>1, <5>2
        <5>4. Reads(Dec("Start", 0), 0) = Dec("Size", n)  BY <5>1, <5>2, <5>3, ReadsChunk, Zenon
        <5> QED  BY <5>3, <5>4
      <4>6. dec' = Dec("Size", 0) /\ pipe' = Crlf \o TailOf(k)  BY <2>5, <3>2, <4>4, <4>5, Zenon
      <4>7. AtEnd(dec', pipe', k)  BY <4>6, Zenon DEF AtEnd
      <4>8. AtEnd(dec', pipe', Cardinality(fields'))  BY <2>3, <4>2, <4>7
      <4> QED  BY <1>1, <2>3, <2>5, <3>2, <4>1, <4>8 DEF ChunkedFlows
    <3> QED  BY <1>0, <1>1, <1>2, <2>3, <2>5, <3>1, <3>2, FlowByte, Zenon
  <2>6. ASSUME NEW n \in 1 .. Len(pipe), n \in 1 .. dec.size,
               SliceTaken(n),
               pipe' = SubSeq(pipe, n + 1, Len(pipe)), out' = out \o SubSeq(pipe, 1, n)
        PROVE  ChunkedFlows'
    <3>1. dec.state = "Body" /\ dec' = ReadBody(dec, n)  BY <2>2, <2>6 DEF ByteStates, SliceTaken
    <3>2. /\ Flow(ReadBody(dec, n), SubSeq(pipe, n + 1, Len(pipe)), out \o SubSeq(pipe, 1, n), sent, MessageTail)
          /\ out \o SubSeq(pipe, 1, n) \in Seq(Byte)
      BY <1>0, <1>1, <1>2, <2>6, <3>1, FlowSlice, Zenon
    <3>3. Flow(dec', pipe', out', sent', MessageTail') /\ out' \in Seq(Byte)  BY <2>3, <2>4, <2>6, <3>1, <3>2, Zenon
    <3> QED  BY <1>1, <2>3, <3>3 DEF ChunkedFlows
  <2> QED  BY <2>1, <2>5, <2>6, ReceiveCases
<1>3. CASE enc.state = "done" /\ AtEnd(dec, pipe, Cardinality(fields)) /\ out = sent
  <2>1. pipe \in Seq(Byte) /\ dec.state \in ByteStates \cup {"End"}  BY <1>0, <1>3, AtEndFacts, Zenon
  <2>2. UNCHANGED <<kind, ended, enc, sent, fields>> /\ ended = FALSE /\ pipe # <<>>  BY <2>1, ReceiveCases
  <2>3. dec.state # "Body" /\ dec.state # "Length"  BY <2>1 DEF ByteStates
  <2>4. dec' = Reads(dec, pipe[1]) /\ pipe' = Tail(pipe) /\ out' = out  BY <2>1, <2>3, ReceiveCases DEF SliceTaken
  <2>5. AtEnd(Reads(dec, pipe[1]), Tail(pipe), Cardinality(fields))  BY <1>0, <1>3, <2>2, AtEndStep, Zenon
  <2>6. AtEnd(dec', pipe', Cardinality(fields'))  BY <2>2, <2>4, <2>5
  <2> QED  BY <1>1, <1>3, <2>2, <2>4, <2>6 DEF ChunkedFlows
<1> QED  BY <1>2, <1>3 DEF ChunkedFlows

\* Decoder::decode on a body with a length.
LEMMA ReceiveLength ==
  ASSUME CodecInv, Receive, ~Foreign, LengthFlows
  PROVE  LengthFlows'
<1>0. pipe \in Seq(Byte) /\ out \in Seq(Byte) /\ sent = out \o pipe /\ enc.left \in Nat /\ Len(pipe) \in Nat
  <2>1. pipe \in Seq(Byte) /\ out \in Seq(Byte) /\ sent = out \o pipe  BY DEF LengthFlows
  <2>2. enc.left \in Nat  BY DEF CodecInv, EncShape, EncStates
  <2> QED  BY <2>1, <2>2
<1>1. UNCHANGED <<kind, ended, enc, sent, fields>> /\ ended = FALSE /\ pipe # <<>>  BY <1>0, ReceiveCases
<1>2. PICK a : a = Len(pipe) + enc.left  OBVIOUS
<1>3. a \in Nat /\ a > 0
  <2>1. Len(pipe) > 0  BY <1>0, <1>1
  <2> QED  BY <1>0, <1>2, <2>1
<1>4. dec = Dec("Length", a)
  <2>1. Waits(dec, a)  BY <1>1, <1>2 DEF LengthFlows
  <2> QED  BY <1>3, <2>1 DEF Waits
<1>5. dec.state = "Length" /\ dec.size = a /\ dec.state \notin ByteStates /\ dec.state # "Body"
  BY <1>4 DEF Dec, ByteStates
<1>6. PICK n \in 1 .. Len(pipe) : /\ dec' = ReadLength(dec, n) /\ pipe' = SubSeq(pipe, n + 1, Len(pipe))
                                  /\ out' = out \o SubSeq(pipe, 1, n)
  BY <1>0, <1>5, ReceiveCases DEF SliceTaken
<1>7. PICK u, v : u = SubSeq(pipe, 1, n) /\ v = SubSeq(pipe, n + 1, Len(pipe))  OBVIOUS
<1>8. u \in Seq(Byte) /\ v \in Seq(Byte) /\ pipe = u \o v /\ Len(v) = Len(pipe) - n
  <2>1. Fronts(Byte, pipe, <<>>, n)
    <3>1. <<>> \in Seq(Byte)  OBVIOUS
    <3> QED  BY <1>0, <3>1, FrontOf
  <2> QED  BY <1>7, <2>1, Zenon DEF Fronts
<1>9. pipe' = v /\ out' = out \o u  BY <1>6, <1>7
<1>10. out' \in Seq(Byte)  BY <1>0, <1>8, <1>9, BytesJoin, Zenon
<1>11. sent' = out' \o pipe'
  <2>1. Regroups(out, u, v)  BY <1>0, <1>8, Regroup, Zenon
  <2> QED  BY <1>0, <1>1, <1>8, <1>9, <2>1, Zenon DEF Regroups
<1>12. n \in Nat /\ n <= a /\ a - n = Len(v) + enc.left /\ (a - n = 0 <=> ~(n < a))
  <2>1. PICK L, V, f : L = Len(pipe) /\ V = Len(v) /\ f = enc.left  OBVIOUS
  <2>2. L \in Nat /\ f \in Nat /\ n \in 1 .. L /\ a = L + f /\ V = L - n  BY <1>0, <1>2, <1>8, <2>1, Zenon
  <2>3. n \in Nat /\ n <= a /\ a - n = V + f /\ (a - n = 0 <=> ~(n < a))  BY <2>2
  <2> QED  BY <2>1, <2>3, Zenon
<1>13. Waits(dec', a - n)
  <2>1. CASE n < a
    <3>1. ReadLength(Dec("Length", a), n) = Dec("Length", a - n)  BY <1>3, <1>12, <2>1, ReadsSlice, Zenon
    <3>2. a - n # 0  BY <1>12, <2>1
    <3>3. dec' = Dec("Length", a - n)  BY <1>4, <1>6, <3>1, Zenon
    <3> QED  BY <3>2, <3>3 DEF Waits
  <2>2. CASE ~(n < a)
    <3>1. a - n = 0  BY <1>12, <2>2
    <3>2. ReadLength(Dec("Length", a), n) = Dec("End", 0)  BY <1>3, <1>12, <2>2, <3>1, ReadsSlice, Zenon
    <3>3. dec' = Dec("End", 0)  BY <1>4, <1>6, <3>2, Zenon
    <3> QED  BY <3>1, <3>3 DEF Waits
  <2> QED  BY <2>1, <2>2
<1>14. Waits(dec', Len(pipe') + enc'.left)  BY <1>1, <1>9, <1>12, <1>13
<1> QED  BY <1>1, <1>8, <1>9, <1>10, <1>11, <1>14 DEF LengthFlows

\* The decoder reads.
LEMMA ReceiveKeeps ==
  ASSUME CodecInv, Receive
  PROVE  CodecInv'
<1>1. pipe # <<>> /\ UNCHANGED <<enc, sent, fields>>  BY DEF Receive
<1>2. ~Foreign  BY <1>1 DEF CodecInv
<1>3. EncShape' /\ ~Foreign' /\ fields' \subseteq enc'.allowed \ Forbidden  BY <1>1, <1>2 DEF CodecInv, EncShape, Foreign
<1>4. ChunkedFlows' \/ LengthFlows'  BY <1>2, ReceiveChunked, ReceiveLength DEF CodecInv
<1> QED  BY <1>3, <1>4 DEF CodecInv

\* A connection that closed in the middle of a body with a length.
LEMMA HangupKeeps ==
  ASSUME CodecInv, Hangup
  PROVE  CodecInv'
<1>1. enc.state = "closed" /\ pipe = <<>> /\ UNCHANGED <<enc, sent, fields, pipe, kind, out>> /\ ended' = TRUE
      /\ ended = FALSE /\ dec' = Goto(dec, IF dec.state = "Eof" THEN "End" ELSE "Err")
  BY DEF Hangup, SocketEnds
<1>2. ~Foreign /\ ~ChunkedFlows  BY <1>1 DEF Foreign, ChunkedFlows
<1>3. LengthFlows  BY <1>2 DEF CodecInv
<1>4. PICK a : dec = Dec(IF a = 0 THEN "End" ELSE "Length", a)  BY <1>1, <1>3 DEF LengthFlows, Waits
<1>5. dec.state # "Eof"  BY <1>4 DEF Dec
<1>6. dec' = Goto(dec, "Err")  BY <1>1, <1>5
<1>7. dec'.state = "Err"  BY <1>4, <1>6 DEF Goto, Dec
<1>8. LengthFlows'  BY <1>1, <1>3, <1>7 DEF LengthFlows
<1>9. EncShape' /\ ~Foreign' /\ fields' \subseteq enc'.allowed \ Forbidden  BY <1>1, <1>2 DEF CodecInv, EncShape, Foreign
<1> QED  BY <1>8, <1>9 DEF CodecInv

\* Every step keeps the invariant.
LEMMA CodecInvNext == CodecInv /\ [CNext]_cvars => CodecInv'
<1> SUFFICES ASSUME CodecInv, [CNext]_cvars PROVE CodecInv'  OBVIOUS
<1>1. ASSUME NEW m \in Frames, Encode(m) PROVE CodecInv'  BY <1>1, EncodeKeeps
<1>2. ASSUME NEW m \in Frames, EncodeAndEnd(m) PROVE CodecInv'  BY <1>2, EncodeAndEndKeeps
<1>3. CASE End  BY <1>3, EndKeeps
<1>4. ASSUME NEW ts \in SUBSET FieldNames, EncodeTrailers(ts) PROVE CodecInv'  BY <1>4, EncodeTrailersKeeps
<1>5. CASE Receive  BY <1>5, ReceiveKeeps
<1>6. CASE Hangup  BY <1>6, HangupKeeps
<1>7. CASE Anything  BY <1>7 DEF Anything, CodecInv, EncShape, Foreign
<1>8. CASE UNCHANGED cvars
  <2>1. UNCHANGED <<kind, dec, out, ended, enc, sent, fields, pipe>>  BY <1>8 DEF cvars, bvars
  <2> QED  BY <2>1 DEF CodecInv, EncShape, Foreign, ChunkedFlows, LengthFlows, MessageTail
<1> QED  BY <1>1, <1>2, <1>3, <1>4, <1>5, <1>6, <1>7, <1>8 DEF CNext

\* The invariant holds in every reachable state.
LEMMA CodecInvariance == CSpec => []CodecInv
BY CodecInvInit, CodecInvNext, PTL DEF CSpec

\* Code: Encoder::encode, encode_and_end, end and encode_trailers against
\* Decoder::decode.  For every radix, width of sizes, set of frames and
\* trailer fields: however the wire cuts what an encoder wrote, the decoder
\* delivers the body that was given, ends when it was ended and not when it
\* was aborted, fails on nothing and counts the fields that were allowed.
THEOREM CodecsAgree == CSpec => []CodecAgrees
BY CodecInvariance, CodecInvAgrees, PTL

-----------------------------------------------------------------------------
(* BodyDecoder: the lines of the grammar.                                  *)

\* The bytes the grammar tells apart.
LEMMA BytesDiffer ==
  /\ Radix \in Nat /\ Radix > 1
  /\ \A x \in Digit : x \in Nat /\ x # Ws /\ x # Semi /\ x # Cr /\ x # Lf /\ x \in Byte
  /\ Ws # Semi /\ Ws # Cr /\ Ws # Lf /\ Semi # Cr /\ Semi # Lf /\ Cr # Lf
  /\ Ws \notin Digit /\ Semi \notin Digit /\ Cr \notin Digit /\ Lf \notin Digit
  /\ Ws \in Byte /\ Semi \in Byte /\ Cr \in Byte /\ Lf \in Byte
BY DecoderAssumption DEF Digit, Byte, Cr, Lf, Other, Ws, Semi

\* The body of the loop of Value.
PushesDigit == [p \in Nat \X Digit |-> p[1] * Radix + p[2]]

\* Value is a loop.
LEMMA ValueResult ==
  ASSUME NEW s \in Seq(Digit)
  PROVE  Result(Nat, PushesDigit, 0, s, Value(s))
<1> DEFINE F(g) == [i \in 0 .. Len(s) |-> IF i = 0 THEN 0 ELSE g[i - 1] * Radix + s[i]]
           c == CHOOSE g : g = F(g)
           A == Nat
           S == Digit
           G == PushesDigit
<1>0. G \in [A \X S -> A] /\ \A a \in A, x \in S : G[<<a, x>>] = a * Radix + x
  BY DigitPushed DEF PushesDigit
<1>1. PICK f \in [0 .. Len(s) -> A] :
        f[0] = 0 /\ \A i \in 1 .. Len(s) : f[i] = G[<<f[i - 1], s[i]>>]
  <2>1. 0 \in A /\ G \in [A \X S -> A] /\ s \in Seq(S)  BY <1>0
  <2>2. Runnable(A, G, 0, s)
    <3> HIDE DEF A, G, S
    <3> QED  BY <2>1, RunsExists
  <2> QED  BY <2>2, Zenon DEF Runnable
<1>2. f = F(f)
  <2>1. ASSUME NEW i \in 0 .. Len(s) PROVE f[i] = F(f)[i]
    <3>1. CASE i = 0  BY <1>1, <3>1
    <3>2. CASE i # 0
      <4>0. i \in 1 .. Len(s) /\ i - 1 \in 0 .. Len(s)  BY <3>2
      <4>a. s[i] \in S
        <5>1. s \in Seq(S)  OBVIOUS
        <5> HIDE DEF S
        <5> QED  BY <4>0, <5>1
      <4>1. f[i - 1] \in A
        <5> HIDE DEF A, G
        <5> QED  BY <1>1, <4>0
      <4> HIDE DEF A, G, S
      <4> QED  BY <1>0, <1>1, <3>2, <4>0, <4>1, <4>a
    <3> QED  BY <3>1, <3>2
  <2> QED  BY <1>1, <2>1
<1>3. c = F(c)  BY <1>2, Zenon
<1> DEFINE H == F(c)
<1>4. c[0] = 0
  <2>1. H[0] = 0  OBVIOUS
  <2> HIDE DEF c, F
  <2> QED  BY <1>3, <2>1, Zenon
<1>5. ASSUME NEW i \in 1 .. Len(s), c[i - 1] \in A PROVE c[i] = G[<<c[i - 1], s[i]>>]
  <2>2. s[i] \in S
    <3>1. s \in Seq(S)  OBVIOUS
    <3> HIDE DEF S
    <3> QED  BY <3>1
  <2> HIDE DEF c, G, A, S
  <2>1. c[i] = c[i - 1] * Radix + s[i]
    <3>1. H[i] = c[i - 1] * Radix + s[i]  OBVIOUS
    <3> HIDE DEF F
    <3> QED  BY <1>3, <3>1, Zenon
  <2> QED  BY <1>0, <1>5, <2>1, <2>2
<1>6. Value(s) = c[Len(s)]  BY Zenon DEF Value
<1> HIDE DEF c
<1> QED  BY <1>4, <1>5, <1>6, Zenon DEF Result, Runs

\* The value of no digits, and of one digit more.
LEMMA ValueRules ==
  /\ Value(<<>>) = 0
  /\ \A s \in Seq(Digit) : Value(s) \in Nat
  /\ \A s \in Seq(Digit), d \in Digit : Value(Append(s, d)) = Value(s) * Radix + d
<1> DEFINE G == PushesDigit
<1>0. PICK S : S = Digit  OBVIOUS
<1>1. G \in [Nat \X S -> Nat] /\ \A n \in Nat, d \in S : G[<<n, d>>] = n * Radix + d
  BY <1>0, DigitPushed DEF PushesDigit
<1>2. \A s \in Seq(S) : Result(Nat, G, 0, s, Value(s))  BY <1>0, ValueResult
<1> HIDE DEF G
<1>3. LoopRules(Nat, S, G, 0)
  <2>1. 0 \in Nat  OBVIOUS
  <2> QED  BY <1>1, <2>1, ResultRules
<1>4. <<>> \in Seq(S) /\ \A s \in Seq(S), d \in S : Append(s, d) \in Seq(S)  OBVIOUS
<1>5. Value(<<>>) = 0  BY <1>2, <1>3, <1>4, Zenon DEF LoopRules
<1>6. \A s \in Seq(S) : Value(s) \in Nat  BY <1>2, <1>3, Zenon DEF LoopRules
<1>7. ASSUME NEW s \in Seq(S), NEW d \in S PROVE Value(Append(s, d)) = Value(s) * Radix + d
  <2>1. Value(Append(s, d)) = G[<<Value(s), d>>]  BY <1>2, <1>3, <1>4, Zenon DEF LoopRules
  <2> QED  BY <1>1, <1>6, <2>1
<1> QED  BY <1>0, <1>5, <1>6, <1>7

\* k digits, white space to m, and perhaps an extension.
IsParts(l, k, m) ==
  /\ k \in 1 .. Len(l) /\ m \in 1 .. Len(l) /\ k <= m
  /\ \A i \in 1 .. k : l[i] \in Digit
  /\ \A i \in (k + 1) .. m : l[i] = Ws
  /\ m < Len(l) => l[m + 1] = Semi /\ \A i \in (m + 2) .. Len(l) : l[i] # Lf

\* LineParts has such pairs.
LEMMA PartsAre ==
  ASSUME NEW l
  PROVE  /\ \A k, m : IsParts(l, k, m) <=> <<k, m>> \in LineParts(l)
         /\ \A p \in LineParts(l) : p = <<p[1], p[2]>>
         /\ LineOk(l) <=> l = <<>> \/ \E k, m : IsParts(l, k, m)
<1>1. ASSUME NEW k, NEW m PROVE IsParts(l, k, m) <=> <<k, m>> \in LineParts(l)
  BY DEF IsParts, LineParts
<1>2. ASSUME NEW p \in LineParts(l) PROVE p = <<p[1], p[2]>>
  <2>1. p \in (1 .. Len(l)) \X (1 .. Len(l))  BY DEF LineParts
  <2>2. PICK A : A = 1 .. Len(l)  OBVIOUS
  <2>3. p \in A \X A  BY <2>1, <2>2
  <2> QED  BY <2>3
<1>3. LineParts(l) # {} <=> \E k, m : IsParts(l, k, m)
  <2>1. ASSUME NEW p \in LineParts(l) PROVE IsParts(l, p[1], p[2])
    <3>1. <<p[1], p[2]>> \in LineParts(l)  BY <1>2, Zenon
    <3> QED  BY <1>1, <3>1, Zenon
  <2>2. ASSUME NEW k, NEW m, IsParts(l, k, m) PROVE LineParts(l) # {}  BY <1>1, <2>2, Zenon
  <2>3. LineParts(l) = {} \/ \E p : p \in LineParts(l)  OBVIOUS
  <2> QED  BY <2>1, <2>2, <2>3, Zenon
<1> QED  BY <1>1, <1>2, <1>3, Zenon DEF LineOk

\* A line has one number of digits.
LEMMA PartsUnique ==
  ASSUME NEW l \in Seq(Byte), NEW k, NEW m, IsParts(l, k, m), NEW k2, NEW m2, IsParts(l, k2, m2)
  PROVE  ~(k < k2)
<1> SUFFICES ASSUME k < k2 PROVE FALSE  OBVIOUS
<1>1. k \in Nat /\ m \in Nat /\ k2 \in Nat /\ m2 \in Nat /\ Len(l) \in Nat /\ k <= m /\ m <= Len(l) /\ k2 <= Len(l) /\ k >= 1
  BY DEF IsParts
<1>2. l[k + 1] \in Digit
  <2>1. k + 1 \in 1 .. k2  BY <1>1
  <2> QED  BY <2>1 DEF IsParts
<1>3. CASE k < m
  <2>1. k + 1 \in (k + 1) .. m  BY <1>1, <1>3
  <2>2. l[k + 1] = Ws  BY <2>1 DEF IsParts
  <2> QED  BY <1>2, <2>2, BytesDiffer
<1>4. CASE k = m
  <2>1. m < Len(l)  BY <1>1, <1>4
  <2>2. l[k + 1] = Semi  BY <1>4, <2>1 DEF IsParts
  <2> QED  BY <1>2, <2>2, BytesDiffer
<1> QED  BY <1>1, <1>3, <1>4

\* What a line means: the value of its digits, and the length of its extension.
LEMMA LineMeans ==
  ASSUME NEW l \in Seq(Byte), NEW k, NEW m, IsParts(l, k, m)
  PROVE  /\ SubSeq(l, 1, k) \in Seq(Digit) /\ SizeOf(l) = Value(SubSeq(l, 1, k)) /\ SizeOf(l) \in Nat
         /\ ExtOf(l) = (IF m < Len(l) THEN Len(l) - m - 1 ELSE 0) /\ ExtOf(l) \in Nat
<1>0. /\ k \in Nat /\ m \in Nat /\ Len(l) \in Nat /\ 1 <= k /\ k <= m /\ m <= Len(l)
      /\ \A i \in 1 .. k : l[i] \in Digit
      /\ \A i \in (k + 1) .. m : l[i] = Ws
      /\ m < Len(l) => l[m + 1] = Semi
  BY DEF IsParts
<1>1. SubSeq(l, 1, k) \in Seq(Digit)
  <2>1. PICK B, D : B = Byte /\ D = Digit  OBVIOUS
  <2>2. l \in Seq(B) /\ \A i \in 1 .. k : l[i] \in D  BY <1>0, <2>1
  <2>3. SubSeq(l, 1, k) \in Seq(D)  BY <1>0, <2>2
  <2> QED  BY <2>1, <2>3
<1>2. {p[1] : p \in LineParts(l)} = {k}
  <2>1. k \in {p[1] : p \in LineParts(l)}
    <3>1. <<k, m>> \in LineParts(l) /\ <<k, m>>[1] = k  BY PartsAre
    <3> QED  BY <3>1
  <2>2. ASSUME NEW p \in LineParts(l) PROVE p[1] = k
    <3>1. IsParts(l, p[1], p[2])  BY PartsAre
    <3>2. p[1] \in Nat  BY <1>0, <3>1 DEF IsParts
    <3>3. ~(k < p[1]) /\ ~(p[1] < k)  BY <3>1, PartsUnique
    <3> QED  BY <1>0, <3>2, <3>3
  <2> QED  BY <2>1, <2>2
<1>3. Max({k}) = k
  <2>1. k >= k  BY <1>0
  <2> QED  BY <2>1 DEF Max
<1>4. SizeOf(l) = Value(SubSeq(l, 1, k))  BY <1>2, <1>3, Zenon DEF SizeOf
<1>5. SizeOf(l) \in Nat  BY <1>1, <1>4, ValueRules
<1>6. \A i \in 1 .. m : l[i] # Semi
  <2>1. \A i \in 1 .. k : l[i] # Semi  BY <1>0, BytesDiffer
  <2>2. \A i \in (k + 1) .. m : l[i] # Semi  BY <1>0, BytesDiffer
  <2> QED  BY <1>0, <2>1, <2>2
<1> DEFINE X == {i \in DOMAIN l : \E j \in 1 .. (i - 1) : l[j] = Semi}
<1>7. DOMAIN l = 1 .. Len(l)  OBVIOUS
<1>8. ExtOf(l) = Cardinality(X)  BY DEF ExtOf
<1>9. CASE m < Len(l)
  <2>1. X = (m + 2) .. Len(l)
    <3>1. ASSUME NEW i \in X PROVE i \in (m + 2) .. Len(l)
      <4>1. i \in 1 .. Len(l)  BY <1>7
      <4>2. PICK j \in 1 .. (i - 1) : l[j] = Semi  OBVIOUS
      <4>3. ~(j <= m)  BY <1>6, <4>2
      <4> QED  BY <1>0, <4>1, <4>2, <4>3
    <3>2. ASSUME NEW i \in (m + 2) .. Len(l) PROVE i \in X
      <4>1. i \in 1 .. Len(l) /\ m + 1 \in 1 .. (i - 1)  BY <1>0
      <4>2. l[m + 1] = Semi  BY <1>0, <1>9
      <4> QED  BY <1>7, <4>1, <4>2
    <3> QED  BY <3>1, <3>2
  <2>2. m + 2 \in Int /\ Len(l) \in Int
    <3>1. PICK a, b : a = m /\ b = Len(l)  OBVIOUS
    <3>2. a \in Nat /\ b \in Nat  BY <1>0, <3>1
    <3>3. a + 2 \in Int /\ b \in Int  BY <3>2
    <3> QED  BY <3>1, <3>3
  <2>3. Cardinality((m + 2) .. Len(l)) = IF m + 2 > Len(l) THEN 0 ELSE Len(l) - (m + 2) + 1  BY <2>2, FS_Interval
  <2>4. Cardinality(X) = Len(l) - m - 1
    <3>1. PICK c, a, b : c = Cardinality((m + 2) .. Len(l)) /\ a = m /\ b = Len(l)  OBVIOUS
    <3>2. a \in Nat /\ b \in Nat /\ a < b /\ c = IF a + 2 > b THEN 0 ELSE b - (a + 2) + 1  BY <1>0, <1>9, <2>3, <3>1
    <3>3. c = b - a - 1  BY <3>2
    <3> HIDE DEF X
    <3> QED  BY <2>1, <3>1, <3>3
  <2> QED  BY <1>0, <1>1, <1>4, <1>5, <1>8, <1>9, <2>4
<1>10. CASE ~(m < Len(l))
  <2>1. X = {}
    <3> SUFFICES ASSUME NEW i \in X PROVE FALSE  OBVIOUS
    <3>1. i \in 1 .. Len(l)  BY <1>7
    <3>2. PICK j \in 1 .. (i - 1) : l[j] = Semi  OBVIOUS
    <3>3. j \in 1 .. m  BY <1>0, <1>10, <3>1, <3>2
    <3> QED  BY <1>6, <3>2, <3>3
  <2>2. Cardinality(X) = 0  BY <2>1, FS_EmptySet
  <2> QED  BY <1>1, <1>4, <1>5, <1>8, <1>10, <2>2
<1> QED  BY <1>9, <1>10

-----------------------------------------------------------------------------
(* The first chunk.                                                        *)

\* A line has no CR in it.
NoCr(l) == \A i \in 1 .. Len(l) : l[i] # Cr

\* Where the first CR is.
LEMMA FirstCrIs ==
  ASSUME NEW l \in Seq(Byte), NoCr(l)
  PROVE  /\ FirstCr(l) = 0
         /\ \A s \in Seq(Byte) : FirstCr(l \o (<<Cr>> \o s)) = Len(l) + 1
<1>1. FirstCr(l) = 0
  <2>1. {j \in 1 .. Len(l) : l[j] = Cr} = {}  BY DEF NoCr
  <2> QED  BY <2>1 DEF FirstCr
<1>2. ASSUME NEW s \in Seq(Byte) PROVE FirstCr(l \o (<<Cr>> \o s)) = Len(l) + 1
  <2>1. PICK w : w = l \o (<<Cr>> \o s)  OBVIOUS
  <2>2. Len(l) \in Nat /\ Len(w) = Len(l) + 1 + Len(s) /\ w[Len(l) + 1] = Cr /\ \A i \in 1 .. Len(l) : w[i] # Cr
    <3>1. PICK B, c : B = Byte /\ c = Cr  OBVIOUS
    <3>2. c \in B /\ l \in Seq(B) /\ s \in Seq(B) /\ w = l \o (<<c>> \o s)  BY <2>1, <3>1, BytesDiffer
    <3>3. /\ Len(l) \in Nat /\ Len(w) = Len(l) + 1 + Len(s) /\ w[Len(l) + 1] = c
          /\ \A i \in 1 .. Len(l) : w[i] = l[i]
      BY <3>2
    <3> QED  BY <3>1, <3>3 DEF NoCr
  <2> DEFINE S == {j \in 1 .. Len(w) : w[j] = Cr}
  <2>3. Len(s) \in Nat  OBVIOUS
  <2>4. Len(l) + 1 \in S  BY <2>2, <2>3
  <2>5. ASSUME NEW j \in S PROVE j \in Nat /\ Len(l) + 1 <= j  BY <2>2
  <2>6. FirstCr(w) = IF S = {} THEN 0 ELSE Min(S)  BY DEF FirstCr
  <2> HIDE DEF S
  <2>7. Min(S) = Len(l) + 1
    <3>1. PICK n : n = Len(l) + 1  OBVIOUS
    <3>2. n \in S /\ n \in Nat /\ \A j \in S : j \in Nat /\ n <= j  BY <2>2, <2>4, <2>5, <3>1
    <3>3. \A x \in S : (\A y \in S : x <= y) => x = n  BY <3>2
    <3> QED  BY <3>1, <3>2, <3>3 DEF Min
  <2> QED  BY <2>1, <2>4, <2>6, <2>7
<1> QED  BY <1>1, <1>2

\* What is before and behind the first CR.
LEMMA CutAtCr ==
  ASSUME NEW l \in Seq(Byte), NEW b \in Byte, NEW s \in Seq(Byte)
  PROVE  LET w == l \o (<<Cr>> \o (<<b>> \o s))
         IN  /\ w \in Seq(Byte) /\ Len(w) = Len(l) + 2 + Len(s) /\ w[Len(l) + 2] = b
             /\ SubSeq(w, 1, Len(l)) = l /\ SubSeq(w, Len(l) + 3, Len(w)) = s
<1>1. PICK B, c : B = Byte /\ c = Cr  OBVIOUS
<1>2. c \in B /\ l \in Seq(B) /\ s \in Seq(B) /\ b \in B  BY <1>1, BytesDiffer
<1> DEFINE w == l \o (<<c>> \o (<<b>> \o s))
<1>3. w \in Seq(B) /\ Len(w) = Len(l) + 2 + Len(s) /\ w[Len(l) + 2] = b  BY <1>2
<1>4. SubSeq(w, 1, Len(l)) = l  BY <1>2
<1>5. SubSeq(w, Len(l) + 3, Len(w)) = s
  <2> DEFINE u == SubSeq(w, Len(l) + 3, Len(w))
  <2>1. u \in Seq(B) /\ Len(u) = Len(s)  BY <1>2
  <2>2. ASSUME NEW i \in 1 .. Len(s) PROVE u[i] = s[i]  BY <1>2
  <2> HIDE DEF u
  <2>3. u = s  BY <1>2, <2>1, <2>2
  <2> QED  BY <2>3 DEF u
<1> QED  BY <1>1, <1>3, <1>4, <1>5

\* A line that no CR has ended.
LEMMA OpenLine ==
  ASSUME NEW l \in Seq(Byte), NoCr(l)
  PROVE  /\ LineOk(l) => FirstChunk(l) = Verdict("open", <<>>, ExtOf(l), <<>>)
         /\ ~LineOk(l) => FirstChunk(l) = Verdict("bad", <<>>, ExtOf(l), <<>>)
<1>1. FirstCr(l) = 0  BY FirstCrIs
<1>2. SubSeq(l, 1, Len(l)) = l  OBVIOUS
<1>3. PICK j : j = FirstCr(l)  OBVIOUS
<1>4. j = 0 /\ SubSeq(l, 1, IF j = 0 THEN Len(l) ELSE j - 1) = l  BY <1>1, <1>2, <1>3, Zenon
<1> QED  BY <1>3, <1>4, Zenon DEF FirstChunk

\* A line and its CR.
LEMMA LineAndCr ==
  ASSUME NEW l \in Seq(Byte), NoCr(l)
  PROVE  /\ LineOk(l) /\ l # <<>> => FirstChunk(l \o <<Cr>>) = Verdict("open", <<>>, ExtOf(l), <<>>)
         /\ l = <<>> => FirstChunk(l \o <<Cr>>) = Verdict("bad", <<>>, ExtOf(l), <<>>)
<1>1. PICK w : w = l \o <<Cr>>  OBVIOUS
<1>2. w = l \o (<<Cr>> \o <<>>) /\ w \in Seq(Byte) /\ Len(w) = Len(l) + 1 /\ SubSeq(w, 1, Len(l)) = l /\ Len(l) \in Nat
  <2>1. PICK B, c : B = Byte /\ c = Cr  OBVIOUS
  <2>2. c \in B /\ l \in Seq(B) /\ w = l \o <<c>>  BY <1>1, <2>1, BytesDiffer
  <2>3. w = l \o (<<c>> \o <<>>) /\ w \in Seq(B) /\ Len(w) = Len(l) + 1 /\ SubSeq(w, 1, Len(l)) = l /\ Len(l) \in Nat  BY <2>2
  <2> QED  BY <2>1, <2>3
<1>3. PICK j : j = FirstCr(w)  OBVIOUS
<1>4. j = Len(l) + 1
  <2>1. <<>> \in Seq(Byte)  OBVIOUS
  <2> QED  BY <1>2, <1>3, <2>1, FirstCrIs
<1>5. j # 0 /\ j = Len(w) /\ ~(j < Len(w)) /\ j - 1 = Len(l)  BY <1>2, <1>4
<1>6. PICK line : line = SubSeq(w, 1, IF j = 0 THEN Len(w) ELSE j - 1)  OBVIOUS
<1>7. line = l  BY <1>2, <1>5, <1>6, Zenon
<1>8. FirstChunk(w) = IF \/ ~LineOk(line)
                         \/ j # 0 /\ (line = <<>> \/ (j < Len(w) /\ w[j + 1] # Lf))
                      THEN Verdict("bad", <<>>, ExtOf(line), <<>>)
                      ELSE IF j = 0 \/ j = Len(w) THEN Verdict("open", <<>>, ExtOf(line), <<>>)
                      ELSE Behind(line, SubSeq(w, j + 2, Len(w)))
  BY <1>3, <1>6, Zenon DEF FirstChunk
<1>9. LineOk(l) /\ l # <<>> => FirstChunk(w) = Verdict("open", <<>>, ExtOf(l), <<>>)  BY <1>5, <1>7, <1>8, Zenon
<1>10. l = <<>> => FirstChunk(w) = Verdict("bad", <<>>, ExtOf(l), <<>>)  BY <1>5, <1>7, <1>8, Zenon
<1> QED  BY <1>1, <1>9, <1>10, Zenon

\* A line, its CR and what is behind it.
LEMMA WholeLine ==
  ASSUME NEW l \in Seq(Byte), NoCr(l), LineOk(l), l # <<>>, NEW b \in Byte, NEW s \in Seq(Byte)
  PROVE  /\ b = Lf => FirstChunk(l \o (<<Cr>> \o (<<b>> \o s))) = Behind(l, s)
         /\ b # Lf => FirstChunk(l \o (<<Cr>> \o (<<b>> \o s))) = Verdict("bad", <<>>, ExtOf(l), <<>>)
<1>1. PICK w : w = l \o (<<Cr>> \o (<<b>> \o s))  OBVIOUS
<1>2. w \in Seq(Byte) /\ Len(w) = Len(l) + 2 + Len(s) /\ w[Len(l) + 2] = b /\ SubSeq(w, 1, Len(l)) = l
      /\ SubSeq(w, Len(l) + 3, Len(w)) = s /\ Len(l) \in Nat /\ Len(s) \in Nat
  BY <1>1, CutAtCr
<1>3. PICK j : j = FirstCr(w)  OBVIOUS
<1>4. j = Len(l) + 1
  <2>1. <<b>> \o s \in Seq(Byte)  OBVIOUS
  <2> QED  BY <1>1, <1>3, <2>1, FirstCrIs
<1>5. /\ j # 0 /\ j # Len(w) /\ j < Len(w) /\ j - 1 = Len(l) /\ j + 1 = Len(l) + 2 /\ j + 2 = Len(l) + 3
  BY <1>2, <1>4
<1>6. PICK line : line = SubSeq(w, 1, IF j = 0 THEN Len(w) ELSE j - 1)  OBVIOUS
<1>7. line = l  BY <1>2, <1>5, <1>6, Zenon
<1>8. FirstChunk(w) = IF \/ ~LineOk(line)
                         \/ j # 0 /\ (line = <<>> \/ (j < Len(w) /\ w[j + 1] # Lf))
                      THEN Verdict("bad", <<>>, ExtOf(line), <<>>)
                      ELSE IF j = 0 \/ j = Len(w) THEN Verdict("open", <<>>, ExtOf(line), <<>>)
                      ELSE Behind(line, SubSeq(w, j + 2, Len(w)))
  BY <1>3, <1>6, Zenon DEF FirstChunk
<1>9. w[j + 1] = b /\ SubSeq(w, j + 2, Len(w)) = s  BY <1>2, <1>5, Zenon
<1>10. b = Lf => FirstChunk(w) = Behind(l, s)  BY <1>5, <1>7, <1>8, <1>9, Zenon
<1>11. b # Lf => FirstChunk(w) = Verdict("bad", <<>>, ExtOf(l), <<>>)  BY <1>5, <1>7, <1>8, <1>9, Zenon
<1> QED  BY <1>1, <1>10, <1>11, Zenon

\* A size of 0: the end of the body.
LEMMA BehindLast ==
  ASSUME NEW l, NEW s, SizeOf(l) = 0
  PROVE  Behind(l, s) = Verdict(TailIs(s), <<>>, ExtOf(l), s)
BY Zenon DEF Behind

\* The data of a chunk is not all there.
LEMMA BehindOpen ==
  ASSUME NEW l, NEW s \in Seq(Byte), SizeOf(l) \in Nat, Len(s) <= SizeOf(l), SizeOf(l) > 0
  PROVE  Behind(l, s) = Verdict("open", s, ExtOf(l), <<>>)
<1>1. PICK n : n = SizeOf(l)  OBVIOUS
<1>2. n \in Nat /\ Len(s) \in Nat /\ Len(s) <= n /\ n > 0  BY <1>1
<1>3. n # 0 /\ ~(n + 1 <= Len(s)) /\ ~(n + 2 <= Len(s)) /\ Len(s) < n + 2  BY <1>2
<1>4. SubSeq(s, 1, Len(s)) = s  OBVIOUS
<1>5. SubSeq(s, 1, IF n < Len(s) THEN n ELSE Len(s)) = s
  <2>1. ~(n < Len(s))  BY <1>2
  <2> QED  BY <1>4, <2>1, Zenon
<1> QED  BY <1>1, <1>3, <1>5, Zenon DEF Behind

\* The data is all there, and one byte more.
LEMMA BehindData ==
  ASSUME NEW l, NEW d \in Seq(Byte), SizeOf(l) = Len(d), d # <<>>, NEW b \in Byte
  PROVE  /\ b = Cr => Behind(l, d \o <<b>>) = Verdict("open", d, ExtOf(l), <<>>)
         /\ b # Cr => Behind(l, d \o <<b>>) = Verdict("bad", d, ExtOf(l), <<>>)
<1>1. PICK n, s : n = SizeOf(l) /\ s = d \o <<b>>  OBVIOUS
<1>2. n \in Nat /\ n > 0 /\ Len(s) = n + 1 /\ s[n + 1] = b /\ SubSeq(s, 1, n) = d  BY <1>1
<1>3. n # 0 /\ n < Len(s) /\ n + 1 <= Len(s) /\ ~(n + 2 <= Len(s)) /\ Len(s) < n + 2  BY <1>2
<1>5. SubSeq(s, 1, IF n < Len(s) THEN n ELSE Len(s)) = d  BY <1>2, <1>3, Zenon
<1>6. b = Cr => Behind(l, s) = Verdict("open", d, ExtOf(l), <<>>)  BY <1>1, <1>2, <1>3, <1>5, Zenon DEF Behind
<1>7. b # Cr => Behind(l, s) = Verdict("bad", d, ExtOf(l), <<>>)  BY <1>1, <1>2, <1>3, <1>5, Zenon DEF Behind
<1> QED  BY <1>1, <1>6, <1>7, Zenon

\* ... and two bytes more, and anything behind them.
LEMMA BehindWhole ==
  ASSUME NEW l, NEW d \in Seq(Byte), SizeOf(l) = Len(d), d # <<>>, NEW b \in Byte, NEW u \in Seq(Byte)
  PROVE  /\ b = Lf => Behind(l, d \o (<<Cr>> \o (<<b>> \o u))) = Verdict("chunk", d, ExtOf(l), u)
         /\ b # Lf => Behind(l, d \o (<<Cr>> \o (<<b>> \o u))) = Verdict("bad", d, ExtOf(l), <<>>)
<1>1. PICK n, s : n = SizeOf(l) /\ s = d \o (<<Cr>> \o (<<b>> \o u))  OBVIOUS
<1>2. /\ n \in Nat /\ n > 0 /\ Len(u) \in Nat /\ Len(s) = n + 2 + Len(u)
      /\ s[n + 2] = b /\ SubSeq(s, 1, n) = d /\ SubSeq(s, n + 3, Len(s)) = u
  <2>1. n = Len(d) /\ n > 0 /\ n \in Nat /\ Len(u) \in Nat  BY <1>1
  <2> QED  BY <1>1, <2>1, CutAtCr
<1>3. s[n + 1] = Cr
  <2>1. PICK B, c : B = Byte /\ c = Cr  OBVIOUS
  <2>2. c \in B /\ d \in Seq(B) /\ u \in Seq(B) /\ b \in B /\ n = Len(d) /\ s = d \o (<<c>> \o (<<b>> \o u))
    BY <1>1, <2>1, BytesDiffer
  <2>3. s[n + 1] = c  BY <2>2
  <2> QED  BY <2>1, <2>3
<1>4. n # 0 /\ n < Len(s) /\ n + 1 <= Len(s) /\ n + 2 <= Len(s) /\ ~(Len(s) < n + 2)  BY <1>2
<1>5. SubSeq(s, 1, IF n < Len(s) THEN n ELSE Len(s)) = d  BY <1>2, <1>4, Zenon
<1>6. b = Lf => Behind(l, s) = Verdict("chunk", d, ExtOf(l), u)  BY <1>1, <1>2, <1>3, <1>4, <1>5, Zenon DEF Behind
<1>7. b # Lf => Behind(l, s) = Verdict("bad", d, ExtOf(l), <<>>)  BY <1>1, <1>2, <1>3, <1>4, <1>5, Zenon DEF Behind
<1> QED  BY <1>1, <1>6, <1>7, Zenon

\* What is behind a whole chunk is shorter.
LEMMA BehindIsShorter ==
  ASSUME NEW w \in Seq(Byte), FirstChunk(w).st = "chunk"
  PROVE  FirstChunk(w).tail \in Seq(Byte) /\ Len(FirstChunk(w).tail) < Len(w)
<1>1. PICK j : j = FirstCr(w)  OBVIOUS
<1>2. PICK line : line = SubSeq(w, 1, IF j = 0 THEN Len(w) ELSE j - 1)  OBVIOUS
<1>3. PICK s : s = SubSeq(w, j + 2, Len(w))  OBVIOUS
<1>4. FirstChunk(w) = IF \/ ~LineOk(line)
                         \/ j # 0 /\ (line = <<>> \/ (j < Len(w) /\ w[j + 1] # Lf))
                      THEN Verdict("bad", <<>>, ExtOf(line), <<>>)
                      ELSE IF j = 0 \/ j = Len(w) THEN Verdict("open", <<>>, ExtOf(line), <<>>)
                      ELSE Behind(line, s)
  BY <1>1, <1>2, <1>3, Zenon DEF FirstChunk
<1>5. \A x, y, z, v : Verdict(x, y, z, v).st = x /\ Verdict(x, y, z, v).tail = v  BY DEF Verdict
<1>6. LineOk(line) /\ line # <<>> /\ j # 0 /\ FirstChunk(w) = Behind(line, s)
  BY <1>4, <1>5
<1>7. j \in 1 .. Len(w)
  <2> DEFINE S == {i \in 1 .. Len(w) : w[i] = Cr}
  <2>1. FirstCr(w) = IF S = {} THEN 0 ELSE Min(S)  BY DEF FirstCr
  <2>2. S \subseteq Nat  OBVIOUS
  <2>3. S # {}  BY <1>1, <1>6, <2>1
  <2>4. \E x \in S : \A y \in S : x <= y
    <3> HIDE DEF S
    <3> QED  BY <2>2, <2>3, LeastNumber
  <2>5. Min(S) \in S
    <3> HIDE DEF S
    <3> QED  BY <2>4, Zenon DEF Min
  <2> QED  BY <1>1, <2>1, <2>3, <2>5
<1>8. line \in Seq(Byte)
  <2>1. PICK i : i = IF j = 0 THEN Len(w) ELSE j - 1  OBVIOUS
  <2>2. i \in 0 .. Len(w)  BY <1>7, <2>1
  <2>3. PICK B : B = Byte  OBVIOUS
  <2>4. w \in Seq(B)  BY <2>3
  <2>5. SubSeq(w, 1, i) \in Seq(B)  BY <2>2, <2>4
  <2> QED  BY <1>2, <2>1, <2>3, <2>5, Zenon
<1>9. PICK n : n = SizeOf(line)  OBVIOUS
<1>10. n \in Nat
  <2>1. PICK k, m : IsParts(line, k, m)  BY <1>6, PartsAre, Zenon
  <2> QED  BY <1>8, <1>9, <2>1, LineMeans
<1>11. s \in Seq(Byte) /\ Len(s) < Len(w) /\ Len(s) \in Nat
  <2>1. PICK B : B = Byte  OBVIOUS
  <2>2. w \in Seq(B)  BY <2>1
  <2>3. s \in Seq(B) /\ Len(s) < Len(w) /\ Len(s) \in Nat  BY <1>3, <1>7, <2>2
  <2> QED  BY <2>1, <2>3
<1>12. n # 0
  <2>1. TailIs(s) # "chunk"  BY DEF TailIs
  <2>2. n = 0 => Behind(line, s).st = TailIs(s)
    <3>1. SizeOf(line) = 0 => Behind(line, s) = Verdict(TailIs(s), <<>>, ExtOf(line), s)  BY BehindLast
    <3>2. n = 0 => Behind(line, s) = Verdict(TailIs(s), <<>>, ExtOf(line), s)  BY <1>9, <3>1, Zenon
    <3> QED  BY <3>2 DEF Verdict
  <2> QED  BY <1>6, <2>1, <2>2
<1>13. PICK data : data = SubSeq(s, 1, IF n < Len(s) THEN n ELSE Len(s))  OBVIOUS
<1>14. Behind(line, s) =
         IF \/ n + 1 <= Len(s) /\ s[n + 1] # Cr
            \/ n + 2 <= Len(s) /\ s[n + 2] # Lf
         THEN Verdict("bad", data, ExtOf(line), <<>>)
         ELSE IF Len(s) < n + 2 THEN Verdict("open", data, ExtOf(line), <<>>)
         ELSE Verdict("chunk", data, ExtOf(line), SubSeq(s, n + 3, Len(s)))
  BY <1>9, <1>12, <1>13, Zenon DEF Behind
<1>15. ~(Len(s) < n + 2) /\ FirstChunk(w).tail = SubSeq(s, n + 3, Len(s))
  <2>1. Behind(line, s) = Verdict("bad", data, ExtOf(line), <<>>) => FALSE  BY <1>5, <1>6
  <2>2. Behind(line, s) = Verdict("open", data, ExtOf(line), <<>>) => FALSE  BY <1>5, <1>6
  <2>3. ~(Len(s) < n + 2) /\ Behind(line, s) = Verdict("chunk", data, ExtOf(line), SubSeq(s, n + 3, Len(s)))
    BY <1>14, <2>1, <2>2, Zenon
  <2>4. FirstChunk(w) = Verdict("chunk", data, ExtOf(line), SubSeq(s, n + 3, Len(s)))  BY <1>6, <2>3, Zenon
  <2>5. FirstChunk(w).tail = SubSeq(s, n + 3, Len(s))
    <3>1. PICK v, e : v = SubSeq(s, n + 3, Len(s)) /\ e = ExtOf(line)  OBVIOUS
    <3>2. FirstChunk(w) = Verdict("chunk", data, e, v)  BY <2>4, <3>1, Zenon
    <3>3. FirstChunk(w).tail = v  BY <3>2 DEF Verdict
    <3> QED  BY <3>1, <3>3, Zenon
  <2> QED  BY <2>3, <2>5, Zenon
<1>16. PICK B : B = Byte  OBVIOUS
<1>17. s \in Seq(B)  BY <1>11, <1>16
<1>18. SubSeq(s, n + 3, Len(s)) \in Seq(B) /\ Len(SubSeq(s, n + 3, Len(s))) <= Len(s)
       /\ Len(SubSeq(s, n + 3, Len(s))) \in Nat
  BY <1>10, <1>15, <1>17
<1>19. PICK x : x = Len(SubSeq(s, n + 3, Len(s)))  OBVIOUS
<1>20. x < Len(w)
  <2>1. Len(w) \in Nat  OBVIOUS
  <2> QED  BY <1>11, <1>18, <1>19, <2>1
<1> QED  BY <1>15, <1>16, <1>18, <1>19, <1>20, Zenon

-----------------------------------------------------------------------------
(* Parse.                                                                  *)

\* What a parser says of w, which says f of shorter wires.
ParseOf(f, w) ==
  LET c == FirstChunk(w) IN IF c.st # "chunk" THEN c ELSE InFront(c, f[c.tail])

\* A parser of the wires that are shorter than n.
Short(n) == {w \in Seq(Byte) : Len(w) < n}
ParsesShort(n, f) == f = [w \in Short(n) |-> ParseOf(f, w)]

\* Parsers that agree on what is behind the first chunk agree.
LEMMA ParseOfSame ==
  ASSUME NEW f, NEW g, NEW w, FirstChunk(w).st = "chunk" => f[FirstChunk(w).tail] = g[FirstChunk(w).tail]
  PROVE  ParseOf(f, w) = ParseOf(g, w)
BY Zenon DEF ParseOf

\* What a parser says.
LEMMA ShortRule ==
  ASSUME NEW n, NEW f, ParsesShort(n, f), NEW w \in Short(n)
  PROVE  f[w] = ParseOf(f, w)
<1> DEFINE F == [v \in Short(n) |-> ParseOf(f, v)]
<1>1. F[w] = ParseOf(f, w)  OBVIOUS
<1>2. f = F  BY Zenon DEF ParsesShort
<1> HIDE DEF F
<1> QED  BY <1>1, <1>2, Zenon

\* There is a parser of the wires of each length.
LEMMA ShortExists == \A n \in Nat : \E f : ParsesShort(n, f)
<1> DEFINE T == {n \in Nat : \E f : ParsesShort(n, f)}
<1>1. 0 \in T
  <2> DEFINE f == [w \in Short(0) |-> <<>>]
             F == [w \in Short(0) |-> ParseOf(f, w)]
  <2>1. \A w \in Short(0) : FALSE
    <3>1. \A w \in Seq(Byte) : Len(w) \in Nat  OBVIOUS
    <3>2. \A w \in Seq(Byte) : ~(Len(w) < 0)  BY <3>1
    <3> QED  BY <3>2 DEF Short
  <2>2. F = f  BY <2>1
  <2>3. ParsesShort(0, f)  BY <2>2 DEF ParsesShort
  <2> HIDE DEF f
  <2> QED  BY <2>3
<1>2. ASSUME NEW n \in Nat, n \in T PROVE n + 1 \in T
  <2>1. PICK f : ParsesShort(n, f)  BY <1>2
  <2> DEFINE g == [w \in Short(n + 1) |-> ParseOf(f, w)]
  <2>2. ASSUME NEW w \in Short(n + 1) PROVE ParseOf(f, w) = ParseOf(g, w)
    <3>1. CASE FirstChunk(w).st = "chunk"
      <4>1. PICK t : t = FirstChunk(w).tail  OBVIOUS
      <4>2. t \in Seq(Byte) /\ Len(t) < n /\ Len(t) < n + 1
        <5>1. w \in Seq(Byte) /\ Len(w) < n + 1 /\ Len(w) \in Nat  BY DEF Short
        <5>2. t \in Seq(Byte) /\ Len(t) < Len(w)  BY <3>1, <4>1, <5>1, BehindIsShorter
        <5>3. Len(t) \in Nat  BY <5>2
        <5> QED  BY <5>1, <5>2, <5>3
      <4>3. t \in Short(n) /\ t \in Short(n + 1)  BY <4>2 DEF Short
      <4>4. g[t] = ParseOf(f, t)  BY <4>3
      <4>5. f[t] = ParseOf(f, t)  BY <2>1, <4>3, ShortRule
      <4> HIDE DEF g
      <4> QED  BY <4>1, <4>4, <4>5, ParseOfSame
    <3>2. CASE FirstChunk(w).st # "chunk"
      <4> HIDE DEF g
      <4> QED  BY <3>2, ParseOfSame
    <3> QED  BY <3>1, <3>2
  <2>3. g = [w \in Short(n + 1) |-> ParseOf(g, w)]
    <3> DEFINE h == [w \in Short(n + 1) |-> ParseOf(g, w)]
    <3>1. \A w \in Short(n + 1) : g[w] = h[w]  BY <2>2
    <3>2. g = [w \in Short(n + 1) |-> g[w]] /\ h = [w \in Short(n + 1) |-> h[w]]  OBVIOUS
    <3> HIDE DEF g, h
    <3>3. g = h  BY <3>1, <3>2
    <3> QED  BY <3>3 DEF h
  <2> HIDE DEF g
  <2>4. ParsesShort(n + 1, g)  BY <2>3, Zenon DEF ParsesShort
  <2> QED  BY <2>4
<1>3. Nat \subseteq T
  <2> HIDE DEF T
  <2> QED  BY <1>1, <1>2, SetInduction
<1> QED  BY <1>3

\* All parsers agree.
LEMMA ShortAgree ==
  ASSUME NEW n \in Nat, NEW m \in Nat, NEW f, NEW g, ParsesShort(n, f), ParsesShort(m, g)
  PROVE  \A w : w \in Short(n) /\ w \in Short(m) => f[w] = g[w]
<1> DEFINE T == {k \in Nat : \A w : w \in Short(k) /\ w \in Short(n) /\ w \in Short(m) => f[w] = g[w]}
<1>0. \A w \in Seq(Byte) : Len(w) \in Nat  OBVIOUS
<1>1. 0 \in T  BY <1>0 DEF Short
<1>2. ASSUME NEW k \in Nat, k \in T PROVE k + 1 \in T
  <2> SUFFICES ASSUME NEW w, w \in Short(k + 1), w \in Short(n), w \in Short(m) PROVE f[w] = g[w]  OBVIOUS
  <2>1. f[w] = ParseOf(f, w) /\ g[w] = ParseOf(g, w)  BY ShortRule
  <2>2. ASSUME FirstChunk(w).st = "chunk" PROVE f[FirstChunk(w).tail] = g[FirstChunk(w).tail]
    <3>1. PICK t : t = FirstChunk(w).tail  OBVIOUS
    <3>2. w \in Seq(Byte) /\ Len(w) < k + 1 /\ Len(w) < n /\ Len(w) < m /\ Len(w) \in Nat  BY DEF Short
    <3>3. t \in Seq(Byte) /\ Len(t) < Len(w)  BY <2>2, <3>1, <3>2, BehindIsShorter
    <3>4. Len(t) \in Nat  BY <3>3
    <3>5. Len(t) < k /\ Len(t) < n /\ Len(t) < m  BY <3>2, <3>3, <3>4
    <3>6. t \in Short(k) /\ t \in Short(n) /\ t \in Short(m)  BY <3>3, <3>5 DEF Short
    <3> QED  BY <1>2, <3>1, <3>6
  <2> QED  BY <2>1, <2>2, ParseOfSame
<1>3. Nat \subseteq T
  <2> HIDE DEF T
  <2> QED  BY <1>1, <1>2, SetInduction
<1> SUFFICES ASSUME NEW w, w \in Short(n), w \in Short(m) PROVE f[w] = g[w]  OBVIOUS
<1>4. n \in T  BY <1>3
<1> QED  BY <1>4

\* Parse is the parser of all wires.
LEMMA ParseRule == \A w \in Seq(Byte) : Parse[w] = ParseOf(Parse, w)
<1> DEFINE C(n) == CHOOSE f : ParsesShort(n, f)
           F == [w \in Seq(Byte) |-> C(Len(w) + 1)[w]]
           H(p) == [w \in Seq(Byte) |-> ParseOf(p, w)]
<1>1. \A n \in Nat : ParsesShort(n, C(n))  BY ShortExists, Zenon
<1> HIDE DEF C
<1>2. ASSUME NEW w \in Seq(Byte) PROVE F[w] = ParseOf(F, w)
  <2>0. PICK n : n = Len(w) + 1  OBVIOUS
  <2>1. n \in Nat /\ w \in Short(n)  BY <2>0 DEF Short
  <2>2. F[w] = C(n)[w]  BY <2>0
  <2>3. C(n)[w] = ParseOf(C(n), w)  BY <1>1, <2>1, ShortRule
  <2>4. ASSUME FirstChunk(w).st = "chunk" PROVE C(n)[FirstChunk(w).tail] = F[FirstChunk(w).tail]
    <3>1. PICK t : t = FirstChunk(w).tail  OBVIOUS
    <3>2. t \in Seq(Byte) /\ Len(t) < Len(w)  BY <2>4, <3>1, BehindIsShorter
    <3>3. PICK m : m = Len(t) + 1  OBVIOUS
    <3>4. Len(t) \in Nat /\ Len(w) \in Nat  BY <3>2
    <3>5. m \in Nat /\ Len(t) < m /\ Len(t) < n  BY <2>0, <3>2, <3>3, <3>4
    <3>6. t \in Short(m) /\ t \in Short(n)  BY <3>2, <3>5 DEF Short
    <3>7. F[t] = C(m)[t]  BY <3>2, <3>3
    <3>8. ParsesShort(m, C(m)) /\ ParsesShort(n, C(n))  BY <1>1, <2>1, <3>5
    <3>9. C(n)[t] = C(m)[t]
      <4>1. PICK f, g : f = C(n) /\ g = C(m)  OBVIOUS
      <4>2. ParsesShort(n, f) /\ ParsesShort(m, g)  BY <3>8, <4>1
      <4>3. f[t] = g[t]  BY <2>1, <3>5, <3>6, <4>2, ShortAgree
      <4> QED  BY <4>1, <4>3
    <3> HIDE DEF F
    <3> QED  BY <3>1, <3>7, <3>9
  <2> HIDE DEF F
  <2>5. ParseOf(C(n), w) = ParseOf(F, w)  BY <2>4, ParseOfSame
  <2> QED  BY <2>2, <2>3, <2>5
<1>3. F = H(F)
  <2>1. \A w \in Seq(Byte) : F[w] = H(F)[w]  BY <1>2
  <2>2. PICK f, h, B : f = F /\ h = H(F) /\ B = Seq(Byte)  OBVIOUS
  <2>3. f = [w \in B |-> f[w]] /\ h = [w \in B |-> h[w]]  BY <2>2
  <2>4. f = h  BY <2>1, <2>2, <2>3
  <2> QED  BY <2>2, <2>4
<1> HIDE DEF F
<1>4. Parse = H(Parse)
  <2>1. Parse = CHOOSE p : p = H(p)  BY Zenon DEF Parse, ParseOf
  <2> HIDE DEF H
  <2> QED  BY <1>3, <2>1, Zenon
<1> SUFFICES ASSUME NEW w \in Seq(Byte) PROVE Parse[w] = ParseOf(Parse, w)  OBVIOUS
<1>5. H(Parse)[w] = ParseOf(Parse, w)  OBVIOUS
<1> HIDE DEF H
<1> QED  BY <1>4, <1>5, Zenon

-----------------------------------------------------------------------------
(* Whole chunks in front of a wire.                                        *)

\* A verdict with data and a count.
IsVerdict(v) == v = Verdict(v.st, v.data, v.ext, v.tail) /\ v.data \in Seq(Byte) /\ v.ext \in Nat

\* p is whole chunks with the data D and E bytes of extensions.
Fronting(p, D, E) ==
  /\ p \in Seq(Byte) /\ D \in Seq(Byte) /\ E \in Nat
  /\ \A s \in Seq(Byte) : IsVerdict(Parse[s]) => Parse[p \o s] = InFront(Verdict("chunk", D, E, <<>>), Parse[s])

\* The fields of a verdict.
LEMMA VerdictIs ==
  ASSUME NEW st, NEW data \in Seq(Byte), NEW ext \in Nat, NEW tail
  PROVE  LET v == Verdict(st, data, ext, tail)
         IN  /\ IsVerdict(v)
             /\ v.st = st /\ v.data = data /\ v.ext = ext /\ v.tail = tail
BY DEF IsVerdict, Verdict

\* What a chunk with the data D in front makes of a verdict.
Fronted(c, D, E, u, st, data, ext, tail) ==
  /\ InFront(Verdict(c, D, E, u), Verdict(st, data, ext, tail)) = Verdict(st, D \o data, E + ext, tail)
  /\ D \o data \in Seq(Byte) /\ E + ext \in Nat

\* A verdict on what is behind whole chunks.
LEMMA InFrontIs ==
  \A D, data \in Seq(Byte), E, ext \in Nat : \A c, u, st, tail : Fronted(c, D, E, u, st, data, ext, tail)
<1> SUFFICES ASSUME NEW D \in Seq(Byte), NEW E \in Nat, NEW u,
                    NEW st, NEW data \in Seq(Byte), NEW ext \in Nat, NEW tail, NEW c
             PROVE  Fronted(c, D, E, u, st, data, ext, tail)
  BY Zenon
<1>1. D \o data \in Seq(Byte) /\ E + ext \in Nat  OBVIOUS
<1>2. PICK v : v = Verdict(st, data, ext, tail)  OBVIOUS
<1>3. PICK x : x = Verdict(c, D, E, u)  OBVIOUS
<1>4. v.st = st /\ v.data = data /\ v.ext = ext /\ v.tail = tail /\ x.data = D /\ x.ext = E
  BY <1>2, <1>3 DEF Verdict
<1>5. InFront(x, v) = Verdict(v.st, x.data \o v.data, x.ext + v.ext, v.tail)  BY Zenon DEF InFront
<1>6. InFront(x, v) = Verdict(st, D \o data, E + ext, tail)  BY <1>4, <1>5, Zenon
<1> QED  BY <1>1, <1>2, <1>3, <1>6, Zenon DEF Fronted

\* Parse of a wire without a whole chunk, and of one that has.
LEMMA ParseFirst ==
  ASSUME NEW w \in Seq(Byte)
  PROVE  /\ FirstChunk(w).st # "chunk" => Parse[w] = FirstChunk(w)
         /\ FirstChunk(w).st = "chunk" => Parse[w] = InFront(FirstChunk(w), Parse[FirstChunk(w).tail])
BY ParseRule, Zenon DEF ParseOf

\* No chunk is in front of everything.
LEMMA FrontNothing == Fronting(<<>>, <<>>, 0)
<1>1. ASSUME NEW s \in Seq(Byte), IsVerdict(Parse[s])
      PROVE  Parse[<<>> \o s] = InFront(Verdict("chunk", <<>>, 0, <<>>), Parse[s])
  <2>1. PICK a, x, e, t : a = Parse[s].st /\ x = Parse[s].data /\ e = Parse[s].ext /\ t = Parse[s].tail  OBVIOUS
  <2>2. Parse[s] = Verdict(a, x, e, t) /\ x \in Seq(Byte) /\ e \in Nat  BY <1>1, <2>1, Zenon DEF IsVerdict
  <2>3. <<>> \in Seq(Byte) /\ 0 \in Nat /\ <<>> \o x = x /\ 0 + e = e /\ <<>> \o s = s  BY <2>2
  <2>a. Fronted("chunk", <<>>, 0, <<>>, a, x, e, t)  BY <2>2, <2>3, InFrontIs, Zenon
  <2>4. InFront(Verdict("chunk", <<>>, 0, <<>>), Verdict(a, x, e, t)) = Verdict(a, <<>> \o x, 0 + e, t)
    BY <2>a, Zenon DEF Fronted
  <2> QED  BY <2>2, <2>3, <2>4, Zenon
<1>2. <<>> \in Seq(Byte) /\ 0 \in Nat  OBVIOUS
<1> QED  BY <1>1, <1>2 DEF Fronting

\* What is behind whole chunks decides.
LEMMA FrontVerdict ==
  ASSUME NEW p, NEW D, NEW E, Fronting(p, D, E), NEW r \in Seq(Byte),
         NEW st, NEW data \in Seq(Byte), NEW ext \in Nat, NEW tail,
         FirstChunk(r) = Verdict(st, data, ext, tail), st # "chunk"
  PROVE  Parse[p \o r] = Verdict(st, D \o data, E + ext, tail)
<1>1. PICK v : v = Verdict(st, data, ext, tail)  OBVIOUS
<1>2. IsVerdict(v) /\ v.st = st  BY <1>1, VerdictIs
<1>3. Parse[r] = v  BY <1>1, <1>2, ParseFirst
<1>4. Parse[p \o r] = InFront(Verdict("chunk", D, E, <<>>), v)  BY <1>2, <1>3 DEF Fronting
<1>5. D \in Seq(Byte) /\ E \in Nat  BY DEF Fronting
<1>6. Fronted("chunk", D, E, <<>>, st, data, ext, tail)  BY <1>5, InFrontIs, Zenon
<1> QED  BY <1>1, <1>4, <1>6, Zenon DEF Fronted

\* ... what is not a body behind them is not one.
LEMMA FrontBad ==
  ASSUME NEW p, NEW D, NEW E, Fronting(p, D, E), NEW r \in Seq(Byte),
         NEW data \in Seq(Byte), NEW ext \in Nat, NEW tail, FirstChunk(r) = Verdict("bad", data, ext, tail)
  PROVE  Parse[p \o r].st = "bad"
<1>1. Parse[p \o r] = Verdict("bad", D \o data, E + ext, tail)  BY FrontVerdict
<1> QED  BY <1>1 DEF Verdict

\* A line and what is behind its CR LF.
Whole(l, s) == l \o (<<Cr>> \o (<<Lf>> \o s))

Growing(l, s, u) ==
  Whole(l, s) \in Seq(Byte) /\ Whole(l, s) \o u = Whole(l, s \o u) /\ s \o u \in Seq(Byte)

\* What is read behind a line is read there.
LEMMA WholeGrows == \A l, s, u \in Seq(Byte) : Growing(l, s, u)
<1> SUFFICES ASSUME NEW l \in Seq(Byte), NEW s \in Seq(Byte), NEW u \in Seq(Byte) PROVE Growing(l, s, u)
  BY Zenon
<1>1. <<Cr>> \in Seq(Byte) /\ <<Lf>> \in Seq(Byte)
  <2>1. Cr \in Byte /\ Lf \in Byte  BY BytesDiffer
  <2> QED  BY <2>1
<1>2. PICK c, f : c = <<Cr>> /\ f = <<Lf>>  OBVIOUS
<1>3. c \in Seq(Byte) /\ f \in Seq(Byte)  BY <1>1, <1>2
<1>6. /\ f \o s \in Seq(Byte) /\ c \o (f \o s) \in Seq(Byte)
      /\ l \o (c \o (f \o s)) \in Seq(Byte) /\ s \o u \in Seq(Byte)
  BY <1>3, BytesJoin, Zenon
<1>r. Regroups(f, s, u) /\ Regroups(c, f \o s, u) /\ Regroups(l, c \o (f \o s), u)  BY <1>3, <1>6, Regroup, Zenon
<1>7. (f \o s) \o u = f \o (s \o u)  BY <1>r, Zenon DEF Regroups
<1>8. (c \o (f \o s)) \o u = c \o ((f \o s) \o u)  BY <1>r, Zenon DEF Regroups
<1>9. (l \o (c \o (f \o s))) \o u = l \o ((c \o (f \o s)) \o u)  BY <1>r, Zenon DEF Regroups
<1>10. (l \o (c \o (f \o s))) \o u = l \o (c \o (f \o (s \o u)))  BY <1>7, <1>8, <1>9, Zenon
<1>11. Whole(l, s) = l \o (c \o (f \o s)) /\ Whole(l, s \o u) = l \o (c \o (f \o (s \o u)))  BY <1>2, Zenon DEF Whole
<1> QED  BY <1>6, <1>10, <1>11, Zenon DEF Growing

\* A whole line before anything.
LEMMA WholeIs ==
  ASSUME NEW l \in Seq(Byte), NoCr(l), NEW k, NEW m, IsParts(l, k, m), NEW s \in Seq(Byte)
  PROVE  FirstChunk(Whole(l, s)) = Behind(l, s)
<1>1. LineOk(l)  BY PartsAre, Zenon
<1>2. l # <<>>  BY DEF IsParts
<1>3. Lf \in Byte  BY BytesDiffer
<1> QED  BY <1>1, <1>2, <1>3, WholeLine DEF Whole

\* One chunk more.
LEMMA FrontGrows ==
  ASSUME NEW p, NEW D, NEW E, Fronting(p, D, E), NEW l \in Seq(Byte), NoCr(l), NEW k, NEW m, IsParts(l, k, m),
         NEW d \in Seq(Byte), d # <<>>, SizeOf(l) = Len(d)
  PROVE  Fronting(p \o Whole(l, d \o (<<Cr>> \o (<<Lf>> \o <<>>))), D \o d, E + ExtOf(l))
<1>0. PICK e : e = ExtOf(l)  OBVIOUS
<1>1. e \in Nat  BY <1>0, LineMeans
<1>2. PICK z : z = d \o (<<Cr>> \o (<<Lf>> \o <<>>))  OBVIOUS
<1>3. <<>> \in Seq(Byte) /\ Lf \in Byte  BY BytesDiffer
<1>4. z = Whole(d, <<>>) /\ z \in Seq(Byte)
  <2>1. z = Whole(d, <<>>)  BY <1>2, Zenon DEF Whole
  <2>2. Growing(d, <<>>, <<>>)  BY <1>3, WholeGrows, Zenon
  <2> QED  BY <2>1, <2>2, Zenon DEF Growing
<1>5. PICK c : c = Whole(l, z)  OBVIOUS
<1>6. c \in Seq(Byte)
  <2>1. Growing(l, z, <<>>)  BY <1>3, <1>4, WholeGrows, Zenon
  <2> QED  BY <1>5, <2>1, Zenon DEF Growing
<1>7. p \in Seq(Byte) /\ D \in Seq(Byte) /\ E \in Nat  BY DEF Fronting
<1>8. ASSUME NEW s \in Seq(Byte), IsVerdict(Parse[s])
      PROVE  Parse[(p \o c) \o s] = InFront(Verdict("chunk", D \o d, E + e, <<>>), Parse[s])
  <2>1. z \o s = Whole(d, s)
    <3>1. <<>> \o s = s  OBVIOUS
    <3>2. Growing(d, <<>>, s)  BY <1>3, WholeGrows, Zenon
    <3> QED  BY <1>4, <3>1, <3>2, Zenon DEF Growing
  <2>2. c \o s = Whole(l, z \o s) /\ z \o s \in Seq(Byte) /\ c \o s \in Seq(Byte)
    <3>1. Growing(l, z, s)  BY <1>4, WholeGrows, Zenon
    <3> QED  BY <1>5, <1>6, <3>1, BytesJoin, Zenon DEF Growing
  <2>3. Behind(l, Whole(d, s)) = Verdict("chunk", d, e, s)  BY <1>0, <1>3, BehindWhole DEF Whole
  <2>4. FirstChunk(c \o s) = Verdict("chunk", d, e, s)  BY <2>1, <2>2, <2>3, WholeIs
  <2>5. FirstChunk(c \o s).st = "chunk" /\ FirstChunk(c \o s).tail = s  BY <2>4 DEF Verdict
  <2>6. Parse[c \o s] = InFront(Verdict("chunk", d, e, s), Parse[s])  BY <2>2, <2>4, <2>5, ParseFirst, Zenon
  <2>7. PICK a, x, f, t : a = Parse[s].st /\ x = Parse[s].data /\ f = Parse[s].ext /\ t = Parse[s].tail  OBVIOUS
  <2>8. Parse[s] = Verdict(a, x, f, t) /\ x \in Seq(Byte) /\ f \in Nat  BY <1>8, <2>7, Zenon DEF IsVerdict
  <2>9. Parse[c \o s] = Verdict(a, d \o x, e + f, t) /\ d \o x \in Seq(Byte) /\ e + f \in Nat
    <3>1. Fronted("chunk", d, e, s, a, x, f, t)  BY <1>1, <2>8, InFrontIs, Zenon
    <3> QED  BY <2>6, <2>8, <3>1, Zenon DEF Fronted
  <2>10. IsVerdict(Parse[c \o s])
    <3>1. PICK y, g : y = d \o x /\ g = e + f  OBVIOUS
    <3>2. Parse[c \o s] = Verdict(a, y, g, t) /\ y \in Seq(Byte) /\ g \in Nat  BY <2>9, <3>1, Zenon
    <3>3. IsVerdict(Verdict(a, y, g, t))  BY <3>2, VerdictIs
    <3> QED  BY <3>2, <3>3, Zenon
  <2>11. Parse[p \o (c \o s)] = InFront(Verdict("chunk", D, E, <<>>), Parse[c \o s])  BY <2>2, <2>10 DEF Fronting
  <2>12. Parse[p \o (c \o s)] = Verdict(a, D \o (d \o x), E + (e + f), t)
    <3>1. Fronted("chunk", D, E, <<>>, a, d \o x, e + f, t)  BY <1>7, <2>9, InFrontIs, Zenon
    <3> QED  BY <2>9, <2>11, <3>1, Zenon DEF Fronted
  <2>13. D \o d \in Seq(Byte) /\ E + e \in Nat  BY <1>1, <1>7
  <2>14. InFront(Verdict("chunk", D \o d, E + e, <<>>), Parse[s]) = Verdict(a, (D \o d) \o x, (E + e) + f, t)
    <3>1. Fronted("chunk", D \o d, E + e, <<>>, a, x, f, t)  BY <2>8, <2>13, InFrontIs, Zenon
    <3> QED  BY <2>8, <3>1, Zenon DEF Fronted
  <2>15. (D \o d) \o x = D \o (d \o x) /\ (p \o c) \o s = p \o (c \o s)
    <3>1. Regroups(D, d, x) /\ Regroups(p, c, s)  BY <1>6, <1>7, <2>8, Regroup, Zenon
    <3> QED  BY <3>1, Zenon DEF Regroups
  <2>16. (E + e) + f = E + (e + f)  BY <1>1, <1>7, <2>8
  <2> QED  BY <2>12, <2>14, <2>15, <2>16, Zenon
<1>9. p \o c \in Seq(Byte) /\ D \o d \in Seq(Byte) /\ E + e \in Nat  BY <1>1, <1>6, <1>7
<1>10. Fronting(p \o c, D \o d, E + e)  BY <1>8, <1>9, Zenon DEF Fronting
<1> QED  BY <1>0, <1>2, <1>5, <1>10, Zenon

-----------------------------------------------------------------------------
(* A line, byte by byte.                                                   *)

\* A chunk line that has not ended, with k digits and an extension behind m.
LineIs(l, k, m) == l \in Seq(Byte) /\ NoCr(l) /\ IsParts(l, k, m)

\* One byte more.
LEMMA OneMore ==
  ASSUME NEW S, NEW l \in Seq(S), NEW b \in S
  PROVE  /\ Append(l, b) \in Seq(S) /\ Append(l, b) # <<>> /\ Len(Append(l, b)) = Len(l) + 1 /\ Len(l) \in Nat
         /\ \A i \in 1 .. Len(l) : Append(l, b)[i] = l[i]
         /\ Append(l, b)[Len(l) + 1] = b
         /\ \A k \in 1 .. Len(l) : SubSeq(Append(l, b), 1, k) = SubSeq(l, 1, k)
         /\ SubSeq(Append(l, b), 1, Len(l) + 1) = Append(l, b)
         /\ SubSeq(l, 1, Len(l)) = l
OBVIOUS

\* One byte more, that is not a CR.
LEMMA NoCrGrows ==
  ASSUME NEW l \in Seq(Byte), NoCr(l), NEW b \in Byte, b # Cr
  PROVE  Append(l, b) \in Seq(Byte) /\ NoCr(Append(l, b))
<1>1. PICK s, B : s = Append(l, b) /\ B = Byte  OBVIOUS
<1>2. s \in Seq(B) /\ Len(s) = Len(l) + 1 /\ Len(l) \in Nat /\ \A i \in 1 .. Len(l) : s[i] = l[i]  BY <1>1, OneMore
<1>3. s[Len(l) + 1] = b  BY <1>1, OneMore
<1>4. ASSUME NEW i \in 1 .. Len(l) + 1 PROVE s[i] # Cr
  <2>1. CASE i <= Len(l)  BY <1>2, <2>1 DEF NoCr
  <2>2. CASE i = Len(l) + 1  BY <1>3, <2>2
  <2> QED  BY <1>2, <2>1, <2>2
<1> QED  BY <1>1, <1>2, <1>4 DEF NoCr

\* A first byte.
LEMMA LineStarts ==
  ASSUME NEW b \in Byte
  PROVE  /\ b \in Digit => LineIs(<<b>>, 1, 1) /\ SizeOf(<<b>>) = b /\ ExtOf(<<b>>) = 0
         /\ b \notin Digit => ~LineOk(<<b>>)
<1>1. Len(<<b>>) = 1 /\ <<b>>[1] = b /\ <<b>> \in Seq(Byte) /\ <<b>> # <<>>  OBVIOUS
<1>2. ASSUME b \in Digit PROVE LineIs(<<b>>, 1, 1) /\ SizeOf(<<b>>) = b /\ ExtOf(<<b>>) = 0
  <2>1. b # Cr  BY <1>2, BytesDiffer
  <2>2. IsParts(<<b>>, 1, 1)  BY <1>1, <1>2 DEF IsParts
  <2>3. NoCr(<<b>>)  BY <1>1, <2>1 DEF NoCr
  <2>4. SizeOf(<<b>>) = Value(SubSeq(<<b>>, 1, 1)) /\ ExtOf(<<b>>) = 0
    <3>1. PICK l, n : l = <<b>> /\ n = 1  OBVIOUS
    <3>2. l \in Seq(Byte) /\ IsParts(l, n, n) /\ Len(l) = n  BY <1>1, <2>2, <3>1
    <3>3. SizeOf(l) = Value(SubSeq(l, 1, n)) /\ ExtOf(l) = (IF n < Len(l) THEN Len(l) - n - 1 ELSE 0)
      BY <3>2, LineMeans
    <3>4. ~(n < Len(l))  BY <3>1, <3>2
    <3>5. ExtOf(l) = 0  BY <3>3, <3>4, Zenon
    <3> QED  BY <3>1, <3>3, <3>5
  <2>5. SubSeq(<<b>>, 1, 1) = Append(<<>>, b)
    <3>1. PICK l : l = <<b>>  OBVIOUS
    <3>2. l \in Seq(Byte) /\ Len(l) = 1  BY <1>1, <3>1
    <3>3. SubSeq(l, 1, 1) = l  BY <3>2
    <3>4. <<b>> = Append(<<>>, b)  OBVIOUS
    <3> QED  BY <3>1, <3>3, <3>4
  <2>6. <<>> \in Seq(Digit) /\ b \in Nat /\ Radix \in Nat  BY <1>2, BytesDiffer
  <2>7. Value(Append(<<>>, b)) = Value(<<>>) * Radix + b  BY <1>2, <2>6, ValueRules
  <2>8. Value(<<>>) * Radix + b = b  BY <2>6, ValueRules
  <2> QED  BY <1>1, <2>2, <2>3, <2>4, <2>5, <2>7, <2>8 DEF LineIs
<1>3. ASSUME b \notin Digit, LineOk(<<b>>) PROVE FALSE
  <2>1. PICK k, m : IsParts(<<b>>, k, m)  BY <1>1, <1>3, PartsAre, Zenon
  <2>2. 1 \in 1 .. k  BY <1>1, <2>1 DEF IsParts
  <2>3. <<b>>[1] \in Digit  BY <2>1, <2>2 DEF IsParts
  <2> QED  BY <1>1, <1>3, <2>3
<1> QED  BY <1>2, <1>3

\* The line goes on.
LEMMA LineGrows ==
  ASSUME NEW l, NEW k, NEW m, LineIs(l, k, m), NEW b \in Byte, b # Cr
  PROVE  LET n == Append(l, b)
         IN  /\ k = Len(l) /\ b \in Digit =>
                  LineIs(n, k + 1, k + 1) /\ SizeOf(n) = SizeOf(l) * Radix + b /\ ExtOf(n) = ExtOf(l) /\ k + 1 = Len(n)
             /\ m = Len(l) /\ b = Ws =>
                  LineIs(n, k, m + 1) /\ SizeOf(n) = SizeOf(l) /\ ExtOf(n) = ExtOf(l) /\ k < m + 1 /\ m + 1 = Len(n)
             /\ m = Len(l) /\ b = Semi =>
                  LineIs(n, k, m) /\ SizeOf(n) = SizeOf(l) /\ ExtOf(n) = ExtOf(l) /\ m < Len(n)
             /\ m < Len(l) /\ b # Lf =>
                  LineIs(n, k, m) /\ SizeOf(n) = SizeOf(l) /\ ExtOf(n) = ExtOf(l) + 1 /\ m < Len(n)
<1>0. l \in Seq(Byte) /\ NoCr(l) /\ IsParts(l, k, m)  BY DEF LineIs
<1>1. PICK n, L : n = Append(l, b) /\ L = Len(l)  OBVIOUS
<1>2. /\ n \in Seq(Byte) /\ Len(n) = L + 1 /\ L \in Nat /\ NoCr(n) /\ n[L + 1] = b
      /\ \A i \in 1 .. L : n[i] = l[i]
  <2>1. n \in Seq(Byte) /\ NoCr(n)  BY <1>0, <1>1, NoCrGrows
  <2> QED  BY <1>0, <1>1, <2>1, OneMore
<1>3. /\ k \in 1 .. L /\ m \in 1 .. L /\ k <= m /\ k \in Nat /\ m \in Nat
      /\ \A i \in 1 .. k : n[i] \in Digit
      /\ \A i \in (k + 1) .. m : n[i] = Ws
      /\ m < L => n[m + 1] = Semi /\ \A i \in (m + 2) .. L : n[i] # Lf
  <2>1. /\ k \in 1 .. L /\ m \in 1 .. L /\ k <= m /\ k \in Nat /\ m \in Nat
        /\ \A i \in 1 .. k : l[i] \in Digit
        /\ \A i \in (k + 1) .. m : l[i] = Ws
        /\ m < L => l[m + 1] = Semi /\ \A i \in (m + 2) .. L : l[i] # Lf
    BY <1>0, <1>1 DEF IsParts
  <2>2. \A i \in 1 .. k : n[i] \in Digit  BY <1>2, <2>1
  <2>3. \A i \in (k + 1) .. m : n[i] = Ws  BY <1>2, <2>1
  <2>4. m < L => n[m + 1] = Semi  BY <1>2, <2>1
  <2>5. m < L => \A i \in (m + 2) .. L : n[i] # Lf  BY <1>2, <2>1
  <2> QED  BY <2>1, <2>2, <2>3, <2>4, <2>5
<1>4. /\ SizeOf(l) = Value(SubSeq(l, 1, k)) /\ SubSeq(l, 1, k) \in Seq(Digit)
      /\ ExtOf(l) = (IF m < Len(l) THEN Len(l) - m - 1 ELSE 0)
  BY <1>0, LineMeans
<1>5. SubSeq(n, 1, k) = SubSeq(l, 1, k)  BY <1>0, <1>1, <1>3, OneMore
<1>6. ASSUME NEW q, IsParts(n, k, q)
      PROVE  LineIs(n, k, q) /\ SizeOf(n) = SizeOf(l) /\ ExtOf(n) = (IF q < Len(n) THEN Len(n) - q - 1 ELSE 0)
  <2>1. SizeOf(n) = Value(SubSeq(n, 1, k)) /\ ExtOf(n) = (IF q < Len(n) THEN Len(n) - q - 1 ELSE 0)
    BY <1>2, <1>6, LineMeans
  <2> QED  BY <1>2, <1>4, <1>5, <1>6, <2>1, Zenon DEF LineIs
<1>7. ASSUME k = L, b \in Digit
      PROVE  LineIs(n, k + 1, k + 1) /\ SizeOf(n) = SizeOf(l) * Radix + b /\ ExtOf(n) = ExtOf(l) /\ k + 1 = Len(n)
  <2>1. PICK q : q = k + 1  OBVIOUS
  <2>2. q = Len(n) /\ q \in Nat /\ q >= 1 /\ m = L  BY <1>2, <1>3, <1>7, <2>1
  <2>3. \A i \in 1 .. q : n[i] \in Digit
    <3>1. ASSUME NEW i \in 1 .. q PROVE i \in 1 .. k \/ i = L + 1  BY <1>3, <1>7, <2>1
    <3> QED  BY <1>2, <1>3, <1>7, <3>1
  <2>4. IsParts(n, q, q)  BY <2>2, <2>3 DEF IsParts
  <2>5. SizeOf(n) = Value(SubSeq(n, 1, q)) /\ ExtOf(n) = (IF q < Len(n) THEN Len(n) - q - 1 ELSE 0)
    BY <1>2, <2>4, LineMeans
  <2>6. SubSeq(n, 1, q) = Append(l, b) /\ SubSeq(l, 1, k) = l  BY <1>0, <1>1, <1>7, <2>1, OneMore
  <2>7. l \in Seq(Digit) /\ SizeOf(l) = Value(l)  BY <1>4, <2>6
  <2>8. Value(Append(l, b)) = Value(l) * Radix + b  BY <1>7, <2>7, ValueRules
  <2>9. ~(q < Len(n)) /\ ~(m < Len(l))  BY <1>1, <1>2, <2>2
  <2>10. ExtOf(n) = 0 /\ ExtOf(l) = 0  BY <1>4, <2>5, <2>9, Zenon
  <2> QED  BY <1>2, <2>1, <2>2, <2>4, <2>5, <2>6, <2>7, <2>8, <2>10, Zenon DEF LineIs
<1>8. ASSUME m = L, b = Ws
      PROVE  LineIs(n, k, m + 1) /\ SizeOf(n) = SizeOf(l) /\ ExtOf(n) = ExtOf(l) /\ k < m + 1 /\ m + 1 = Len(n)
  <2>1. PICK q : q = m + 1  OBVIOUS
  <2>2. q = Len(n) /\ q \in Nat /\ q >= 1 /\ k < q  BY <1>2, <1>3, <1>8, <2>1
  <2>3. \A i \in (k + 1) .. q : n[i] = Ws
    <3>1. ASSUME NEW i \in (k + 1) .. q PROVE i \in (k + 1) .. m \/ i = L + 1  BY <1>3, <1>8, <2>1
    <3> QED  BY <1>2, <1>3, <1>8, <3>1
  <2>4. IsParts(n, k, q)  BY <1>3, <2>2, <2>3 DEF IsParts
  <2>9. ~(q < Len(n)) /\ ~(m < Len(l))  BY <1>1, <1>2, <1>8, <2>2
  <2>10. ExtOf(l) = 0 /\ (IF q < Len(n) THEN Len(n) - q - 1 ELSE 0) = 0  BY <1>4, <2>9, Zenon
  <2> QED  BY <1>6, <2>1, <2>2, <2>4, <2>10, Zenon
<1>9. ASSUME m = L, b = Semi
      PROVE  LineIs(n, k, m) /\ SizeOf(n) = SizeOf(l) /\ ExtOf(n) = ExtOf(l) /\ m < Len(n)
  <2>1. m < Len(n) /\ n[m + 1] = Semi /\ m \in 1 .. Len(n) /\ k \in 1 .. Len(n) /\ ~(m < Len(l))  BY <1>1, <1>2, <1>3, <1>9
  <2>2. \A i \in (m + 2) .. Len(n) : n[i] # Lf  BY <1>2, <1>9
  <2>4. IsParts(n, k, m)  BY <1>3, <2>1, <2>2 DEF IsParts
  <2>5. ExtOf(l) = 0  BY <1>4, <2>1, Zenon
  <2>6. (IF m < Len(n) THEN Len(n) - m - 1 ELSE 0) = 0  BY <1>2, <1>9
  <2> QED  BY <1>6, <2>1, <2>4, <2>5, <2>6, Zenon
<1>10. ASSUME m < L, b # Lf
       PROVE  LineIs(n, k, m) /\ SizeOf(n) = SizeOf(l) /\ ExtOf(n) = ExtOf(l) + 1 /\ m < Len(n)
  <2>1. m < Len(n) /\ n[m + 1] = Semi /\ m \in 1 .. Len(n) /\ k \in 1 .. Len(n) /\ m < Len(l)  BY <1>1, <1>2, <1>3, <1>10
  <2>2. \A i \in (m + 2) .. Len(n) : n[i] # Lf
    <3>1. ASSUME NEW i \in (m + 2) .. Len(n) PROVE i \in (m + 2) .. L \/ i = L + 1  BY <1>2, <1>3
    <3> QED  BY <1>2, <1>3, <1>10, <3>1
  <2>4. IsParts(n, k, m)  BY <1>3, <2>1, <2>2 DEF IsParts
  <2>5. ExtOf(l) = L - m - 1  BY <1>1, <1>4, <2>1, Zenon
  <2>6. ExtOf(n) = Len(n) - m - 1  BY <1>6, <2>1, <2>4, Zenon
  <2>7. ExtOf(n) = ExtOf(l) + 1
    <3>1. PICK x, y : x = ExtOf(n) /\ y = ExtOf(l)  OBVIOUS
    <3>2. x = (L + 1) - m - 1 /\ y = L - m - 1  BY <1>2, <2>5, <2>6, <3>1
    <3>3. x = y + 1  BY <1>2, <1>3, <3>2
    <3> QED  BY <3>1, <3>3
  <2> QED  BY <1>6, <2>1, <2>4, <2>7, Zenon
<1> QED  BY <1>1, <1>7, <1>8, <1>9, <1>10, Zenon

\* The line is not one.
LEMMA LineBreaks ==
  ASSUME NEW l, NEW k, NEW m, LineIs(l, k, m), NEW b \in Byte,
         \/ b = Lf
         \/ k = Len(l) /\ b \notin Digit /\ b # Ws /\ b # Semi
         \/ k < m /\ m = Len(l) /\ b # Ws /\ b # Semi
  PROVE  ~LineOk(Append(l, b))
<1>0. l \in Seq(Byte) /\ NoCr(l) /\ IsParts(l, k, m)  BY DEF LineIs
<1>1. PICK n, L : n = Append(l, b) /\ L = Len(l)  OBVIOUS
<1>2. n \in Seq(Byte) /\ n # <<>> /\ Len(n) = L + 1 /\ L \in Nat /\ n[L + 1] = b /\ \A i \in 1 .. L : n[i] = l[i]
  BY <1>0, <1>1, OneMore
<1> SUFFICES ASSUME LineOk(n) PROVE FALSE  BY <1>1
<1>3. PICK k2, m2 : IsParts(n, k2, m2)  BY <1>2, PartsAre, Zenon
<1>4. /\ k2 \in 1 .. L + 1 /\ m2 \in 1 .. L + 1 /\ k2 <= m2 /\ k2 \in Nat /\ m2 \in Nat
      /\ \A i \in 1 .. k2 : n[i] \in Digit
      /\ \A i \in (k2 + 1) .. m2 : n[i] = Ws
      /\ m2 < L + 1 => n[m2 + 1] = Semi /\ \A i \in (m2 + 2) .. L + 1 : n[i] # Lf
  BY <1>2, <1>3 DEF IsParts
<1>5. /\ k \in 1 .. L /\ m \in 1 .. L /\ k <= m /\ k \in Nat /\ m \in Nat
      /\ \A i \in 1 .. k : l[i] \in Digit
      /\ \A i \in (k + 1) .. m : l[i] = Ws
  BY <1>0, <1>1 DEF IsParts
<1>6. CASE m2 < L + 1
  <2>1. n[m2 + 1] = Semi  BY <1>4, <1>6
  <2>2. CASE b = Lf
    <3>1. m2 + 1 # L + 1  BY <1>2, <1>4, <2>1, <2>2, BytesDiffer
    <3>2. L + 1 \in (m2 + 2) .. L + 1  BY <1>2, <1>4, <1>6, <3>1
    <3>3. n[L + 1] # Lf  BY <1>4, <1>6, <3>2
    <3> QED  BY <1>2, <2>2, <3>3
  <2>3. CASE m = L /\ b # Semi
    <3>1. m2 + 1 \in 1 .. L  BY <1>2, <1>4, <1>6, <2>1, <2>3
    <3>2. l[m2 + 1] = Semi  BY <1>2, <2>1, <3>1
    <3>3. m2 + 1 \in 1 .. k \/ m2 + 1 \in (k + 1) .. m  BY <1>5, <2>3, <3>1
    <3> QED  BY <1>5, <3>2, <3>3, BytesDiffer
  <2> QED  BY <1>1, <1>5, <2>2, <2>3
<1>7. CASE m2 = L + 1
  <2>1. b \in Digit \/ b = Ws
    <3>1. CASE k2 = L + 1
      <4>1. L + 1 \in 1 .. k2  BY <1>2, <3>1
      <4> QED  BY <1>2, <1>4, <4>1
    <3>2. CASE k2 < L + 1
      <4>1. L + 1 \in (k2 + 1) .. m2  BY <1>2, <1>4, <1>7, <3>2
      <4> QED  BY <1>2, <1>4, <4>1
    <3> QED  BY <1>2, <1>4, <3>1, <3>2
  <2>2. b # Lf  BY <2>1, BytesDiffer
  <2>3. k < m /\ b \in Digit  BY <2>1, <2>2
  <2>4. k2 = L + 1
    <3> SUFFICES ASSUME k2 < L + 1 PROVE FALSE  BY <1>2, <1>4
    <3>1. L + 1 \in (k2 + 1) .. m2  BY <1>2, <1>4, <1>7
    <3>2. b = Ws  BY <1>2, <1>4, <3>1
    <3> QED  BY <2>3, <3>2, BytesDiffer
  <2>5. k + 1 \in 1 .. k2 /\ k + 1 \in (k + 1) .. m /\ k + 1 \in 1 .. L  BY <1>2, <1>5, <2>3, <2>4
  <2>6. n[k + 1] \in Digit /\ l[k + 1] = Ws /\ n[k + 1] = l[k + 1]  BY <1>2, <1>4, <1>5, <2>5
  <2> QED  BY <2>6, BytesDiffer
<1> QED  BY <1>2, <1>4, <1>6, <1>7

-----------------------------------------------------------------------------
(* Behind the last chunk.                                                  *)

\* Every CR that something follows is followed by LF.
NoLone(t) == \A i \in 1 .. (Len(t) - 1) : ~(t[i] = Cr /\ t[i + 1] # Lf)

\* The ends of the fields' lines.
FieldEnds(t) == {i \in DOMAIN t : t[i] = Lf /\ i > 1 /\ t[i - 1] = Cr /\ i - 1 \notin EmptyLine(t)}

\* The number of bytes that trailers_buf has of t.
Buffered(t) == IF t = <<>> \/ t[1] = Cr THEN 0 ELSE Len(t)

\* The last byte is a CR.
LastCr(t) == Len(t) > 0 /\ t[Len(t)] = Cr

\* One byte more behind the last chunk.
TailGrows(t, b) ==
  /\ Append(t, b) \in Seq(Byte)
  /\ NoLone(Append(t, b)) <=> NoLone(t) /\ (LastCr(t) => b = Lf)
  /\ b = Cr /\ LineStart(t, Len(t) + 1) => EmptyLine(Append(t, b)) = EmptyLine(t) \cup {Len(t) + 1}
  /\ ~(b = Cr /\ LineStart(t, Len(t) + 1)) => EmptyLine(Append(t, b)) = EmptyLine(t)
  /\ LineStart(Append(t, b), Len(t) + 2) <=> LastCr(t) /\ b = Lf
  /\ b = Lf /\ LastCr(t) /\ Len(t) \notin EmptyLine(t) => Fields(Append(t, b)) = Fields(t) + 1
  /\ ~(b = Lf /\ LastCr(t) /\ Len(t) \notin EmptyLine(t)) => Fields(Append(t, b)) = Fields(t)
  /\ Fields(t) \in Nat
  /\ LastCr(Append(t, b)) <=> b = Cr
  /\ Len(Append(t, b)) = Len(t) + 1 /\ Len(t) \in Nat
  /\ Append(t, b)[Len(t) + 1] = b
  /\ t # <<>> => Buffered(Append(t, b)) = IF t[1] = Cr THEN 0 ELSE Len(t) + 1
  /\ t = <<>> => Buffered(Append(t, b)) = IF b = Cr THEN 0 ELSE 1

\* This is what one byte more does.
LEMMA TailsGrow ==
  ASSUME NEW t \in Seq(Byte), NEW b \in Byte
  PROVE  TailGrows(t, b)
<1>1. PICK u, L : u = Append(t, b) /\ L = Len(t)  OBVIOUS
<1>2. u \in Seq(Byte) /\ Len(u) = L + 1 /\ L \in Nat /\ u[L + 1] = b /\ \A i \in 1 .. L : u[i] = t[i]
  BY <1>1, OneMore
<1>3. DOMAIN t = 1 .. L /\ DOMAIN u = 1 .. L + 1  BY <1>1, <1>2
<1>4. LastCr(t) <=> L > 0 /\ t[L] = Cr  BY <1>1 DEF LastCr
<1>5. NoLone(u) <=> NoLone(t) /\ (LastCr(t) => b = Lf)
  <2>1. ASSUME NoLone(u) PROVE NoLone(t) /\ (LastCr(t) => b = Lf)
    <3>1. \A i \in 1 .. L : ~(u[i] = Cr /\ u[i + 1] # Lf)  BY <1>2, <2>1 DEF NoLone
    <3>2. ASSUME NEW i \in 1 .. (L - 1) PROVE ~(t[i] = Cr /\ t[i + 1] # Lf)
      <4>1. i \in 1 .. L /\ i + 1 \in 1 .. L  BY <1>2
      <4>2. u[i] = t[i] /\ u[i + 1] = t[i + 1]  BY <1>2, <4>1
      <4> QED  BY <3>1, <4>1, <4>2
    <3>3. ASSUME L > 0, t[L] = Cr PROVE b = Lf
      <4>1. L \in 1 .. L  BY <1>2, <3>3
      <4> QED  BY <1>2, <3>1, <3>3, <4>1
    <3> QED  BY <1>1, <1>4, <3>2, <3>3 DEF NoLone
  <2>2. ASSUME NoLone(t), LastCr(t) => b = Lf PROVE NoLone(u)
    <3>1. \A i \in 1 .. (L - 1) : ~(t[i] = Cr /\ t[i + 1] # Lf)  BY <1>1, <2>2 DEF NoLone
    <3>2. ASSUME NEW i \in 1 .. L PROVE ~(u[i] = Cr /\ u[i + 1] # Lf)
      <4>1. CASE i = L  BY <1>2, <1>4, <2>2, <4>1
      <4>2. CASE i < L
        <5>1. i \in 1 .. (L - 1) /\ i + 1 \in 1 .. L  BY <1>2, <4>2
        <5> QED  BY <1>2, <3>1, <5>1
      <4> QED  BY <1>2, <4>1, <4>2
    <3>3. Len(u) - 1 = L  BY <1>2
    <3> QED  BY <3>2, <3>3 DEF NoLone
  <2> QED  BY <2>1, <2>2
<1>6. ASSUME NEW i \in 1 .. L + 1 PROVE LineStart(u, i) <=> LineStart(t, i)
  <2>1. i > 2 => i - 1 \in 1 .. L /\ i - 2 \in 1 .. L  BY <1>2
  <2>2. i > 2 => u[i - 1] = t[i - 1] /\ u[i - 2] = t[i - 2]  BY <1>2, <2>1
  <2> QED  BY <2>2 DEF LineStart
<1>7. LineStart(u, L + 2) <=> LastCr(t) /\ b = Lf
  <2>1. L + 2 # 1 /\ (L + 2 > 2 <=> L > 0) /\ (L + 2) - 2 = L /\ (L + 2) - 1 = L + 1  BY <1>2
  <2>2. LineStart(u, L + 2) <=> L > 0 /\ u[L] = Cr /\ u[L + 1] = Lf  BY <2>1 DEF LineStart
  <2>3. L > 0 => u[L] = t[L]  BY <1>2
  <2> QED  BY <1>2, <1>4, <2>2, <2>3
<1>8. EmptyLine(t) \subseteq 1 .. L  BY <1>3 DEF EmptyLine
<1>9. ASSUME NEW i \in 1 .. L PROVE i \in EmptyLine(u) <=> i \in EmptyLine(t)
  <2>1. i \in 1 .. L + 1 /\ u[i] = t[i]  BY <1>2
  <2>2. LineStart(u, i) <=> LineStart(t, i)  BY <1>6, <2>1
  <2> QED  BY <1>3, <2>1, <2>2 DEF EmptyLine
<1>10. L + 1 \in EmptyLine(u) <=> b = Cr /\ LineStart(t, L + 1)
  <2>1. L + 1 \in 1 .. L + 1  BY <1>2
  <2>2. LineStart(u, L + 1) <=> LineStart(t, L + 1)  BY <1>6, <2>1
  <2> QED  BY <1>2, <1>3, <2>1, <2>2 DEF EmptyLine
<1>11. EmptyLine(u) \subseteq 1 .. L + 1  BY <1>3 DEF EmptyLine
<1>12. \A i \in 1 .. L + 1 : i \in 1 .. L \/ i = L + 1  BY <1>2
<1>13. b = Cr /\ LineStart(t, L + 1) => EmptyLine(u) = EmptyLine(t) \cup {L + 1}
  BY <1>8, <1>9, <1>10, <1>11, <1>12
<1>14. L + 1 \notin EmptyLine(t)  BY <1>2, <1>8
<1>15. ~(b = Cr /\ LineStart(t, L + 1)) => EmptyLine(u) = EmptyLine(t)
  BY <1>8, <1>9, <1>10, <1>11, <1>12, <1>14
<1>16. ASSUME NEW i \in 1 .. L PROVE i \in FieldEnds(u) <=> i \in FieldEnds(t)
  <2>1. i \in 1 .. L + 1 /\ u[i] = t[i]  BY <1>2
  <2>2. CASE i > 1
    <3>1. i - 1 \in 1 .. L  BY <1>2, <2>2
    <3>2. u[i - 1] = t[i - 1] /\ (i - 1 \in EmptyLine(u) <=> i - 1 \in EmptyLine(t))  BY <1>2, <1>9, <3>1
    <3> QED  BY <1>3, <2>1, <3>2 DEF FieldEnds
  <2>3. CASE ~(i > 1)  BY <2>3 DEF FieldEnds
  <2> QED  BY <2>2, <2>3
<1>17. L + 1 \in FieldEnds(u) <=> b = Lf /\ LastCr(t) /\ L \notin EmptyLine(t)
  <2>1. L + 1 \in 1 .. L + 1 /\ (L + 1) - 1 = L /\ (L + 1 > 1 <=> L > 0)  BY <1>2
  <2>2. L + 1 \in FieldEnds(u) <=> u[L + 1] = Lf /\ L > 0 /\ u[L] = Cr /\ L \notin EmptyLine(u)
    BY <1>3, <2>1 DEF FieldEnds
  <2>3. L > 0 => u[L] = t[L] /\ (L \in EmptyLine(u) <=> L \in EmptyLine(t))  BY <1>2, <1>9
  <2> QED  BY <1>2, <1>4, <2>2, <2>3
<1>18. FieldEnds(u) \subseteq 1 .. L + 1 /\ FieldEnds(t) \subseteq 1 .. L  BY <1>3 DEF FieldEnds
<1>19. IsFiniteSet(FieldEnds(t))
  <2>1. IsFiniteSet(1 .. L)
    <3>1. 1 \in Int /\ L \in Int  BY <1>2
    <3> QED  BY <3>1, FS_Interval
  <2> QED  BY <1>18, <2>1, FS_Subset
<1>20. Fields(t) = Cardinality(FieldEnds(t)) /\ Fields(u) = Cardinality(FieldEnds(u))  BY Zenon DEF Fields, FieldEnds
<1>21. Fields(t) \in Nat  BY <1>19, <1>20, FS_CardinalityType
<1>22. L + 1 \notin FieldEnds(t)  BY <1>2, <1>18
<1>23. ASSUME b = Lf /\ LastCr(t) /\ L \notin EmptyLine(t) PROVE Fields(u) = Fields(t) + 1
  <2>1. FieldEnds(u) = FieldEnds(t) \cup {L + 1}  BY <1>12, <1>16, <1>17, <1>18, <1>23
  <2>2. Cardinality(FieldEnds(t) \cup {L + 1}) = Cardinality(FieldEnds(t)) + 1
    <3>1. PICK S, x : S = FieldEnds(t) /\ x = L + 1  OBVIOUS
    <3>2. IsFiniteSet(S) /\ x \notin S  BY <1>19, <1>22, <3>1
    <3>3. Cardinality(S \cup {x}) = IF x \in S THEN Cardinality(S) ELSE Cardinality(S) + 1  BY <3>2, FS_AddElement
    <3> QED  BY <3>1, <3>2, <3>3, Zenon
  <2> QED  BY <1>20, <2>1, <2>2, Zenon
<1>24. ASSUME ~(b = Lf /\ LastCr(t) /\ L \notin EmptyLine(t)) PROVE Fields(u) = Fields(t)
  <2>1. FieldEnds(u) = FieldEnds(t)  BY <1>12, <1>16, <1>17, <1>18, <1>22, <1>24
  <2> QED  BY <1>20, <2>1, Zenon
<1>25. LastCr(u) <=> b = Cr
  <2>1. Len(u) > 0 /\ u[Len(u)] = b  BY <1>2
  <2> QED  BY <2>1 DEF LastCr
<1>26. u # <<>> /\ (t # <<>> => u[1] = t[1]) /\ (t = <<>> => u[1] = b /\ L = 0)
  <2>1. u # <<>>  BY <1>2
  <2>2. t # <<>> => L > 0  BY <1>1
  <2>3. t = <<>> => L = 0  BY <1>1
  <2> QED  BY <1>2, <2>1, <2>2, <2>3
<1>27. t # <<>> => Buffered(u) = IF t[1] = Cr THEN 0 ELSE L + 1  BY <1>2, <1>26, Zenon DEF Buffered
<1>28. t = <<>> => Buffered(u) = IF b = Cr THEN 0 ELSE 1
  <2>1. t = <<>> => L + 1 = 1  BY <1>26
  <2> QED  BY <1>2, <1>26, <2>1, Zenon DEF Buffered
<1> QED
  BY <1>1, <1>2, <1>5, <1>7, <1>13, <1>15, <1>21, <1>23, <1>24, <1>25, <1>27, <1>28, Zenon DEF TailGrows

\* The decoder's states behind the last chunk.
TailStates == {"EndCr", "Trailer", "TrailerLf", "EndLf", "End"}

\* Where in the fields or the empty line each state is.
TailIn(s, t) ==
  /\ t \in Seq(Byte) /\ NoLone(t)
  /\ s \in {"EndCr", "Trailer", "TrailerLf"} => EmptyLine(t) = {}
  /\ s = "EndCr" => LineStart(t, Len(t) + 1)
  /\ s = "Trailer" => ~LineStart(t, Len(t) + 1)
  /\ s \in {"EndCr", "Trailer", "End"} => ~LastCr(t)
  /\ s \in {"TrailerLf", "EndLf"} => LastCr(t)
  /\ s = "EndLf" => EmptyLine(t) = {Len(t)}
  /\ s = "End" => Len(t) - 1 \in EmptyLine(t)
  /\ s \in {"EndCr", "EndLf", "End"} /\ Buffered(t) > 0 => Fields(t) > 0

\* It begins before the empty line.
LEMMA TailBegins == TailIn("EndCr", <<>>) /\ Fields(<<>>) = 0 /\ Buffered(<<>>) = 0
<1>1. <<>> \in Seq(Byte) /\ Len(<<>>) = 0 /\ DOMAIN <<>> = {}  OBVIOUS
<1>2. NoLone(<<>>)  BY <1>1 DEF NoLone
<1>3. EmptyLine(<<>>) = {}  BY <1>1 DEF EmptyLine
<1>4. LineStart(<<>>, Len(<<>>) + 1)  BY <1>1 DEF LineStart
<1>5. ~LastCr(<<>>)  BY <1>1 DEF LastCr
<1>6. FieldEnds(<<>>) = {}  BY <1>1 DEF FieldEnds
<1>7. Fields(<<>>) = Cardinality(FieldEnds(<<>>))  BY Zenon DEF Fields, FieldEnds
<1>8. Fields(<<>>) = 0  BY <1>6, <1>7, FS_EmptySet
<1>9. Buffered(<<>>) = 0  BY DEF Buffered
<1>10. ~(Buffered(<<>>) > 0)  BY <1>9
<1> QED  BY <1>1, <1>2, <1>3, <1>4, <1>5, <1>8, <1>9, <1>10, Zenon DEF TailIn

\* What the grammar says of each state, and how much was buffered.
LEMMA TailMeans ==
  ASSUME NEW s \in TailStates, NEW t, TailIn(s, t)
  PROVE  /\ s # "End" => TailIs(t) = "open"
         /\ s = "End" => TailIs(t) = "done"
         /\ s \in {"EndCr", "Trailer", "TrailerLf"} /\ t # <<>> => t[1] # Cr
         /\ s \in {"Trailer", "TrailerLf", "EndLf"} => t # <<>>
         /\ Fields(t) \in Nat /\ Buffered(t) \in Nat
<1>0. t \in Seq(Byte) /\ NoLone(t)  BY DEF TailIn
<1>1. ~(\E i \in 1 .. (Len(t) - 1) : t[i] = Cr /\ t[i + 1] # Lf)  BY <1>0 DEF NoLone
<1>2. TailIs(t) = IF \E i \in EmptyLine(t) : i + 1 = Len(t) THEN "done" ELSE "open"  BY <1>1, Zenon DEF TailIs
<1>3. Len(t) \in Nat  BY <1>0
<1>4. s # "End" => ~(\E i \in EmptyLine(t) : i + 1 = Len(t))
  <2>1. CASE s \in {"EndCr", "Trailer", "TrailerLf"}
    <3>1. EmptyLine(t) = {}  BY <2>1 DEF TailIn
    <3> QED  BY <3>1
  <2>2. CASE s = "EndLf"
    <3>1. EmptyLine(t) = {Len(t)}  BY <2>2 DEF TailIn
    <3>2. Len(t) + 1 # Len(t)  BY <1>3
    <3> QED  BY <3>1, <3>2
  <2> QED  BY <2>1, <2>2 DEF TailStates
<1>5. s = "End" => \E i \in EmptyLine(t) : i + 1 = Len(t)
  <2> SUFFICES ASSUME s = "End" PROVE \E i \in EmptyLine(t) : i + 1 = Len(t)  OBVIOUS
  <2>1. Len(t) - 1 \in EmptyLine(t)  BY DEF TailIn
  <2>2. (Len(t) - 1) + 1 = Len(t)  BY <1>3
  <2> QED  BY <2>1, <2>2, Zenon
<1>6. ASSUME s \in {"EndCr", "Trailer", "TrailerLf"}, t # <<>> PROVE t[1] # Cr
  <2>1. EmptyLine(t) = {}  BY <1>6 DEF TailIn
  <2>2. 1 \in DOMAIN t  BY <1>0, <1>6
  <2>3. LineStart(t, 1)  BY DEF LineStart
  <2> QED  BY <2>1, <2>2, <2>3 DEF EmptyLine
<1>7. ASSUME s \in {"Trailer", "TrailerLf", "EndLf"} PROVE t # <<>>
  <2>1. CASE s = "Trailer"
    <3>1. ~LineStart(t, Len(t) + 1)  BY <2>1 DEF TailIn
    <3>2. t = <<>> => Len(t) + 1 = 1  OBVIOUS
    <3> QED  BY <3>1, <3>2 DEF LineStart
  <2>2. CASE s # "Trailer"
    <3>1. LastCr(t)  BY <1>7, <2>2 DEF TailIn
    <3>2. t = <<>> => ~(Len(t) > 0)  OBVIOUS
    <3> QED  BY <3>1, <3>2 DEF LastCr
  <2> QED  BY <2>1, <2>2
<1>8. Fields(t) \in Nat
  <2>1. PICK b : b \in Byte  BY BytesDiffer
  <2>2. TailGrows(t, b)  BY <1>0, <2>1, TailsGrow
  <2> QED  BY <2>2, Zenon DEF TailGrows
<1>9. Buffered(t) \in Nat
  <2>1. Buffered(t) = 0 \/ Buffered(t) = Len(t)  BY Zenon DEF Buffered
  <2> QED  BY <1>3, <2>1
<1> QED  BY <1>2, <1>4, <1>5, <1>6, <1>7, <1>8, <1>9, Zenon

\* How the states and counts go on with one byte more.
TailSteps(t, b) ==
  /\ TailIn("EndCr", t) /\ b = Cr =>
       TailIn("EndLf", Append(t, b)) /\ Fields(Append(t, b)) = Fields(t)
       /\ (Buffered(t) = 0 => Buffered(Append(t, b)) = 0)
       /\ (Buffered(t) > 0 => Buffered(Append(t, b)) = Buffered(t) + 1)
  /\ TailIn("EndCr", t) /\ b # Cr =>
       TailIn("Trailer", Append(t, b)) /\ Fields(Append(t, b)) = Fields(t)
       /\ Buffered(Append(t, b)) = Buffered(t) + 1
  /\ TailIn("Trailer", t) =>
       TailIn(IF b = Cr THEN "TrailerLf" ELSE "Trailer", Append(t, b)) /\ Fields(Append(t, b)) = Fields(t)
       /\ Buffered(Append(t, b)) = Buffered(t) + 1
  /\ TailIn("TrailerLf", t) /\ b = Lf =>
       TailIn("EndCr", Append(t, b)) /\ Fields(Append(t, b)) = Fields(t) + 1
       /\ Buffered(Append(t, b)) = Buffered(t) + 1
  /\ TailIn("EndLf", t) /\ b = Lf =>
       TailIn("End", Append(t, b)) /\ Fields(Append(t, b)) = Fields(t)
       /\ (Buffered(t) = 0 => Buffered(Append(t, b)) = 0)
       /\ (Buffered(t) > 0 => Buffered(Append(t, b)) = Buffered(t) + 1)
  /\ (TailIn("TrailerLf", t) \/ TailIn("EndLf", t)) /\ b # Lf => TailIs(Append(t, b)) = "bad"

\* So it is for every tail and byte.
LEMMA TailStep ==
  ASSUME NEW t \in Seq(Byte), NEW b \in Byte
  PROVE  TailSteps(t, b)
<1>0. TailGrows(t, b)  BY TailsGrow
<1>1. PICK u, L : u = Append(t, b) /\ L = Len(t)  OBVIOUS
<1>2. /\ u \in Seq(Byte) /\ Len(u) = L + 1 /\ L \in Nat /\ u[L + 1] = b
      /\ NoLone(u) <=> NoLone(t) /\ (LastCr(t) => b = Lf)
      /\ b = Cr /\ LineStart(t, L + 1) => EmptyLine(u) = EmptyLine(t) \cup {L + 1}
      /\ ~(b = Cr /\ LineStart(t, L + 1)) => EmptyLine(u) = EmptyLine(t)
      /\ LineStart(u, L + 2) <=> LastCr(t) /\ b = Lf
      /\ LastCr(u) <=> b = Cr
      /\ Fields(t) \in Nat
      /\ b = Lf /\ LastCr(t) /\ L \notin EmptyLine(t) => Fields(u) = Fields(t) + 1
      /\ ~(b = Lf /\ LastCr(t) /\ L \notin EmptyLine(t)) => Fields(u) = Fields(t)
  BY <1>0, <1>1, Zenon DEF TailGrows
<1>3. /\ t # <<>> => Buffered(u) = IF t[1] = Cr THEN 0 ELSE L + 1
      /\ t = <<>> => Buffered(u) = IF b = Cr THEN 0 ELSE 1
  BY <1>0, <1>1, Zenon DEF TailGrows
<1>4. Len(u) + 1 = L + 2 /\ Len(u) - 1 = L  BY <1>2
<1>5. Buffered(t) = IF t = <<>> \/ t[1] = Cr THEN 0 ELSE L  BY <1>1, Zenon DEF Buffered
<1>6. Cr # Lf  BY BytesDiffer
<1>7. t # <<>> => L > 0  BY <1>1
<1>8. ASSUME TailIn("EndCr", t), b = Cr
      PROVE  /\ TailIn("EndLf", u) /\ Fields(u) = Fields(t)
             /\ (Buffered(t) = 0 => Buffered(u) = 0)
             /\ (Buffered(t) > 0 => Buffered(u) = Buffered(t) + 1)
  <2>1. NoLone(t) /\ EmptyLine(t) = {} /\ LineStart(t, L + 1) /\ ~LastCr(t) /\ (Buffered(t) > 0 => Fields(t) > 0)
    BY <1>1, <1>8 DEF TailIn
  <2>2. t # <<>> => t[1] # Cr  BY <1>8, TailMeans DEF TailStates
  <2>3. NoLone(u) /\ EmptyLine(u) = {L + 1} /\ LastCr(u) /\ Fields(u) = Fields(t)  BY <1>2, <1>6, <1>8, <2>1
  <2>4. (Buffered(t) = 0 => Buffered(u) = 0) /\ (Buffered(t) > 0 => Buffered(u) = Buffered(t) + 1)
    <3>1. CASE t = <<>>
      <4>1. Buffered(t) = 0 /\ Buffered(u) = 0  BY <1>3, <1>5, <1>8, <3>1, Zenon
      <4> QED  BY <4>1
    <3>2. CASE t # <<>>
      <4>1. Buffered(t) = L /\ Buffered(u) = L + 1  BY <1>3, <1>5, <2>2, <3>2, Zenon
      <4> QED  BY <1>2, <1>7, <3>2, <4>1
    <3> QED  BY <3>1, <3>2
  <2>5. Buffered(u) > 0 => Fields(u) > 0
    <3>1. Buffered(t) \in Nat  BY <1>8, TailMeans DEF TailStates
    <3>2. Buffered(t) = 0 \/ Buffered(t) > 0  BY <3>1
    <3>3. ~(0 > 0)  OBVIOUS
    <3> QED  BY <2>1, <2>3, <2>4, <3>2, <3>3, Zenon
  <2> QED  BY <1>2, <2>3, <2>4, <2>5 DEF TailIn
<1>9. ASSUME TailIn("EndCr", t), b # Cr
      PROVE  TailIn("Trailer", u) /\ Fields(u) = Fields(t) /\ Buffered(u) = Buffered(t) + 1
  <2>1. NoLone(t) /\ EmptyLine(t) = {} /\ ~LastCr(t)  BY <1>9 DEF TailIn
  <2>2. t # <<>> => t[1] # Cr  BY <1>9, TailMeans DEF TailStates
  <2>3. NoLone(u) /\ EmptyLine(u) = {} /\ ~LastCr(u) /\ ~LineStart(u, Len(u) + 1) /\ Fields(u) = Fields(t)
    BY <1>2, <1>4, <1>9, <2>1, Zenon
  <2>4. Buffered(u) = Buffered(t) + 1
    <3>1. CASE t = <<>>
      <4>1. Buffered(t) = 0 /\ Buffered(u) = 1  BY <1>3, <1>5, <1>9, <3>1, Zenon
      <4> QED  BY <4>1
    <3>2. CASE t # <<>>
      <4>1. Buffered(t) = L /\ Buffered(u) = L + 1  BY <1>3, <1>5, <2>2, <3>2, Zenon
      <4> QED  BY <4>1, Zenon
    <3> QED  BY <3>1, <3>2
  <2> QED  BY <1>2, <2>3, <2>4 DEF TailIn
<1>10. ASSUME TailIn("Trailer", t)
       PROVE  /\ TailIn(IF b = Cr THEN "TrailerLf" ELSE "Trailer", u)
              /\ Fields(u) = Fields(t) /\ Buffered(u) = Buffered(t) + 1
  <2>1. NoLone(t) /\ EmptyLine(t) = {} /\ ~LastCr(t) /\ ~LineStart(t, L + 1)  BY <1>1, <1>10 DEF TailIn
  <2>2. t # <<>> /\ t[1] # Cr  BY <1>10, TailMeans DEF TailStates
  <2>3. /\ NoLone(u) /\ EmptyLine(u) = {} /\ (LastCr(u) <=> b = Cr) /\ ~LineStart(u, Len(u) + 1)
        /\ Fields(u) = Fields(t)
    BY <1>2, <1>4, <2>1, Zenon
  <2>4. Buffered(t) = L /\ Buffered(u) = L + 1  BY <1>3, <1>5, <2>2, Zenon
  <2>5. b = Cr => TailIn("TrailerLf", u)  BY <1>2, <2>3 DEF TailIn
  <2>6. b # Cr => TailIn("Trailer", u)  BY <1>2, <2>3 DEF TailIn
  <2> QED  BY <2>3, <2>4, <2>5, <2>6, Zenon
<1>11. ASSUME TailIn("TrailerLf", t), b = Lf
       PROVE  TailIn("EndCr", u) /\ Fields(u) = Fields(t) + 1 /\ Buffered(u) = Buffered(t) + 1
  <2>1. NoLone(t) /\ EmptyLine(t) = {} /\ LastCr(t)  BY <1>11 DEF TailIn
  <2>2. t # <<>> /\ t[1] # Cr  BY <1>11, TailMeans DEF TailStates
  <2>3. NoLone(u) /\ EmptyLine(u) = {} /\ ~LastCr(u) /\ LineStart(u, Len(u) + 1)
    BY <1>2, <1>4, <1>6, <1>11, <2>1, Zenon
  <2>4. Buffered(t) = L /\ Buffered(u) = L + 1  BY <1>3, <1>5, <2>2, Zenon
  <2>5. Fields(u) = Fields(t) + 1  BY <1>2, <1>11, <2>1
  <2>6. Fields(u) > 0  BY <1>2, <2>5
  <2>7. TailIn("EndCr", u)  BY <1>2, <2>3, <2>6 DEF TailIn
  <2> QED  BY <2>4, <2>5, <2>7, Zenon
<1>12. ASSUME TailIn("EndLf", t), b = Lf
       PROVE  /\ TailIn("End", u) /\ Fields(u) = Fields(t)
              /\ (Buffered(t) = 0 => Buffered(u) = 0)
              /\ (Buffered(t) > 0 => Buffered(u) = Buffered(t) + 1)
  <2>1. NoLone(t) /\ EmptyLine(t) = {L} /\ LastCr(t) /\ (Buffered(t) > 0 => Fields(t) > 0)  BY <1>1, <1>12 DEF TailIn
  <2>2. t # <<>>  BY <1>12, TailMeans DEF TailStates
  <2>3. NoLone(u) /\ EmptyLine(u) = {L} /\ ~LastCr(u) /\ Fields(u) = Fields(t)  BY <1>2, <1>6, <1>12, <2>1
  <2>4. (Buffered(t) = 0 => Buffered(u) = 0) /\ (Buffered(t) > 0 => Buffered(u) = Buffered(t) + 1)
    <3>1. CASE t[1] = Cr
      <4>1. Buffered(t) = 0 /\ Buffered(u) = 0  BY <1>3, <1>5, <2>2, <3>1, Zenon
      <4> QED  BY <4>1
    <3>2. CASE t[1] # Cr
      <4>1. Buffered(t) = L /\ Buffered(u) = L + 1  BY <1>3, <1>5, <2>2, <3>2, Zenon
      <4> QED  BY <1>2, <1>7, <2>2, <4>1
    <3> QED  BY <3>1, <3>2
  <2>5. Buffered(u) > 0 => Fields(u) > 0
    <3>1. Buffered(t) \in Nat  BY <1>12, TailMeans DEF TailStates
    <3>2. Buffered(t) = 0 \/ Buffered(t) > 0  BY <3>1
    <3>3. ~(0 > 0)  OBVIOUS
    <3> QED  BY <2>1, <2>3, <2>4, <3>2, <3>3, Zenon
  <2>6. Len(u) - 1 \in EmptyLine(u)  BY <1>4, <2>3
  <2> QED  BY <1>2, <2>3, <2>4, <2>5, <2>6 DEF TailIn
<1>13. ASSUME TailIn("TrailerLf", t) \/ TailIn("EndLf", t), b # Lf PROVE TailIs(u) = "bad"
  <2>1. LastCr(t)  BY <1>13 DEF TailIn
  <2>2. ~NoLone(u)  BY <1>2, <1>13, <2>1
  <2>3. \E i \in 1 .. (Len(u) - 1) : u[i] = Cr /\ u[i + 1] # Lf  BY <2>2, Zenon DEF NoLone
  <2> QED  BY <2>3, Zenon DEF TailIs
<1> QED  BY <1>1, <1>8, <1>9, <1>10, <1>11, <1>12, <1>13, Zenon DEF TailSteps

-----------------------------------------------------------------------------
(* The decoder, byte by byte.                                              *)

\* A decoder with its fields, and what one byte makes of it.
DecOf(s, n, e, x, c) == [state |-> s, size |-> n, ext |-> e, tlen |-> x, tcount |-> c]
Decoded(d, b, ok) == DecodeTrailers(Step(d, b), ok)

\* A state other than the end of the trailers.
LEMMA NotTheEnd ==
  ASSUME NEW d, NEW b, NEW ok, NEW s, NEW n, NEW e, NEW x, NEW c, Step(d, b) = DecOf(s, n, e, x, c), s # "End"
  PROVE  Decoded(d, b, ok) = DecOf(s, n, e, x, c)
BY DEF Decoded, DecodeTrailers, DecOf

\* What a digit does.
DigitRules(n, e, x, c, b, ok, s) ==
  /\ n * Radix + b <= MaxSize => Decoded(DecOf(s, n, e, x, c), b, ok) = DecOf("Size", n * Radix + b, e, x, c)
  /\ n * Radix + b > MaxSize => Decoded(DecOf(s, n, e, x, c), b, ok) = DecOf("Err", n, e, x, c)

\* Digits, if they fit.
LEMMA DecodesDigit == \A n \in Nat, b \in Digit, s \in {"Start", "Size"} : \A e, x, c, ok : DigitRules(n, e, x, c, b, ok, s)
<1> SUFFICES ASSUME NEW n \in Nat, NEW e, NEW x, NEW c, NEW b \in Digit, NEW ok, NEW s \in {"Start", "Size"} PROVE DigitRules(n, e, x, c, b, ok, s)
  BY Zenon
<1>0. PICK q : q = n * Radix + b  OBVIOUS
<1>1. q \in Nat /\ MaxSize \in Nat  BY <1>0, DigitPushed, ByteFacts
<1>2. Step(DecOf(s, n, e, x, c), b) = Push(DecOf(s, n, e, x, c), b)
  <2>1. CASE s = "Start"  BY <2>1 DEF Step, ReadStart, DecOf
  <2>2. CASE s = "Size"  BY <2>2 DEF Step, ReadSize, DecOf
  <2> QED  BY <2>1, <2>2
<1>3. ASSUME q <= MaxSize PROVE Decoded(DecOf(s, n, e, x, c), b, ok) = DecOf("Size", q, e, x, c)
  <2>1. ~(q > MaxSize)  BY <1>1, <1>3
  <2>2. Push(DecOf(s, n, e, x, c), b) = DecOf("Size", q, e, x, c)  BY <1>0, <2>1 DEF Push, DecOf
  <2> QED  BY <1>2, <2>2, NotTheEnd
<1>4. ASSUME q > MaxSize PROVE Decoded(DecOf(s, n, e, x, c), b, ok) = DecOf("Err", n, e, x, c)
  <2>1. Push(DecOf(s, n, e, x, c), b) = DecOf("Err", n, e, x, c)  BY <1>0, <1>4 DEF Push, Fail, DecOf
  <2> QED  BY <1>2, <2>1, NotTheEnd
<1> QED  BY <1>0, <1>3, <1>4, Zenon DEF DigitRules

\* What the other bytes of a line do.
LineRules(n, e, x, c, b, ok) ==
  /\ b \notin Digit => Decoded(DecOf("Start", n, e, x, c), b, ok) = DecOf("Err", n, e, x, c)
  /\ \A s \in {"Size", "SizeLws"} : s = "SizeLws" \/ b \notin Digit =>
       /\ b = Ws => Decoded(DecOf(s, n, e, x, c), b, ok) = DecOf("SizeLws", n, e, x, c)
       /\ b = Semi => Decoded(DecOf(s, n, e, x, c), b, ok) = DecOf("Extension", n, e, x, c)
       /\ b = Cr => Decoded(DecOf(s, n, e, x, c), b, ok) = DecOf("SizeLf", n, e, x, c)
       /\ b # Ws /\ b # Semi /\ b # Cr => Decoded(DecOf(s, n, e, x, c), b, ok) = DecOf("Err", n, e, x, c)
  /\ b = Cr => Decoded(DecOf("Extension", n, e, x, c), b, ok) = DecOf("SizeLf", n, e, x, c)
  /\ b # Cr /\ (b = Lf \/ e + 1 >= ExtLimit) =>
       Decoded(DecOf("Extension", n, e, x, c), b, ok) = DecOf("Err", n, e, x, c)
  /\ b # Cr /\ b # Lf /\ ~(e + 1 >= ExtLimit) =>
       Decoded(DecOf("Extension", n, e, x, c), b, ok) = DecOf("Extension", n, e + 1, x, c)
  /\ b # Lf => Decoded(DecOf("SizeLf", n, e, x, c), b, ok) = DecOf("Err", n, e, x, c)
  /\ b = Lf /\ n = 0 => Decoded(DecOf("SizeLf", n, e, x, c), b, ok) = DecOf("EndCr", n, e, x, c)
  /\ b = Lf /\ n # 0 => Decoded(DecOf("SizeLf", n, e, x, c), b, ok) = DecOf("Body", n, e, x, c)

\* The other bytes of a line.
LEMMA DecodesLine == \A n, e \in Nat, b \in Byte : \A x, c, ok : LineRules(n, e, x, c, b, ok)
<1> SUFFICES ASSUME NEW n \in Nat, NEW e \in Nat, NEW x, NEW c, NEW b \in Byte, NEW ok PROVE LineRules(n, e, x, c, b, ok)
  BY Zenon
<1>0. Ws # Semi /\ Ws # Cr /\ Semi # Cr  BY BytesDiffer
<1>1. ASSUME b \notin Digit PROVE Decoded(DecOf("Start", n, e, x, c), b, ok) = DecOf("Err", n, e, x, c)
  <2>1. Step(DecOf("Start", n, e, x, c), b) = DecOf("Err", n, e, x, c)  BY <1>1 DEF Step, ReadStart, Fail, DecOf
  <2> QED  BY <2>1, NotTheEnd
<1>2. ASSUME NEW s \in {"Size", "SizeLws"}, s = "SizeLws" \/ b \notin Digit
      PROVE  /\ b = Ws => Decoded(DecOf(s, n, e, x, c), b, ok) = DecOf("SizeLws", n, e, x, c)
             /\ b = Semi => Decoded(DecOf(s, n, e, x, c), b, ok) = DecOf("Extension", n, e, x, c)
             /\ b = Cr => Decoded(DecOf(s, n, e, x, c), b, ok) = DecOf("SizeLf", n, e, x, c)
             /\ b # Ws /\ b # Semi /\ b # Cr => Decoded(DecOf(s, n, e, x, c), b, ok) = DecOf("Err", n, e, x, c)
  <2>1. Step(DecOf(s, n, e, x, c), b) = ReadSizeLws(DecOf(s, n, e, x, c), b)
    <3>1. CASE s = "SizeLws"  BY <3>1 DEF Step, DecOf
    <3>2. CASE s = "Size"  BY <1>2, <3>2 DEF Step, ReadSize, DecOf
    <3> QED  BY <3>1, <3>2
  <2>2. b = Ws => Step(DecOf(s, n, e, x, c), b) = DecOf("SizeLws", n, e, x, c)  BY <1>0, <2>1 DEF ReadSizeLws, Goto, DecOf
  <2>3. b = Semi => Step(DecOf(s, n, e, x, c), b) = DecOf("Extension", n, e, x, c)  BY <1>0, <2>1 DEF ReadSizeLws, Goto, DecOf
  <2>4. b = Cr => Step(DecOf(s, n, e, x, c), b) = DecOf("SizeLf", n, e, x, c)  BY <1>0, <2>1 DEF ReadSizeLws, Goto, DecOf
  <2>5. b # Ws /\ b # Semi /\ b # Cr => Step(DecOf(s, n, e, x, c), b) = DecOf("Err", n, e, x, c)
    BY <1>0, <2>1 DEF ReadSizeLws, Fail, DecOf
  <2> QED  BY <2>2, <2>3, <2>4, <2>5, NotTheEnd
<1>3. Step(DecOf("Extension", n, e, x, c), b) = ReadExtension(DecOf("Extension", n, e, x, c), b)  BY DEF Step, DecOf
<1>4. ASSUME b = Cr PROVE Decoded(DecOf("Extension", n, e, x, c), b, ok) = DecOf("SizeLf", n, e, x, c)
  <2>1. ReadExtension(DecOf("Extension", n, e, x, c), b) = DecOf("SizeLf", n, e, x, c)  BY <1>4 DEF ReadExtension, Goto, DecOf
  <2> QED  BY <1>3, <2>1, NotTheEnd
<1>5. ASSUME b # Cr, b = Lf \/ e + 1 >= ExtLimit
      PROVE  Decoded(DecOf("Extension", n, e, x, c), b, ok) = DecOf("Err", n, e, x, c)
  <2>1. ReadExtension(DecOf("Extension", n, e, x, c), b) = DecOf("Err", n, e, x, c)  BY <1>5 DEF ReadExtension, Fail, DecOf
  <2> QED  BY <1>3, <2>1, NotTheEnd
<1>6. ASSUME b # Cr, b # Lf, ~(e + 1 >= ExtLimit)
      PROVE  Decoded(DecOf("Extension", n, e, x, c), b, ok) = DecOf("Extension", n, e + 1, x, c)
  <2>1. ReadExtension(DecOf("Extension", n, e, x, c), b) = DecOf("Extension", n, e + 1, x, c)
    BY <1>6 DEF ReadExtension, DecOf
  <2> QED  BY <1>3, <2>1, NotTheEnd
<1>7. Step(DecOf("SizeLf", n, e, x, c), b) = ReadSizeLf(DecOf("SizeLf", n, e, x, c), b)  BY DEF Step, DecOf
<1>8. ASSUME b # Lf PROVE Decoded(DecOf("SizeLf", n, e, x, c), b, ok) = DecOf("Err", n, e, x, c)
  <2>1. ReadSizeLf(DecOf("SizeLf", n, e, x, c), b) = DecOf("Err", n, e, x, c)  BY <1>8 DEF ReadSizeLf, Fail, DecOf
  <2> QED  BY <1>7, <2>1, NotTheEnd
<1>9. ASSUME b = Lf, n = 0 PROVE Decoded(DecOf("SizeLf", n, e, x, c), b, ok) = DecOf("EndCr", n, e, x, c)
  <2>1. ReadSizeLf(DecOf("SizeLf", n, e, x, c), b) = DecOf("EndCr", n, e, x, c)  BY <1>9 DEF ReadSizeLf, Goto, DecOf
  <2> QED  BY <1>7, <2>1, NotTheEnd
<1>10. ASSUME b = Lf, n # 0 PROVE Decoded(DecOf("SizeLf", n, e, x, c), b, ok) = DecOf("Body", n, e, x, c)
  <2>1. ReadSizeLf(DecOf("SizeLf", n, e, x, c), b) = DecOf("Body", n, e, x, c)  BY <1>10 DEF ReadSizeLf, Goto, DecOf
  <2> QED  BY <1>7, <2>1, NotTheEnd
<1> QED  BY <1>1, <1>2, <1>4, <1>5, <1>6, <1>8, <1>9, <1>10, Zenon DEF LineRules

\* What the bytes around data do.
DataRules(n, e, x, c, b, ok) ==
  /\ b = Cr => Decoded(DecOf("BodyCr", n, e, x, c), b, ok) = DecOf("BodyLf", n, e, x, c)
  /\ b # Cr => Decoded(DecOf("BodyCr", n, e, x, c), b, ok) = DecOf("Err", n, e, x, c)
  /\ b = Lf => Decoded(DecOf("BodyLf", n, e, x, c), b, ok) = DecOf("Start", n, e, x, c)
  /\ b # Lf => Decoded(DecOf("BodyLf", n, e, x, c), b, ok) = DecOf("Err", n, e, x, c)

\* Around the data of a chunk.
LEMMA DecodesData == \A n \in Nat, b \in Byte : \A e, x, c, ok : DataRules(n, e, x, c, b, ok)
<1> SUFFICES ASSUME NEW n \in Nat, NEW e, NEW x, NEW c, NEW b \in Byte, NEW ok PROVE DataRules(n, e, x, c, b, ok)
  BY Zenon
<1>1. /\ b = Cr => Step(DecOf("BodyCr", n, e, x, c), b) = DecOf("BodyLf", n, e, x, c)
      /\ b # Cr => Step(DecOf("BodyCr", n, e, x, c), b) = DecOf("Err", n, e, x, c)
  BY DEF Step, ReadBodyCr, Goto, Fail, DecOf
<1>2. /\ b = Lf => Step(DecOf("BodyLf", n, e, x, c), b) = DecOf("Start", n, e, x, c)
      /\ b # Lf => Step(DecOf("BodyLf", n, e, x, c), b) = DecOf("Err", n, e, x, c)
  BY DEF Step, ReadBodyLf, Goto, Fail, DecOf
<1> QED  BY <1>1, <1>2, NotTheEnd DEF DataRules

\* What the bytes behind the last chunk do.
BehindRules(n, e, x, c, b, ok) ==
  /\ x + 1 >= TrailerLimit => Decoded(DecOf("Trailer", n, e, x, c), b, ok) = DecOf("Err", n, e, x, c)
  /\ ~(x + 1 >= TrailerLimit) =>
       Decoded(DecOf("Trailer", n, e, x, c), b, ok) = DecOf(IF b = Cr THEN "TrailerLf" ELSE "Trailer", n, e, x + 1, c)
  /\ b # Lf \/ c >= MaxHeaders => Decoded(DecOf("TrailerLf", n, e, x, c), b, ok) = DecOf("Err", n, e, x, c)
  /\ b = Lf /\ ~(c >= MaxHeaders) /\ x + 1 >= TrailerLimit =>
       Decoded(DecOf("TrailerLf", n, e, x, c), b, ok) = DecOf("Err", n, e, x, c + 1)
  /\ b = Lf /\ ~(c >= MaxHeaders) /\ ~(x + 1 >= TrailerLimit) =>
       Decoded(DecOf("TrailerLf", n, e, x, c), b, ok) = DecOf("EndCr", n, e, x + 1, c + 1)
  /\ x > 0 /\ x + 1 >= TrailerLimit => Decoded(DecOf("EndCr", n, e, x, c), b, ok) = DecOf("Err", n, e, x, c)
  /\ x > 0 /\ ~(x + 1 >= TrailerLimit) =>
       Decoded(DecOf("EndCr", n, e, x, c), b, ok) = DecOf(IF b = Cr THEN "EndLf" ELSE "Trailer", n, e, x + 1, c)
  /\ x = 0 => Decoded(DecOf("EndCr", n, e, x, c), b, ok) =
                DecOf(IF b = Cr THEN "EndLf" ELSE "Trailer", n, e, IF b = Cr THEN 0 ELSE 1, c)
  /\ b # Lf => Decoded(DecOf("EndLf", n, e, x, c), b, ok) = DecOf("Err", n, e, x, c)
  /\ b = Lf /\ x > 0 /\ x + 1 >= TrailerLimit =>
       Decoded(DecOf("EndLf", n, e, x, c), b, ok) = DecOf("Err", n, e, x, c)
  /\ b = Lf /\ x > 0 /\ ~(x + 1 >= TrailerLimit) =>
       Decoded(DecOf("EndLf", n, e, x, c), b, ok) = DecOf(IF c >= MaxHeaders \/ ~ok THEN "Err" ELSE "End", n, e, x + 1, c)
  /\ b = Lf /\ x = 0 => Decoded(DecOf("EndLf", n, e, x, c), b, ok) = DecOf("End", n, e, x, c)

\* Behind the last chunk.
LEMMA DecodesTail == \A x, c \in Nat, b \in Byte, ok \in BOOLEAN : \A n, e : BehindRules(n, e, x, c, b, ok)
<1> SUFFICES ASSUME NEW n, NEW e, NEW x \in Nat, NEW c \in Nat, NEW b \in Byte, NEW ok \in BOOLEAN PROVE BehindRules(n, e, x, c, b, ok)
  BY Zenon
<1>1. Step(DecOf("Trailer", n, e, x, c), b) = ReadTrailer(DecOf("Trailer", n, e, x, c), b)  BY DEF Step, DecOf
<1>2. Step(DecOf("TrailerLf", n, e, x, c), b) = ReadTrailerLf(DecOf("TrailerLf", n, e, x, c), b)  BY DEF Step, DecOf
<1>3. Step(DecOf("EndCr", n, e, x, c), b) = ReadEndCr(DecOf("EndCr", n, e, x, c), b)  BY DEF Step, DecOf
<1>4. Step(DecOf("EndLf", n, e, x, c), b) = ReadEndLf(DecOf("EndLf", n, e, x, c), b)  BY DEF Step, DecOf
<1>5. ASSUME NEW s, NEW q, NEW k
      PROVE  /\ x + 1 >= TrailerLimit => PutU8(DecOf(s, n, e, x, k), q) = DecOf("Err", n, e, x, k)
             /\ ~(x + 1 >= TrailerLimit) => PutU8(DecOf(s, n, e, x, k), q) = DecOf(q, n, e, x + 1, k)
  BY DEF PutU8, Fail, DecOf
<1>6. PICK t : t = IF b = Cr THEN "TrailerLf" ELSE "Trailer"  OBVIOUS
<1>7. PICK u : u = IF b = Cr THEN "EndLf" ELSE "Trailer"  OBVIOUS
<1>8. t # "End" /\ u # "End"  BY <1>6, <1>7
<1>9. ReadTrailer(DecOf("Trailer", n, e, x, c), b) = PutU8(DecOf("Trailer", n, e, x, c), t)  BY <1>6, Zenon DEF ReadTrailer
<1>10. /\ x + 1 >= TrailerLimit => Decoded(DecOf("Trailer", n, e, x, c), b, ok) = DecOf("Err", n, e, x, c)
       /\ ~(x + 1 >= TrailerLimit) => Decoded(DecOf("Trailer", n, e, x, c), b, ok) = DecOf(t, n, e, x + 1, c)
  BY <1>1, <1>5, <1>8, <1>9, NotTheEnd
<1>11. ASSUME b # Lf \/ c >= MaxHeaders
       PROVE  Decoded(DecOf("TrailerLf", n, e, x, c), b, ok) = DecOf("Err", n, e, x, c)
  <2>1. ReadTrailerLf(DecOf("TrailerLf", n, e, x, c), b) = DecOf("Err", n, e, x, c)  BY <1>11 DEF ReadTrailerLf, Fail, DecOf
  <2> QED  BY <1>2, <2>1, NotTheEnd
<1>12. ASSUME b = Lf, ~(c >= MaxHeaders)
       PROVE  /\ x + 1 >= TrailerLimit => Decoded(DecOf("TrailerLf", n, e, x, c), b, ok) = DecOf("Err", n, e, x, c + 1)
              /\ ~(x + 1 >= TrailerLimit) =>
                   Decoded(DecOf("TrailerLf", n, e, x, c), b, ok) = DecOf("EndCr", n, e, x + 1, c + 1)
  <2>1. [DecOf("TrailerLf", n, e, x, c) EXCEPT !.tcount = @ + 1] = DecOf("TrailerLf", n, e, x, c + 1)  BY DEF DecOf
  <2>2. DecOf("TrailerLf", n, e, x, c).tcount = c  BY DEF DecOf
  <2>3. ReadTrailerLf(DecOf("TrailerLf", n, e, x, c), b) = PutU8(DecOf("TrailerLf", n, e, x, c + 1), "EndCr")
    BY <1>12, <2>1, <2>2, Zenon DEF ReadTrailerLf
  <2> QED  BY <1>2, <1>5, <2>3, NotTheEnd
<1>13. DecOf("EndCr", n, e, x, c).tlen = x /\ DecOf("EndLf", n, e, x, c).tlen = x  BY DEF DecOf
<1>14. ASSUME x > 0
       PROVE  /\ x + 1 >= TrailerLimit => Decoded(DecOf("EndCr", n, e, x, c), b, ok) = DecOf("Err", n, e, x, c)
              /\ ~(x + 1 >= TrailerLimit) => Decoded(DecOf("EndCr", n, e, x, c), b, ok) = DecOf(u, n, e, x + 1, c)
  <2>1. ReadEndCr(DecOf("EndCr", n, e, x, c), b) = PutU8(DecOf("EndCr", n, e, x, c), u)
    BY <1>7, <1>13, <1>14, Zenon DEF ReadEndCr
  <2> QED  BY <1>3, <1>5, <1>8, <2>1, NotTheEnd
<1>15. ASSUME x = 0
       PROVE  Decoded(DecOf("EndCr", n, e, x, c), b, ok) = DecOf(u, n, e, IF b = Cr THEN 0 ELSE 1, c)
  <2>0. PICK z : z = IF b = Cr THEN 0 ELSE 1  OBVIOUS
  <2>1. ~(x > 0)  BY <1>15
  <2>2. ReadEndCr(DecOf("EndCr", n, e, x, c), b) = [DecOf("EndCr", n, e, x, c) EXCEPT !.state = u, !.tlen = z]
    BY <1>7, <1>13, <2>0, <2>1, Zenon DEF ReadEndCr
  <2>3. (IF x = 0 THEN [DecOf("EndCr", n, e, x, c) EXCEPT !.state = u, !.tlen = z] ELSE DecOf(u, n, e, z, c)) = DecOf(u, n, e, z, c)
    BY DEF DecOf
  <2>4. ReadEndCr(DecOf("EndCr", n, e, x, c), b) = DecOf(u, n, e, z, c)  BY <1>15, <2>2, <2>3, Zenon
  <2> QED  BY <1>3, <1>8, <2>0, <2>4, NotTheEnd
<1>16. ASSUME b # Lf PROVE Decoded(DecOf("EndLf", n, e, x, c), b, ok) = DecOf("Err", n, e, x, c)
  <2>1. ReadEndLf(DecOf("EndLf", n, e, x, c), b) = DecOf("Err", n, e, x, c)  BY <1>16 DEF ReadEndLf, Fail, DecOf
  <2> QED  BY <1>4, <2>1, NotTheEnd
<1>17. ASSUME b = Lf, x > 0
       PROVE  /\ x + 1 >= TrailerLimit => Decoded(DecOf("EndLf", n, e, x, c), b, ok) = DecOf("Err", n, e, x, c)
              /\ ~(x + 1 >= TrailerLimit) =>
                   Decoded(DecOf("EndLf", n, e, x, c), b, ok) = DecOf(IF c >= MaxHeaders \/ ~ok THEN "Err" ELSE "End", n, e, x + 1, c)
  <2>1. ReadEndLf(DecOf("EndLf", n, e, x, c), b) = PutU8(DecOf("EndLf", n, e, x, c), "End")
    BY <1>13, <1>17, Zenon DEF ReadEndLf
  <2>2. x + 1 >= TrailerLimit => Decoded(DecOf("EndLf", n, e, x, c), b, ok) = DecOf("Err", n, e, x, c)
    BY <1>4, <1>5, <2>1, NotTheEnd
  <2>3. ASSUME ~(x + 1 >= TrailerLimit)
        PROVE  Decoded(DecOf("EndLf", n, e, x, c), b, ok) = DecOf(IF c >= MaxHeaders \/ ~ok THEN "Err" ELSE "End", n, e, x + 1, c)
    <3>1. Step(DecOf("EndLf", n, e, x, c), b) = DecOf("End", n, e, x + 1, c)  BY <1>4, <1>5, <2>1, <2>3
    <3>2. PICK y : y = x + 1  OBVIOUS
    <3>3. y > 0  BY <3>2
    <3>4. c >= MaxHeaders \/ ~ok => DecodeTrailers(DecOf("End", n, e, y, c), ok) = DecOf("Err", n, e, y, c)
      BY <3>3 DEF DecodeTrailers, Fail, DecOf
    <3>5. ~(c >= MaxHeaders \/ ~ok) => DecodeTrailers(DecOf("End", n, e, y, c), ok) = DecOf("End", n, e, y, c)
      <4>1. DecOf("End", n, e, y, c).tcount = c  BY DEF DecOf
      <4> QED  BY <4>1, Zenon DEF DecodeTrailers
    <3> QED  BY <3>1, <3>2, <3>4, <3>5, Zenon DEF Decoded
  <2> QED  BY <2>2, <2>3
<1>18. ASSUME b = Lf, x = 0 PROVE Decoded(DecOf("EndLf", n, e, x, c), b, ok) = DecOf("End", n, e, x, c)
  <2>1. ~(x > 0)  BY <1>18
  <2>2. ReadEndLf(DecOf("EndLf", n, e, x, c), b) = Goto(DecOf("EndLf", n, e, x, c), "End")
    BY <1>13, <1>18, <2>1, Zenon DEF ReadEndLf
  <2>3. Goto(DecOf("EndLf", n, e, x, c), "End") = DecOf("End", n, e, x, c)  BY DEF Goto, DecOf
  <2>4. DecOf("End", n, e, x, c).tlen = x  BY DEF DecOf
  <2>5. DecodeTrailers(DecOf("End", n, e, x, c), ok) = DecOf("End", n, e, x, c)  BY <2>1, <2>4, Zenon DEF DecodeTrailers
  <2> QED  BY <1>4, <2>2, <2>3, <2>5, Zenon DEF Decoded
<1> QED  BY <1>6, <1>7, <1>10, <1>11, <1>12, <1>14, <1>15, <1>16, <1>17, <1>18, Zenon DEF BehindRules

-----------------------------------------------------------------------------
(* Where in the grammar the decoder of chunks is.                          *)

\* What the decoder may fail on.
Just(w) ==
  \/ Parse[w].st = "bad" \/ Over(Parse[w])
  \/ Parse[w].st = "done" /\ Fields(Parse[w].tail) > 0
  \/ \E i, j \in DOMAIN w : i <= j /\ (\A k \in i .. j : w[k] \in Digit) /\ Value(SubSeq(w, i, j)) > MaxSize

\* It failed, and may.
FailsJustly(d, w) ==
  \E n \in 0 .. MaxSize, e \in 0 .. (ExtLimit - 1), x \in 0 .. (TrailerLimit - 1), c \in 0 .. MaxHeaders :
    d = DecOf("Err", n, e, x, c) /\ Just(w)

\* It is between chunks.
AtStart(d, w, o) == \E e \in 0 .. (ExtLimit - 1) : d = DecOf("Start", 0, e, 0, 0) /\ Fronting(w, o, e)

\* It is in the line l of a chunk, behind the chunks of p.
LineAt(s, n, e, w, o, p, E, l, k, m) ==
  /\ Fronting(p, o, E) /\ LineIs(l, k, m)
  /\ n = SizeOf(l) /\ e = E + ExtOf(l)
  /\ w = p \o (IF s = "SizeLf" THEN l \o <<Cr>> ELSE l)
  /\ s = "Size" => k = Len(l)
  /\ s = "SizeLws" => k < m /\ m = Len(l)
  /\ s = "Extension" => m < Len(l)

\* ... in some line.
InLine(d, w, o) ==
  \E s \in {"Size", "SizeLws", "Extension", "SizeLf"}, n \in 0 .. MaxSize, e \in 0 .. (ExtLimit - 1) :
    d = DecOf(s, n, e, 0, 0) /\ \E p, E, l, k, m : LineAt(s, n, e, w, o, p, E, l, k, m)

\* It is in the data of a chunk with the line l, of which y was delivered.
DataAt(s, n, e, w, o, p, D, E, l, k, m, y) ==
  /\ Fronting(p, D, E) /\ LineIs(l, k, m)
  /\ e = E + ExtOf(l) /\ y \in Seq(Byte) /\ o = D \o y
  /\ SizeOf(l) = n + Len(y) /\ SizeOf(l) > 0
  /\ s = "Body" => n > 0
  /\ s # "Body" => n = 0
  /\ w = p \o Whole(l, IF s = "BodyLf" THEN y \o <<Cr>> ELSE y)

\* ... in some chunk.
InData(d, w, o) ==
  \E s \in {"Body", "BodyCr", "BodyLf"}, n \in 0 .. MaxSize, e \in 0 .. (ExtLimit - 1) :
    d = DecOf(s, n, e, 0, 0) /\ \E p, D, E, l, k, m, y : DataAt(s, n, e, w, o, p, D, E, l, k, m, y)

\* It is behind the last chunk, whose line is l, and read t there.
TailAt(s, e, x, c, w, o, p, E, l, k, m, t) ==
  /\ Fronting(p, o, E) /\ LineIs(l, k, m)
  /\ SizeOf(l) = 0 /\ e = E + ExtOf(l)
  /\ w = p \o Whole(l, t) /\ TailIn(s, t) /\ x = Buffered(t) /\ c = Fields(t)
  /\ s = "End" /\ x > 0 => c < MaxHeaders

\* ... and read something there.
InTail(d, w, o) ==
  \E s \in TailStates, e \in 0 .. (ExtLimit - 1), x \in 0 .. (TrailerLimit - 1), c \in 0 .. MaxHeaders :
    d = DecOf(s, 0, e, x, c) /\ \E p, E, l, k, m, t : TailAt(s, e, x, c, w, o, p, E, l, k, m, t)

\* One of these.
Decoding(d, w, o) == AtStart(d, w, o) \/ InLine(d, w, o) \/ InData(d, w, o) \/ InTail(d, w, o) \/ FailsJustly(d, w)

\* One byte more, in a row.
ByteJoined(p, l, b) ==
  /\ Append(p \o l, b) = p \o Append(l, b) /\ Append(l, b) = l \o <<b>>
  /\ <<b>> \in Seq(Byte) /\ Append(l, b) \in Seq(Byte)

\* A byte behind a row of bytes.
LEMMA ByteJoins == \A p, l \in Seq(Byte), b \in Byte : ByteJoined(p, l, b)
<1> SUFFICES ASSUME NEW p \in Seq(Byte), NEW l \in Seq(Byte), NEW b \in Byte PROVE ByteJoined(p, l, b)
  BY Zenon
<1>1. PICK B : B = Byte  OBVIOUS
<1>2. p \in Seq(B) /\ l \in Seq(B) /\ b \in B  BY <1>1
<1>3. <<b>> \in Seq(B) /\ Append(l, b) \in Seq(B) /\ Append(l, b) = l \o <<b>>  BY <1>2
<1>4. Append(p \o l, b) = (p \o l) \o <<b>>  BY <1>2
<1>5. Regroups(p, l, <<b>>)  BY <1>1, <1>3, Regroup, Zenon
<1>6. Append(p \o l, b) = p \o Append(l, b)  BY <1>3, <1>4, <1>5, Zenon DEF Regroups
<1> QED  BY <1>1, <1>3, <1>6, Zenon DEF ByteJoined

\* What lies behind whole chunks, in an open line.
LEMMA StartVerdict ==
  ASSUME NEW w, NEW o, NEW e, Fronting(w, o, e)
  PROVE  Parse[w] = Verdict("open", o, e, <<>>)
<1>0. w \in Seq(Byte) /\ o \in Seq(Byte) /\ e \in Nat  BY DEF Fronting
<1>1. <<>> \in Seq(Byte) /\ NoCr(<<>>) /\ LineOk(<<>>)  BY DEF NoCr, LineOk
<1>2. ExtOf(<<>>) = 0
  <2>1. {i \in DOMAIN <<>> : \E j \in 1 .. (i - 1) : <<>>[j] = Semi} = {}  OBVIOUS
  <2> QED  BY <2>1, FS_EmptySet DEF ExtOf
<1>3. FirstChunk(<<>>) = Verdict("open", <<>>, ExtOf(<<>>), <<>>)  BY <1>1, OpenLine, Zenon
<1>4. PICK z, r : z = 0 /\ r = <<>>  OBVIOUS
<1>5. z \in Nat /\ r \in Seq(Byte) /\ FirstChunk(r) = Verdict("open", r, z, r)  BY <1>1, <1>2, <1>3, <1>4
<1>6. Parse[w \o r] = Verdict("open", o \o r, e + z, r)  BY <1>5, FrontVerdict
<1>7. w \o r = w /\ o \o r = o /\ e + z = e  BY <1>0, <1>4
<1> QED  BY <1>4, <1>6, <1>7

\* ... in a line,
LEMMA LineVerdict ==
  ASSUME NEW p, NEW o, NEW E, Fronting(p, o, E), NEW l, NEW k, NEW m, LineIs(l, k, m)
  PROVE  /\ Parse[p \o l] = Verdict("open", o, E + ExtOf(l), <<>>)
         /\ Parse[p \o (l \o <<Cr>>)] = Verdict("open", o, E + ExtOf(l), <<>>)
         /\ p \in Seq(Byte) /\ l \in Seq(Byte) /\ l \o <<Cr>> \in Seq(Byte) /\ E \in Nat /\ ExtOf(l) \in Nat
<1>0. p \in Seq(Byte) /\ o \in Seq(Byte) /\ E \in Nat  BY DEF Fronting
<1>1. l \in Seq(Byte) /\ NoCr(l) /\ IsParts(l, k, m)  BY DEF LineIs
<1>2. LineOk(l) /\ l # <<>>
  <2>1. LineOk(l)  BY <1>1, PartsAre, Zenon
  <2> QED  BY <1>1, <2>1 DEF IsParts
<1>3. PICK e, r, q : e = ExtOf(l) /\ r = <<>> /\ q = l \o <<Cr>>  OBVIOUS
<1>4. e \in Nat  BY <1>1, <1>3, LineMeans
<1>5. r \in Seq(Byte) /\ o \o r = o  BY <1>0, <1>3
<1>6. q \in Seq(Byte)
  <2>1. Cr \in Byte  BY BytesDiffer
  <2>2. ByteJoined(<<>>, l, Cr)  BY <1>1, <1>3, <1>5, <2>1, ByteJoins, Zenon
  <2> QED  BY <1>3, <2>2, Zenon DEF ByteJoined
<1>7. FirstChunk(l) = Verdict("open", r, e, r)  BY <1>1, <1>2, <1>3, OpenLine, Zenon
<1>8. FirstChunk(q) = Verdict("open", r, e, r)  BY <1>1, <1>2, <1>3, LineAndCr, Zenon
<1>a. r \in Seq(Byte)  BY <1>3
<1>9. Parse[p \o l] = Verdict("open", o \o r, E + e, r)  BY <1>1, <1>4, <1>a, <1>7, FrontVerdict
<1>10. Parse[p \o q] = Verdict("open", o \o r, E + e, r)  BY <1>4, <1>a, <1>6, <1>8, FrontVerdict
<1> QED  BY <1>0, <1>1, <1>3, <1>4, <1>5, <1>6, <1>9, <1>10, Zenon

\* ... and behind a line.
LEMMA WholeVerdict ==
  ASSUME NEW p, NEW D, NEW E, Fronting(p, D, E), NEW l, NEW k, NEW m, LineIs(l, k, m), NEW s \in Seq(Byte),
         NEW st, NEW data \in Seq(Byte), NEW tail, Behind(l, s) = Verdict(st, data, ExtOf(l), tail), st # "chunk"
  PROVE  Parse[p \o Whole(l, s)] = Verdict(st, D \o data, E + ExtOf(l), tail)
<1>1. l \in Seq(Byte) /\ NoCr(l) /\ IsParts(l, k, m)  BY DEF LineIs
<1>2. FirstChunk(Whole(l, s)) = Behind(l, s)  BY <1>1, WholeIs
<1>3. PICK e, r : e = ExtOf(l) /\ r = Whole(l, s)  OBVIOUS
<1>4. e \in Nat  BY <1>1, <1>3, LineMeans
<1>5. r \in Seq(Byte)
  <2>1. Growing(l, s, s)  BY <1>1, WholeGrows, Zenon
  <2> QED  BY <1>3, <2>1, Zenon DEF Growing
<1>6. FirstChunk(r) = Verdict(st, data, e, tail)  BY <1>2, <1>3, Zenon
<1>7. Parse[p \o r] = Verdict(st, D \o data, E + e, tail)  BY <1>4, <1>5, <1>6, FrontVerdict
<1> QED  BY <1>3, <1>7, Zenon

\* The wire that the decoder takes for open is open.
LEMMA LineIsOpen ==
  ASSUME NEW s, NEW n, NEW e, NEW w, NEW o, NEW p, NEW E, NEW l, NEW k, NEW m, LineAt(s, n, e, w, o, p, E, l, k, m)
  PROVE  Parse[w] = Verdict("open", o, e, <<>>) /\ w \in Seq(Byte)
<1>1. Fronting(p, o, E) /\ LineIs(l, k, m) /\ e = E + ExtOf(l) /\ w = p \o (IF s = "SizeLf" THEN l \o <<Cr>> ELSE l)
  BY Zenon DEF LineAt
<1>2. /\ Parse[p \o l] = Verdict("open", o, e, <<>>)
      /\ Parse[p \o (l \o <<Cr>>)] = Verdict("open", o, e, <<>>)
      /\ p \in Seq(Byte) /\ l \in Seq(Byte) /\ l \o <<Cr>> \in Seq(Byte)
  BY <1>1, LineVerdict
<1>3. CASE s = "SizeLf"
  <2>1. w = p \o (l \o <<Cr>>)  BY <1>1, <1>3, Zenon
  <2> QED  BY <1>2, <2>1, BytesJoin, Zenon
<1>4. CASE s # "SizeLf"
  <2>1. w = p \o l  BY <1>1, <1>4, Zenon
  <2> QED  BY <1>2, <2>1, BytesJoin, Zenon
<1> QED  BY <1>3, <1>4

\* ... in data,
LEMMA DataIsOpen ==
  ASSUME NEW s \in {"Body", "BodyCr", "BodyLf"}, NEW n \in Nat, NEW e, NEW w, NEW o, NEW p, NEW D, NEW E, NEW l,
         NEW k, NEW m, NEW y, DataAt(s, n, e, w, o, p, D, E, l, k, m, y)
  PROVE  Parse[w] = Verdict("open", o, e, <<>>) /\ w \in Seq(Byte)
<1>1. /\ Fronting(p, D, E) /\ LineIs(l, k, m) /\ e = E + ExtOf(l) /\ y \in Seq(Byte) /\ o = D \o y
      /\ SizeOf(l) = n + Len(y) /\ SizeOf(l) > 0 /\ (s # "Body" => n = 0)
      /\ w = p \o Whole(l, IF s = "BodyLf" THEN y \o <<Cr>> ELSE y)
  BY Zenon DEF DataAt
<1>2. Len(y) \in Nat /\ SizeOf(l) \in Nat /\ Len(y) <= SizeOf(l)
  <2>1. Len(y) \in Nat  BY <1>1
  <2>2. n + Len(y) \in Nat /\ Len(y) <= n + Len(y)  BY <2>1
  <2> QED  BY <1>1, <2>1, <2>2
<1>3. p \in Seq(Byte) /\ l \in Seq(Byte) /\ Cr \in Byte  BY <1>1, BytesDiffer DEF Fronting, LineIs
<1>4. CASE s # "BodyLf"
  <2>1. w = p \o Whole(l, y)  BY <1>1, <1>4, Zenon
  <2>2. Behind(l, y) = Verdict("open", y, ExtOf(l), <<>>)  BY <1>1, <1>2, BehindOpen
  <2>3. Parse[p \o Whole(l, y)] = Verdict("open", D \o y, E + ExtOf(l), <<>>)  BY <1>1, <2>2, WholeVerdict
  <2>4. Growing(l, y, y)  BY <1>1, <1>3, WholeGrows, Zenon
  <2>5. w \in Seq(Byte)  BY <1>3, <2>1, <2>4, BytesJoin, Zenon DEF Growing
  <2> QED  BY <1>1, <2>1, <2>3, <2>5, Zenon
<1>5. CASE s = "BodyLf"
  <2>1. PICK z : z = y \o <<Cr>>  OBVIOUS
  <2>2. w = p \o Whole(l, z)  BY <1>1, <1>5, <2>1, Zenon
  <2>3. z \in Seq(Byte)
    <3>1. ByteJoined(p, y, Cr)  BY <1>1, <1>3, ByteJoins, Zenon
    <3> QED  BY <2>1, <3>1, Zenon DEF ByteJoined
  <2>4. SizeOf(l) = Len(y) /\ y # <<>>
    <3>1. n = 0  BY <1>1, <1>5
    <3>2. SizeOf(l) = Len(y) /\ Len(y) > 0  BY <1>1, <1>2, <3>1
    <3> QED  BY <3>2
  <2>5. Behind(l, z) = Verdict("open", y, ExtOf(l), <<>>)  BY <1>1, <1>3, <2>1, <2>4, BehindData
  <2>6. Parse[p \o Whole(l, z)] = Verdict("open", D \o y, E + ExtOf(l), <<>>)  BY <1>1, <2>3, <2>5, WholeVerdict
  <2>7. Growing(l, z, z)  BY <1>3, <2>3, WholeGrows, Zenon
  <2>8. w \in Seq(Byte)  BY <1>3, <2>2, <2>7, BytesJoin, Zenon DEF Growing
  <2> QED  BY <1>1, <2>2, <2>6, <2>8, Zenon
<1> QED  BY <1>4, <1>5

\* ... and behind the last chunk.
LEMMA TailVerdict ==
  ASSUME NEW p, NEW o, NEW E, Fronting(p, o, E), NEW l, NEW k, NEW m, LineIs(l, k, m), SizeOf(l) = 0, NEW t \in Seq(Byte)
  PROVE  Parse[p \o Whole(l, t)] = Verdict(TailIs(t), o, E + ExtOf(l), t) /\ p \o Whole(l, t) \in Seq(Byte)
<1>0. p \in Seq(Byte) /\ o \in Seq(Byte) /\ l \in Seq(Byte)  BY DEF Fronting, LineIs
<1>1. Behind(l, t) = Verdict(TailIs(t), <<>>, ExtOf(l), t)  BY BehindLast
<1>2. PICK a, r : a = TailIs(t) /\ r = <<>>  OBVIOUS
<1>3. a # "chunk"
  <2>1. TailIs(t) = "bad" \/ TailIs(t) = "done" \/ TailIs(t) = "open"  BY Zenon DEF TailIs
  <2> QED  BY <1>2, <2>1
<1>4. r \in Seq(Byte) /\ o \o r = o  BY <1>0, <1>2
<1>5. Behind(l, t) = Verdict(a, r, ExtOf(l), t)  BY <1>1, <1>2, Zenon
<1>a. r \in Seq(Byte)  BY <1>2
<1>6. Parse[p \o Whole(l, t)] = Verdict(a, o \o r, E + ExtOf(l), t)  BY <1>3, <1>a, <1>5, WholeVerdict
<1>7. Growing(l, t, t)  BY <1>0, WholeGrows, Zenon
<1>8. p \o Whole(l, t) \in Seq(Byte)  BY <1>0, <1>7, BytesJoin, Zenon DEF Growing
<1> QED  BY <1>2, <1>4, <1>6, <1>8, Zenon

-----------------------------------------------------------------------------
(* One byte of a chunked body.                                             *)

\* The limits.
LEMMA Limits ==
  /\ MaxSize \in Nat /\ ExtLimit \in Nat /\ TrailerLimit \in Nat /\ TrailerLimit > 1 /\ MaxHeaders \in Nat
  /\ 0 \in 0 .. MaxSize /\ 0 \in 0 .. (ExtLimit - 1) /\ 0 \in 0 .. (TrailerLimit - 1) /\ 1 \in 0 .. (TrailerLimit - 1)
  /\ 0 \in 0 .. MaxHeaders
BY DecoderAssumption

\* A failure that is just.
LEMMA Failing ==
  ASSUME NEW n \in 0 .. MaxSize, NEW e \in 0 .. (ExtLimit - 1), NEW x \in 0 .. (TrailerLimit - 1), NEW c \in 0 .. MaxHeaders,
         NEW w, Just(w), NEW o
  PROVE  Decoding(DecOf("Err", n, e, x, c), w, o)
BY Zenon DEF Decoding, FailsJustly

\* The other places.
LEMMA Going ==
  ASSUME NEW n \in 0 .. MaxSize, NEW e \in 0 .. (ExtLimit - 1), NEW x \in 0 .. (TrailerLimit - 1), NEW c \in 0 .. MaxHeaders,
         NEW w, NEW o
  PROVE  /\ Fronting(w, o, e) => Decoding(DecOf("Start", 0, e, 0, 0), w, o)
         /\ \A s \in {"Size", "SizeLws", "Extension", "SizeLf"} : \A p, E, l, k, m :
              LineAt(s, n, e, w, o, p, E, l, k, m) => Decoding(DecOf(s, n, e, 0, 0), w, o)
         /\ \A s \in {"Body", "BodyCr", "BodyLf"} : \A p, D, E, l, k, m, y :
              DataAt(s, n, e, w, o, p, D, E, l, k, m, y) => Decoding(DecOf(s, n, e, 0, 0), w, o)
         /\ \A s \in TailStates : \A p, E, l, k, m, t :
              TailAt(s, e, x, c, w, o, p, E, l, k, m, t) => Decoding(DecOf(s, 0, e, x, c), w, o)
<1>1. Fronting(w, o, e) => Decoding(DecOf("Start", 0, e, 0, 0), w, o)  BY Zenon DEF Decoding, AtStart
<1>2. \A s \in {"Size", "SizeLws", "Extension", "SizeLf"} : \A p, E, l, k, m :
        LineAt(s, n, e, w, o, p, E, l, k, m) => Decoding(DecOf(s, n, e, 0, 0), w, o)
  BY Zenon DEF Decoding, InLine
<1>3. \A s \in {"Body", "BodyCr", "BodyLf"} : \A p, D, E, l, k, m, y :
        DataAt(s, n, e, w, o, p, D, E, l, k, m, y) => Decoding(DecOf(s, n, e, 0, 0), w, o)
  BY Zenon DEF Decoding, InData
<1>4. \A s \in TailStates : \A p, E, l, k, m, t :
        TailAt(s, e, x, c, w, o, p, E, l, k, m, t) => Decoding(DecOf(s, 0, e, x, c), w, o)
  BY Zenon DEF Decoding, InTail
<1> QED  BY <1>1, <1>2, <1>3, <1>4, Zenon

\* An extension has a length.
LEMMA ExtType == \A l \in Seq(Byte) : ExtOf(l) \in Nat
<1> SUFFICES ASSUME NEW l \in Seq(Byte) PROVE ExtOf(l) \in Nat  OBVIOUS
<1> DEFINE X == {i \in DOMAIN l : \E j \in 1 .. (i - 1) : l[j] = Semi}
<1>1. X \subseteq 1 .. Len(l)  OBVIOUS
<1>2. IsFiniteSet(1 .. Len(l))
  <2>1. 1 \in Int /\ Len(l) \in Int  OBVIOUS
  <2> QED  BY <2>1, FS_Interval
<1>3. ExtOf(l) = Cardinality(X)  BY DEF ExtOf
<1> HIDE DEF X
<1>4. IsFiniteSet(X)  BY <1>1, <1>2, FS_Subset
<1> QED  BY <1>3, <1>4, FS_CardinalityType

\* A size that does not fit.
LEMMA OverflowIsJust ==
  ASSUME NEW p \in Seq(Byte), NEW l \in Seq(Digit), l \in Seq(Byte), l # <<>>, Value(l) > MaxSize
  PROVE  Just(p \o l)
<1>1. PICK w, i, j : w = p \o l /\ i = Len(p) + 1 /\ j = Len(p) + Len(l)  OBVIOUS
<1>2. PICK B, S : B = Byte /\ S = Digit  OBVIOUS
<1>3. p \in Seq(B) /\ l \in Seq(B) /\ l \in Seq(S) /\ Len(l) > 0  BY <1>2
<1>4. w \in Seq(B) /\ i \in DOMAIN w /\ j \in DOMAIN w /\ i <= j  BY <1>1, <1>3
<1>5. ASSUME NEW k \in i .. j PROVE w[k] \in S
  <2>1. k - Len(p) \in 1 .. Len(l) /\ w[k] = l[k - Len(p)]  BY <1>1, <1>3
  <2> QED  BY <1>3, <2>1
<1>6. SubSeq(w, i, j) = l
  <2>1. PICK u : u = SubSeq(w, i, j)  OBVIOUS
  <2>2. u \in Seq(B) /\ Len(u) = Len(l)  BY <1>1, <1>3, <2>1
  <2>3. \A k \in 1 .. Len(l) : u[k] = l[k]  BY <1>1, <1>3, <2>1
  <2>4. l \in Seq(B)  BY <1>3
  <2>5. u = l  BY <2>2, <2>3, <2>4
  <2> QED  BY <2>1, <2>5
<1>7. Value(SubSeq(w, i, j)) > MaxSize  BY <1>6
<1>8. \A k \in i .. j : w[k] \in Digit  BY <1>2, <1>5
<1> QED  BY <1>1, <1>4, <1>7, <1>8, Zenon DEF Just

\* A line that is not one.
LEMMA BadLineIsJust ==
  ASSUME NEW p, NEW o, NEW E, Fronting(p, o, E), NEW l \in Seq(Byte), NoCr(l), ~LineOk(l)
  PROVE  Just(p \o l)
<1>1. FirstChunk(l) = Verdict("bad", <<>>, ExtOf(l), <<>>)  BY OpenLine, Zenon
<1>2. PICK e, r : e = ExtOf(l) /\ r = <<>>  OBVIOUS
<1>3. e \in Nat /\ r \in Seq(Byte) /\ FirstChunk(l) = Verdict("bad", r, e, r)  BY <1>1, <1>2, ExtType
<1>4. Parse[p \o l].st = "bad"  BY <1>3, FrontBad
<1> QED  BY <1>4, Zenon DEF Just

\* A byte between chunks.
LEMMA StartStep ==
  ASSUME NEW d, NEW w, NEW o, AtStart(d, w, o), NEW b \in Byte, NEW ok
  PROVE  Decoding(Decoded(d, b, ok), Append(w, b), o)
<1>1. PICK e \in 0 .. (ExtLimit - 1) : d = DecOf("Start", 0, e, 0, 0) /\ Fronting(w, o, e)  BY Zenon DEF AtStart
<1>2. w \in Seq(Byte) /\ <<>> \in Seq(Byte) /\ e \in Nat  BY <1>1 DEF Fronting
<1>3. Append(w, b) = w \o <<b>> /\ <<b>> \in Seq(Byte)
  <2>1. ByteJoined(<<>>, w, b)  BY <1>2, ByteJoins, Zenon
  <2> QED  BY <2>1, Zenon DEF ByteJoined
<1>4. PICK l : l = <<b>>  OBVIOUS
<1>5. l \in Seq(Byte) /\ Len(l) = 1 /\ l # <<>> /\ l[1] = b /\ Append(w, b) = w \o l  BY <1>3, <1>4
<1>6. CASE b \in Digit
  <2>1. LineIs(l, 1, 1) /\ SizeOf(l) = b /\ ExtOf(l) = 0  BY <1>4, <1>6, LineStarts
  <2>2. b \in Nat /\ 0 * Radix + b = b /\ 0 \in Nat  BY <1>6, BytesDiffer
  <2>3. CASE b <= MaxSize
    <3>0. DigitRules(0, e, 0, 0, b, ok, "Start")  BY <1>6, <2>2, DecodesDigit
    <3>1. Decoded(d, b, ok) = DecOf("Size", b, e, 0, 0)  BY <1>1, <2>2, <2>3, <3>0 DEF DigitRules
    <3>2. e = e + ExtOf(l) /\ "Size" # "SizeLf"  BY <1>2, <2>1
    <3>3. LineAt("Size", b, e, w \o l, o, w, e, l, 1, 1)  BY <1>1, <1>5, <2>1, <3>2 DEF LineAt
    <3>4. b \in 0 .. MaxSize  BY <2>2, <2>3, Limits
    <3> QED  BY <1>5, <3>1, <3>3, <3>4, Going, Limits
  <2>4. CASE b > MaxSize
    <3>0. DigitRules(0, e, 0, 0, b, ok, "Start")  BY <1>6, <2>2, DecodesDigit
    <3>1. Decoded(d, b, ok) = DecOf("Err", 0, e, 0, 0)  BY <1>1, <2>2, <2>4, <3>0, Zenon DEF DigitRules
    <3>2. l \in Seq(Digit)  BY <1>4, <1>6
    <3>3. Value(l) = b
      <4>1. IsParts(l, 1, 1)  BY <2>1 DEF LineIs
      <4>2. SizeOf(l) = Value(SubSeq(l, 1, 1))  BY <1>5, <4>1, LineMeans
      <4>3. SubSeq(l, 1, 1) = l  BY <1>5
      <4> QED  BY <2>1, <4>2, <4>3
    <3>4. Just(w \o l)  BY <1>2, <1>5, <2>4, <3>2, <3>3, OverflowIsJust
    <3> QED  BY <1>5, <3>1, <3>4, Failing, Limits
  <2> QED  BY <2>2, <2>3, <2>4, Limits
<1>7. CASE b \notin Digit
  <2>0. LineRules(0, e, 0, 0, b, ok)  BY <1>2, DecodesLine
  <2>1. Decoded(d, b, ok) = DecOf("Err", 0, e, 0, 0)  BY <1>1, <1>7, <2>0, Zenon DEF LineRules
  <2>2. Just(w \o l)
    <3>1. CASE b = Cr
      <4>1. PICK r : r = <<>>  OBVIOUS
      <4>2. r \in Seq(Byte) /\ NoCr(r)  BY <4>1 DEF NoCr
      <4>3. FirstChunk(r \o <<Cr>>) = Verdict("bad", <<>>, ExtOf(r), <<>>)  BY <4>1, <4>2, LineAndCr, Zenon
      <4>4. r \o <<Cr>> = l  BY <1>4, <3>1, <4>1
      <4>5. PICK x : x = ExtOf(r)  OBVIOUS
      <4>6. x \in Nat /\ FirstChunk(l) = Verdict("bad", r, x, r)  BY <4>1, <4>2, <4>3, <4>4, <4>5, ExtType
      <4>7. Parse[w \o l].st = "bad"  BY <1>1, <1>5, <4>2, <4>6, FrontBad
      <4> QED  BY <4>7, Zenon DEF Just
    <3>2. CASE b # Cr
      <4>1. ~LineOk(l)  BY <1>4, <1>7, LineStarts
      <4>2. NoCr(l)  BY <1>5, <3>2 DEF NoCr
      <4> QED  BY <1>1, <1>5, <4>1, <4>2, BadLineIsJust
    <3> QED  BY <3>1, <3>2
  <2> QED  BY <1>5, <2>1, <2>2, Failing, Limits
<1> QED  BY <1>6, <1>7

\* In a line, before its CR.
LineRead(n, e, w, o, p, E, l, k, m, b) ==
  /\ Fronting(p, o, E) /\ LineIs(l, k, m) /\ n = SizeOf(l) /\ e = E + ExtOf(l)
  /\ p \in Seq(Byte) /\ l \in Seq(Byte) /\ Append(l, b) \in Seq(Byte) /\ NoCr(l)
  /\ Append(w, b) = p \o Append(l, b) /\ Append(l, b) = l \o <<b>>
  /\ n \in Nat /\ E \in Nat /\ ExtOf(l) \in Nat

\* These are the facts of a line.
LEMMA LineText ==
  \A s \in {"Size", "SizeLws", "Extension"}, b \in Byte : \A n, e, w, o, p, E, l, k, m :
    LineAt(s, n, e, w, o, p, E, l, k, m) => LineRead(n, e, w, o, p, E, l, k, m, b)
<1> SUFFICES ASSUME NEW s \in {"Size", "SizeLws", "Extension"}, NEW n, NEW e, NEW w, NEW o, NEW p, NEW E, NEW l, NEW k, NEW m,
                    LineAt(s, n, e, w, o, p, E, l, k, m), NEW b \in Byte
             PROVE  LineRead(n, e, w, o, p, E, l, k, m, b)
  OBVIOUS
<1>1. Fronting(p, o, E) /\ LineIs(l, k, m) /\ n = SizeOf(l) /\ e = E + ExtOf(l) /\ w = p \o (IF s = "SizeLf" THEN l \o <<Cr>> ELSE l)
  BY Zenon DEF LineAt
<1>2. s # "SizeLf"  OBVIOUS
<1>3. w = p \o l  BY <1>1, <1>2, Zenon
<1>4. p \in Seq(Byte) /\ E \in Nat /\ l \in Seq(Byte) /\ NoCr(l) /\ IsParts(l, k, m)  BY <1>1, Zenon DEF Fronting, LineIs
<1>5. ByteJoined(p, l, b)  BY <1>4, ByteJoins, Zenon
<1>6. SizeOf(l) \in Nat /\ ExtOf(l) \in Nat  BY <1>4, LineMeans
<1> QED  BY <1>1, <1>3, <1>4, <1>5, <1>6, Zenon DEF ByteJoined, LineRead

\* The line goes on.
LEMMA LineOn ==
  ASSUME NEW s \in {"Size", "SizeLws", "Extension"}, NEW p, NEW o, NEW E, Fronting(p, o, E), NEW q, NEW k, NEW m, LineIs(q, k, m),
         NEW n \in 0 .. MaxSize, n = SizeOf(q), NEW e \in 0 .. (ExtLimit - 1), e = E + ExtOf(q),
         s = "Size" => k = Len(q), s = "SizeLws" => k < m /\ m = Len(q), s = "Extension" => m < Len(q)
  PROVE  Decoding(DecOf(s, n, e, 0, 0), p \o q, o)
<1>1. s # "SizeLf" /\ s \in {"Size", "SizeLws", "Extension", "SizeLf"}  OBVIOUS
<1>2. p \o q = p \o (IF s = "SizeLf" THEN q \o <<Cr>> ELSE q)  BY <1>1, Zenon
<1>3. LineAt(s, n, e, p \o q, o, p, E, q, k, m)  BY <1>2, Zenon DEF LineAt
<1> QED  BY <1>1, <1>3, Going, Limits

\* The line ends.
LEMMA LineEnds ==
  ASSUME NEW s \in {"Size", "SizeLws", "Extension"}, NEW n \in 0 .. MaxSize, NEW e \in 0 .. (ExtLimit - 1),
         NEW w, NEW o, NEW p, NEW E, NEW l, NEW k, NEW m, LineAt(s, n, e, w, o, p, E, l, k, m)
  PROVE  Decoding(DecOf("SizeLf", n, e, 0, 0), Append(w, Cr), o)
<1>0. Cr \in Byte  BY BytesDiffer
<1>1. /\ Fronting(p, o, E) /\ LineIs(l, k, m) /\ n = SizeOf(l) /\ e = E + ExtOf(l)
      /\ Append(w, Cr) = p \o Append(l, Cr) /\ Append(l, Cr) = l \o <<Cr>>
  <2>1. LineRead(n, e, w, o, p, E, l, k, m, Cr)  BY <1>0, LineText
  <2> QED  BY <2>1, Zenon DEF LineRead
<1>2. "SizeLf" # "Size" /\ "SizeLf" # "SizeLws" /\ "SizeLf" # "Extension"  OBVIOUS
<1>3. PICK S : S = "SizeLf"  OBVIOUS
<1>4. S # "Size" /\ S # "SizeLws" /\ S # "Extension"  BY <1>2, <1>3, Zenon
<1>5. Append(w, Cr) = p \o (IF S = "SizeLf" THEN l \o <<Cr>> ELSE l)  BY <1>1, <1>3, Zenon
<1>6. LineAt(S, n, e, Append(w, Cr), o, p, E, l, k, m)  BY <1>1, <1>4, <1>5, Zenon DEF LineAt
<1> QED  BY <1>3, <1>6, Going, Limits

\* A digit.
LEMMA SizeDigit ==
  ASSUME NEW n \in 0 .. MaxSize, NEW e \in 0 .. (ExtLimit - 1), NEW w, NEW o, NEW p, NEW E, NEW l, NEW k, NEW m,
         LineAt("Size", n, e, w, o, p, E, l, k, m), NEW b \in Digit, NEW ok
  PROVE  Decoding(Decoded(DecOf("Size", n, e, 0, 0), b, ok), Append(w, b), o)
<1>0. b \in Byte /\ b # Cr /\ n \in Nat /\ b \in Nat /\ Radix \in Nat  BY BytesDiffer, Limits
<1>1. PICK q : q = Append(l, b)  OBVIOUS
<1>2. /\ Fronting(p, o, E) /\ LineIs(l, k, m) /\ n = SizeOf(l) /\ e = E + ExtOf(l)
      /\ p \in Seq(Byte) /\ q \in Seq(Byte) /\ Append(w, b) = p \o q
  <2>1. LineRead(n, e, w, o, p, E, l, k, m, b)  BY <1>0, LineText, Zenon
  <2> QED  BY <1>1, <2>1, Zenon DEF LineRead
<1>3. k = Len(l)  BY Zenon DEF LineAt
<1>4. LineIs(q, k + 1, k + 1) /\ SizeOf(q) = n * Radix + b /\ ExtOf(q) = ExtOf(l) /\ k + 1 = Len(q)
  BY <1>0, <1>1, <1>2, <1>3, LineGrows
<1>5. PICK z, i : z = n * Radix + b /\ i = k + 1  OBVIOUS
<1>6. z \in Nat
  <2>1. n * Radix \in Nat  BY <1>0, SMT
  <2> QED  BY <1>0, <1>5, <2>1
<1>7. /\ z <= MaxSize => Decoded(DecOf("Size", n, e, 0, 0), b, ok) = DecOf("Size", z, e, 0, 0)
      /\ z > MaxSize => Decoded(DecOf("Size", n, e, 0, 0), b, ok) = DecOf("Err", n, e, 0, 0)
  <2>1. DigitRules(n, e, 0, 0, b, ok, "Size")  BY <1>0, DecodesDigit
  <2> QED  BY <1>5, <2>1, Zenon DEF DigitRules
<1>8. LineIs(q, i, i) /\ SizeOf(q) = z /\ e = E + ExtOf(q) /\ i = Len(q)  BY <1>2, <1>4, <1>5, Zenon
<1>9. CASE z <= MaxSize
  <2>1. z \in 0 .. MaxSize  BY <1>6, <1>9, Limits
  <2>2. Decoding(DecOf("Size", z, e, 0, 0), p \o q, o)  BY <1>2, <1>8, <2>1, LineOn
  <2> QED  BY <1>2, <1>7, <1>9, <2>2, Zenon
<1>10. CASE z > MaxSize
  <2>1. IsParts(q, i, i)  BY <1>8 DEF LineIs
  <2>2. SubSeq(q, 1, i) \in Seq(Digit) /\ SizeOf(q) = Value(SubSeq(q, 1, i))  BY <1>2, <2>1, LineMeans
  <2>3. SubSeq(q, 1, i) = q /\ q # <<>>
    <3>1. PICK B : B = Byte  OBVIOUS
    <3>2. l \in Seq(B) /\ b \in B  BY <1>0, <1>2, <3>1 DEF LineIs
    <3> QED  BY <1>1, <1>3, <1>5, <3>2, OneMore
  <2>4. Just(p \o q)  BY <1>2, <1>8, <1>10, <2>2, <2>3, OverflowIsJust
  <2>5. Decoding(DecOf("Err", n, e, 0, 0), p \o q, o)  BY <2>4, Failing, Limits
  <2> QED  BY <1>2, <1>7, <1>10, <2>5, Zenon
<1> QED  BY <1>6, <1>9, <1>10, Limits

\* White space, a semicolon, or what may not be there.
LEMMA SizeOther ==
  ASSUME NEW s \in {"Size", "SizeLws"}, NEW n \in 0 .. MaxSize, NEW e \in 0 .. (ExtLimit - 1),
         NEW w, NEW o, NEW p, NEW E, NEW l, NEW k, NEW m,
         LineAt(s, n, e, w, o, p, E, l, k, m), NEW b \in Byte, s = "Size" => b \notin Digit, NEW ok
  PROVE  Decoding(Decoded(DecOf(s, n, e, 0, 0), b, ok), Append(w, b), o)
<1>0. n \in Nat /\ e \in Nat /\ (s = "SizeLws" \/ b \notin Digit)  BY Limits
<1>a. Ws # Cr /\ Semi # Cr  BY BytesDiffer
<1>1. PICK q : q = Append(l, b)  OBVIOUS
<1>2. /\ Fronting(p, o, E) /\ LineIs(l, k, m) /\ n = SizeOf(l) /\ e = E + ExtOf(l)
      /\ q \in Seq(Byte) /\ Append(w, b) = p \o q /\ l \in Seq(Byte) /\ NoCr(l)
  <2>1. LineRead(n, e, w, o, p, E, l, k, m, b)  BY LineText
  <2> QED  BY <1>1, <2>1, Zenon DEF LineRead
<1>3. (s = "Size" => k = Len(l)) /\ (s = "SizeLws" => k < m /\ m = Len(l))  BY Zenon DEF LineAt
<1>4. m = Len(l)
  <2>1. CASE s = "SizeLws"  BY <1>3, <2>1
  <2>2. CASE s = "Size"
    <3>1. k = Len(l) /\ m \in 1 .. Len(l) /\ k <= m /\ Len(l) \in Nat  BY <1>2, <1>3, <2>2 DEF LineIs, IsParts
    <3> QED  BY <3>1
  <2> QED  BY <2>1, <2>2
<1>5. /\ b = Ws => Decoded(DecOf(s, n, e, 0, 0), b, ok) = DecOf("SizeLws", n, e, 0, 0)
      /\ b = Semi => Decoded(DecOf(s, n, e, 0, 0), b, ok) = DecOf("Extension", n, e, 0, 0)
      /\ b = Cr => Decoded(DecOf(s, n, e, 0, 0), b, ok) = DecOf("SizeLf", n, e, 0, 0)
      /\ b # Ws /\ b # Semi /\ b # Cr => Decoded(DecOf(s, n, e, 0, 0), b, ok) = DecOf("Err", n, e, 0, 0)
  <2>1. LineRules(n, e, 0, 0, b, ok)  BY <1>0, DecodesLine, Zenon
  <2> QED  BY <1>0, <2>1, Zenon DEF LineRules
<1>6. CASE b = Ws
  <2>1. LineIs(q, k, m + 1) /\ SizeOf(q) = SizeOf(l) /\ ExtOf(q) = ExtOf(l) /\ k < m + 1 /\ m + 1 = Len(q)
    BY <1>1, <1>2, <1>4, <1>6, <1>a, LineGrows
  <2>2. PICK i : i = m + 1  OBVIOUS
  <2>3. LineIs(q, k, i) /\ n = SizeOf(q) /\ e = E + ExtOf(q) /\ k < i /\ i = Len(q)  BY <1>2, <2>1, <2>2, Zenon
  <2>4. Decoding(DecOf("SizeLws", n, e, 0, 0), p \o q, o)  BY <1>2, <2>3, LineOn
  <2> QED  BY <1>2, <1>5, <1>6, <2>4, Zenon
<1>7. CASE b = Semi
  <2>1. LineIs(q, k, m) /\ SizeOf(q) = SizeOf(l) /\ ExtOf(q) = ExtOf(l) /\ m < Len(q)
    BY <1>1, <1>2, <1>4, <1>7, <1>a, LineGrows
  <2>2. n = SizeOf(q) /\ e = E + ExtOf(q)  BY <1>2, <2>1, Zenon
  <2>3. Decoding(DecOf("Extension", n, e, 0, 0), p \o q, o)  BY <1>2, <2>1, <2>2, LineOn
  <2> QED  BY <1>2, <1>5, <1>7, <2>3, Zenon
<1>8. CASE b = Cr
  <2>1. Decoding(DecOf("SizeLf", n, e, 0, 0), Append(w, Cr), o)  BY LineEnds
  <2> QED  BY <1>5, <1>8, <2>1, Zenon
<1>9. CASE b # Ws /\ b # Semi /\ b # Cr
  <2>1. ~LineOk(q)  BY <1>0, <1>1, <1>2, <1>3, <1>9, LineBreaks
  <2>2. NoCr(q)  BY <1>1, <1>2, <1>9, NoCrGrows
  <2>3. Just(p \o q)  BY <1>2, <2>1, <2>2, BadLineIsJust
  <2>4. Decoding(DecOf("Err", n, e, 0, 0), p \o q, o)  BY <2>3, Failing, Limits
  <2> QED  BY <1>2, <1>5, <1>9, <2>4, Zenon
<1> QED  BY <1>6, <1>7, <1>8, <1>9

\* An extension.
LEMMA ExtensionByte ==
  ASSUME NEW n \in 0 .. MaxSize, NEW e \in 0 .. (ExtLimit - 1), NEW w, NEW o, NEW p, NEW E, NEW l, NEW k, NEW m,
         LineAt("Extension", n, e, w, o, p, E, l, k, m), NEW b \in Byte, NEW ok
  PROVE  Decoding(Decoded(DecOf("Extension", n, e, 0, 0), b, ok), Append(w, b), o)
<1>0. n \in Nat /\ e \in Nat /\ ExtLimit \in Nat  BY Limits
<1>1. PICK q : q = Append(l, b)  OBVIOUS
<1>2. /\ Fronting(p, o, E) /\ LineIs(l, k, m) /\ n = SizeOf(l) /\ e = E + ExtOf(l)
      /\ q \in Seq(Byte) /\ Append(w, b) = p \o q /\ l \in Seq(Byte) /\ NoCr(l) /\ E \in Nat /\ ExtOf(l) \in Nat
  <2>1. LineRead(n, e, w, o, p, E, l, k, m, b)  BY LineText
  <2> QED  BY <1>1, <2>1, Zenon DEF LineRead
<1>b. E \in Nat /\ ExtOf(l) \in Nat  BY <1>2
<1>3. m < Len(l)  BY Zenon DEF LineAt
<1>a. LineRules(n, e, 0, 0, b, ok)  BY <1>0, DecodesLine, Zenon
<1>4. CASE b = Cr
  <2>1. Decoding(DecOf("SizeLf", n, e, 0, 0), Append(w, Cr), o)  BY LineEnds
  <2>2. Decoded(DecOf("Extension", n, e, 0, 0), b, ok) = DecOf("SizeLf", n, e, 0, 0)  BY <1>a, <1>4, Zenon DEF LineRules
  <2> QED  BY <1>4, <2>1, <2>2, Zenon
<1>5. CASE b = Lf
  <2>0. b # Cr  BY <1>5, BytesDiffer
  <2>1. ~LineOk(q)  BY <1>1, <1>2, <1>5, LineBreaks
  <2>2. NoCr(q)  BY <1>1, <1>2, <2>0, NoCrGrows
  <2>3. Just(p \o q)  BY <1>2, <2>1, <2>2, BadLineIsJust
  <2>4. Decoding(DecOf("Err", n, e, 0, 0), p \o q, o)  BY <2>3, Failing, Limits
  <2>5. Decoded(DecOf("Extension", n, e, 0, 0), b, ok) = DecOf("Err", n, e, 0, 0)  BY <1>a, <1>5, <2>0, Zenon DEF LineRules
  <2> QED  BY <1>2, <2>4, <2>5, Zenon
<1>6. CASE b # Cr /\ b # Lf
  <2>1. LineIs(q, k, m) /\ SizeOf(q) = SizeOf(l) /\ ExtOf(q) = ExtOf(l) + 1 /\ m < Len(q)
    BY <1>1, <1>2, <1>3, <1>6, LineGrows
  <2>2. PICK f : f = e + 1  OBVIOUS
  <2>3. n = SizeOf(q) /\ f = E + ExtOf(q) /\ f \in Nat  
    <3>1. (E + ExtOf(l)) + 1 = E + (ExtOf(l) + 1) /\ e + 1 \in Nat  BY <1>0, <1>b
    <3> QED  BY <1>2, <2>1, <2>2, <3>1, Zenon
  <2>4. CASE f >= ExtLimit
    <3>1. Decoded(DecOf("Extension", n, e, 0, 0), b, ok) = DecOf("Err", n, e, 0, 0)
      BY <1>a, <1>6, <2>2, <2>4, Zenon DEF LineRules
    <3>2. Parse[p \o q] = Verdict("open", o, E + ExtOf(q), <<>>)  BY <1>2, <2>1, LineVerdict
    <3>3. Parse[p \o q].ext = f  BY <2>3, <3>2 DEF Verdict
    <3>4. Over(Parse[p \o q])  BY <2>4, <3>3, Zenon DEF Over
    <3>5. Just(p \o q)  BY <3>4, Zenon DEF Just
    <3>6. Decoding(DecOf("Err", n, e, 0, 0), p \o q, o)  BY <3>5, Failing, Limits
    <3> QED  BY <1>2, <3>1, <3>6, Zenon
  <2>5. CASE ~(f >= ExtLimit)
    <3>1. Decoded(DecOf("Extension", n, e, 0, 0), b, ok) = DecOf("Extension", n, f, 0, 0)
      BY <1>a, <1>6, <2>2, <2>5, Zenon DEF LineRules
    <3>2. f \in 0 .. (ExtLimit - 1)  BY <1>0, <2>3, <2>5
    <3>3. Decoding(DecOf("Extension", n, f, 0, 0), p \o q, o)  BY <1>2, <2>1, <2>3, <3>2, LineOn
    <3> QED  BY <1>2, <3>1, <3>3, Zenon
  <2> QED  BY <2>4, <2>5
<1> QED  BY <1>4, <1>5, <1>6

\* A line, its CR and a byte.
CrAndByte(p, l, b) ==
  /\ Append(p \o (l \o <<Cr>>), b) = p \o (l \o (<<Cr>> \o (<<b>> \o <<>>)))
  /\ (l \o <<Cr>>) \o <<b>> = l \o (<<Cr>> \o (<<b>> \o <<>>))
  /\ l \o (<<Cr>> \o (<<b>> \o <<>>)) \in Seq(Byte)

\* So they are joined.
LEMMA CrAndBytes == \A p, l \in Seq(Byte), b \in Byte : CrAndByte(p, l, b)
<1> SUFFICES ASSUME NEW p \in Seq(Byte), NEW l \in Seq(Byte), NEW b \in Byte PROVE CrAndByte(p, l, b)
  BY Zenon
<1>0. Cr \in Byte  BY BytesDiffer
<1>1. PICK c, v : c = <<Cr>> /\ v = <<b>>  OBVIOUS
<1>2. c \in Seq(Byte) /\ v \in Seq(Byte)
  <2>1. ByteJoined(p, l, Cr) /\ ByteJoined(p, l, b)  BY <1>0, ByteJoins, Zenon
  <2> QED  BY <1>1, <2>1, Zenon DEF ByteJoined
<1>3. v \o <<>> = v  BY <1>2, BytesUnit, Zenon
<1>4. l \o c \in Seq(Byte) /\ c \o v \in Seq(Byte) /\ l \o (c \o v) \in Seq(Byte)  BY <1>2, BytesJoin, Zenon
<1>5. ByteJoined(p, l \o c, b)  BY <1>4, ByteJoins, Zenon
<1>6. Append(p \o (l \o c), b) = p \o ((l \o c) \o v)  BY <1>1, <1>5, Zenon DEF ByteJoined
<1>7. (l \o c) \o v = l \o (c \o v)  BY <1>2, BytesAssoc, Zenon
<1> QED  BY <1>1, <1>3, <1>4, <1>6, <1>7, Zenon DEF CrAndByte

\* The byte behind a line's CR.
LEMMA SizeLfByte ==
  ASSUME NEW n \in 0 .. MaxSize, NEW e \in 0 .. (ExtLimit - 1), NEW w, NEW o, NEW p, NEW E, NEW l, NEW k, NEW m,
         LineAt("SizeLf", n, e, w, o, p, E, l, k, m), NEW b \in Byte, NEW ok
  PROVE  Decoding(Decoded(DecOf("SizeLf", n, e, 0, 0), b, ok), Append(w, b), o)
<1>0. n \in Nat /\ e \in Nat  BY Limits
<1>1. /\ Fronting(p, o, E) /\ LineIs(l, k, m) /\ n = SizeOf(l) /\ e = E + ExtOf(l) /\ w = p \o (l \o <<Cr>>)
  BY Zenon DEF LineAt
<1>2. p \in Seq(Byte) /\ o \in Seq(Byte) /\ l \in Seq(Byte) /\ NoCr(l) /\ IsParts(l, k, m)  BY <1>1, Zenon DEF Fronting, LineIs
<1>3. LineRules(n, e, 0, 0, b, ok)  BY <1>0, DecodesLine, Zenon
<1>4. PICK q, r : q = l \o (<<Cr>> \o (<<b>> \o <<>>)) /\ r = <<>>  OBVIOUS
<1>5. r \in Seq(Byte) /\ Len(r) = 0  BY <1>4
<1>6. q \in Seq(Byte) /\ Append(w, b) = p \o q
  <2>1. CrAndByte(p, l, b)  BY <1>2, CrAndBytes, Zenon
  <2> QED  BY <1>1, <1>4, <2>1, Zenon DEF CrAndByte
<1>7. CASE b # Lf
  <2>1. Decoded(DecOf("SizeLf", n, e, 0, 0), b, ok) = DecOf("Err", n, e, 0, 0)  BY <1>3, <1>7, Zenon DEF LineRules
  <2>2. LineOk(l)  BY <1>2, PartsAre, Zenon
  <2>3. l # <<>>  BY <1>2 DEF IsParts
  <2>4. FirstChunk(l \o (<<Cr>> \o (<<b>> \o r))) = Verdict("bad", <<>>, ExtOf(l), <<>>)
    BY <1>2, <1>5, <1>7, <2>2, <2>3, WholeLine
  <2>5. PICK x : x = ExtOf(l)  OBVIOUS
  <2>6. x \in Nat  BY <1>2, <2>5, ExtType, Zenon
  <2>7. FirstChunk(q) = Verdict("bad", r, x, r)  BY <1>4, <2>4, <2>5, Zenon
  <2>8. Parse[p \o q].st = "bad"  BY <1>1, <1>5, <1>6, <2>6, <2>7, FrontBad
  <2>9. Just(p \o q)  BY <2>8, Zenon DEF Just
  <2>10. Decoding(DecOf("Err", n, e, 0, 0), p \o q, o)  BY <2>9, Failing, Limits
  <2> QED  BY <1>6, <2>1, <2>10, Zenon
<1>8. CASE b = Lf
  <2>1. q = Whole(l, r)  BY <1>4, <1>8, Zenon DEF Whole
  <2>2. CASE n = 0
    <3>1. Decoded(DecOf("SizeLf", n, e, 0, 0), b, ok) = DecOf("EndCr", 0, e, 0, 0)  BY <1>3, <1>8, <2>2, Zenon DEF LineRules
    <3>2. TailIn("EndCr", r) /\ 0 = Buffered(r) /\ 0 = Fields(r) /\ SizeOf(l) = 0  BY <1>1, <1>4, <2>2, TailBegins, Zenon
    <3>3. "EndCr" # "End" /\ "EndCr" \in TailStates  BY DEF TailStates
    <3>4. PICK S, z : S = "EndCr" /\ z = 0  OBVIOUS
    <3>5. S # "End" /\ S \in TailStates /\ TailIn(S, r) /\ z = Buffered(r) /\ z = Fields(r)  BY <3>2, <3>3, <3>4, Zenon
    <3>6. TailAt(S, e, z, z, p \o q, o, p, E, l, k, m, r)  BY <1>1, <2>1, <3>2, <3>5, Zenon DEF TailAt
    <3>7. z \in 0 .. (TrailerLimit - 1) /\ z \in 0 .. MaxHeaders  BY <3>4, Limits
    <3>8. Decoding(DecOf(S, 0, e, z, z), p \o q, o)  BY <3>5, <3>6, <3>7, Going, Limits
    <3> QED  BY <1>6, <3>1, <3>4, <3>8, Zenon
  <2>3. CASE n # 0
    <3>1. Decoded(DecOf("SizeLf", n, e, 0, 0), b, ok) = DecOf("Body", n, e, 0, 0)  BY <1>3, <1>8, <2>3, Zenon DEF LineRules
    <3>2. n > 0 /\ n = n + Len(r)  BY <1>0, <1>5, <2>3
    <3>3. o = o \o r  BY <1>2, <1>4, BytesUnit, Zenon
    <3>4. PICK S : S = "Body"  OBVIOUS
    <3>5. S # "BodyLf" /\ S \in {"Body", "BodyCr", "BodyLf"}  BY <3>4
    <3>6. p \o q = p \o Whole(l, IF S = "BodyLf" THEN r \o <<Cr>> ELSE r)  BY <2>1, <3>5, Zenon
    <3>7. DataAt(S, n, e, p \o q, o, p, o, E, l, k, m, r)  BY <1>1, <1>5, <3>2, <3>3, <3>4, <3>6, Zenon DEF DataAt
    <3>8. Decoding(DecOf(S, n, e, 0, 0), p \o q, o)  BY <3>5, <3>7, Going, Limits
    <3> QED  BY <1>6, <3>1, <3>4, <3>8, Zenon
  <2> QED  BY <2>2, <2>3
<1> QED  BY <1>7, <1>8

\* A byte of a line.
LEMMA LineStep ==
  ASSUME NEW d, NEW w, NEW o, InLine(d, w, o), NEW b \in Byte, NEW ok
  PROVE  Decoding(Decoded(d, b, ok), Append(w, b), o)
<1>1. PICK s \in {"Size", "SizeLws", "Extension", "SizeLf"}, n \in 0 .. MaxSize, e \in 0 .. (ExtLimit - 1) :
        d = DecOf(s, n, e, 0, 0) /\ \E p, E, l, k, m : LineAt(s, n, e, w, o, p, E, l, k, m)
  BY Zenon DEF InLine
<1>2. PICK p, E, l, k, m : LineAt(s, n, e, w, o, p, E, l, k, m)  BY <1>1, Zenon
<1>3. CASE s = "Size" /\ b \in Digit
  <2>1. LineAt("Size", n, e, w, o, p, E, l, k, m) /\ b \in Digit /\ d = DecOf("Size", n, e, 0, 0)  BY <1>1, <1>2, <1>3, Zenon
  <2> QED  BY <2>1, SizeDigit
<1>4. CASE s = "SizeLws" \/ (s = "Size" /\ b \notin Digit)
  <2>1. s \in {"Size", "SizeLws"} /\ (s = "Size" => b \notin Digit)  BY <1>4
  <2> QED  BY <1>1, <1>2, <2>1, SizeOther
<1>5. CASE s = "Extension"
  <2>1. LineAt("Extension", n, e, w, o, p, E, l, k, m) /\ d = DecOf("Extension", n, e, 0, 0)  BY <1>1, <1>2, <1>5, Zenon
  <2> QED  BY <2>1, ExtensionByte
<1>6. CASE s = "SizeLf"
  <2>1. LineAt("SizeLf", n, e, w, o, p, E, l, k, m) /\ d = DecOf("SizeLf", n, e, 0, 0)  BY <1>1, <1>2, <1>6, Zenon
  <2> QED  BY <2>1, SizeLfByte
<1> QED  BY <1>3, <1>4, <1>5, <1>6

-----------------------------------------------------------------------------
(* The data of a chunk.                                                    *)

\* More behind a line.
WholeTakes(p, l, y, s) ==
  /\ (p \o Whole(l, y)) \o s = p \o Whole(l, y \o s)
  /\ y \o s \in Seq(Byte) /\ Whole(l, y \o s) \in Seq(Byte) /\ p \o Whole(l, y \o s) \in Seq(Byte)
  /\ p \o Whole(l, y) \in Seq(Byte)

\* It is read there.
LEMMA WholesTake == \A p, l, y, s \in Seq(Byte) : WholeTakes(p, l, y, s)
<1> SUFFICES ASSUME NEW p \in Seq(Byte), NEW l \in Seq(Byte), NEW y \in Seq(Byte), NEW s \in Seq(Byte) PROVE WholeTakes(p, l, y, s)
  BY Zenon
<1>1. Growing(l, y, s)  BY WholeGrows, Zenon
<1>2. Whole(l, y) \in Seq(Byte) /\ Whole(l, y) \o s = Whole(l, y \o s) /\ y \o s \in Seq(Byte)  BY <1>1, Zenon DEF Growing
<1>3. Regroups(p, Whole(l, y), s)  BY <1>2, Regroup, Zenon
<1>4. (p \o Whole(l, y)) \o s = p \o Whole(l, y \o s)  BY <1>2, <1>3, Zenon DEF Regroups
<1>5. Whole(l, y \o s) \in Seq(Byte)  BY <1>2, BytesJoin, Zenon
<1>6. p \o Whole(l, y \o s) \in Seq(Byte) /\ p \o Whole(l, y) \in Seq(Byte)  BY <1>2, <1>5, BytesJoin, Zenon
<1> QED  BY <1>2, <1>4, <1>5, <1>6, Zenon DEF WholeTakes

\* The byte behind the data.
LEMMA BodyCrByte ==
  ASSUME NEW n \in 0 .. MaxSize, NEW e \in 0 .. (ExtLimit - 1), NEW w, NEW o, NEW p, NEW D, NEW E, NEW l, NEW k, NEW m, NEW y,
         DataAt("BodyCr", n, e, w, o, p, D, E, l, k, m, y), NEW b \in Byte, NEW ok
  PROVE  Decoding(Decoded(DecOf("BodyCr", n, e, 0, 0), b, ok), Append(w, b), o)
<1>0. n \in Nat /\ e \in Nat  BY Limits
<1>1. /\ Fronting(p, D, E) /\ LineIs(l, k, m) /\ e = E + ExtOf(l) /\ y \in Seq(Byte) /\ o = D \o y
      /\ SizeOf(l) = n + Len(y) /\ SizeOf(l) > 0 /\ n = 0 /\ w = p \o Whole(l, y)
  <2>1. "BodyCr" # "BodyLf" /\ "BodyCr" # "Body"  OBVIOUS
  <2> QED  BY <2>1, Zenon DEF DataAt
<1>2. p \in Seq(Byte) /\ D \in Seq(Byte) /\ l \in Seq(Byte)  BY <1>1, Zenon DEF Fronting, LineIs
<1>3. SizeOf(l) = Len(y) /\ y # <<>>
  <2>1. Len(y) \in Nat /\ (y = <<>> => Len(y) = 0)  BY <1>1
  <2>2. SizeOf(l) = Len(y) /\ Len(y) > 0  BY <1>1, <2>1
  <2> QED  BY <2>1, <2>2
<1>4. PICK v, z : v = <<b>> /\ z = y \o <<b>>  OBVIOUS
<1>5. /\ v \in Seq(Byte) /\ z = y \o v /\ z \in Seq(Byte) /\ Append(w, b) = p \o Whole(l, z)
      /\ p \o Whole(l, z) \in Seq(Byte)
  <2>1. ByteJoined(y, w, b)
    <3>1. WholeTakes(p, l, y, y)  BY <1>1, <1>2, WholesTake, Zenon
    <3>2. w \in Seq(Byte)  BY <1>1, <3>1, Zenon DEF WholeTakes
    <3> QED  BY <1>1, <3>2, ByteJoins, Zenon
  <2>2. v \in Seq(Byte) /\ Append(w, b) = w \o v  BY <1>4, <2>1, Zenon DEF ByteJoined
  <2>3. WholeTakes(p, l, y, v)  BY <1>1, <1>2, <2>2, WholesTake, Zenon
  <2> QED  BY <1>1, <1>4, <2>2, <2>3, Zenon DEF WholeTakes
<1>6. DataRules(n, e, 0, 0, b, ok)  BY <1>0, DecodesData, Zenon
<1>7. CASE b = Cr
  <2>1. Decoded(DecOf("BodyCr", n, e, 0, 0), b, ok) = DecOf("BodyLf", n, e, 0, 0)  BY <1>6, <1>7, Zenon DEF DataRules
  <2>2. PICK S : S = "BodyLf"  OBVIOUS
  <2>3. S # "Body" /\ S \in {"Body", "BodyCr", "BodyLf"}  BY <2>2
  <2>4. p \o Whole(l, z) = p \o Whole(l, IF S = "BodyLf" THEN y \o <<Cr>> ELSE y)  BY <1>4, <1>7, <2>2, Zenon
  <2>5. DataAt(S, n, e, p \o Whole(l, z), o, p, D, E, l, k, m, y)  BY <1>1, <2>3, <2>4, Zenon DEF DataAt
  <2>6. Decoding(DecOf(S, n, e, 0, 0), p \o Whole(l, z), o)  BY <2>3, <2>5, Going, Limits
  <2> QED  BY <1>5, <2>1, <2>2, <2>6, Zenon
<1>8. CASE b # Cr
  <2>1. Decoded(DecOf("BodyCr", n, e, 0, 0), b, ok) = DecOf("Err", n, e, 0, 0)  BY <1>6, <1>8, Zenon DEF DataRules
  <2>2. Behind(l, z) = Verdict("bad", y, ExtOf(l), <<>>)  BY <1>1, <1>3, <1>4, <1>8, BehindData
  <2>a. Fronting(p, D, E) /\ LineIs(l, k, m) /\ y \in Seq(Byte) /\ z \in Seq(Byte)  BY <1>1, <1>5, Zenon
  <2>3. Parse[p \o Whole(l, z)] = Verdict("bad", D \o y, E + ExtOf(l), <<>>)  BY <2>2, <2>a, WholeVerdict
  <2>4. Parse[p \o Whole(l, z)].st = "bad"  BY <2>3 DEF Verdict
  <2>5. Just(p \o Whole(l, z))  BY <2>4, Zenon DEF Just
  <2>6. Decoding(DecOf("Err", n, e, 0, 0), p \o Whole(l, z), o)  BY <2>5, Failing, Limits
  <2> QED  BY <1>5, <2>1, <2>6, Zenon
<1> QED  BY <1>7, <1>8

\* The byte behind the data's CR.
LEMMA BodyLfByte ==
  ASSUME NEW n \in 0 .. MaxSize, NEW e \in 0 .. (ExtLimit - 1), NEW w, NEW o, NEW p, NEW D, NEW E, NEW l, NEW k, NEW m, NEW y,
         DataAt("BodyLf", n, e, w, o, p, D, E, l, k, m, y), NEW b \in Byte, NEW ok
  PROVE  Decoding(Decoded(DecOf("BodyLf", n, e, 0, 0), b, ok), Append(w, b), o)
<1>0. n \in Nat /\ e \in Nat  BY Limits
<1>1. /\ Fronting(p, D, E) /\ LineIs(l, k, m) /\ e = E + ExtOf(l) /\ y \in Seq(Byte) /\ o = D \o y
      /\ SizeOf(l) = n + Len(y) /\ SizeOf(l) > 0 /\ n = 0 /\ w = p \o Whole(l, y \o <<Cr>>)
  <2>1. "BodyLf" # "Body"  OBVIOUS
  <2> QED  BY <2>1, Zenon DEF DataAt
<1>2. p \in Seq(Byte) /\ D \in Seq(Byte) /\ l \in Seq(Byte) /\ NoCr(l) /\ IsParts(l, k, m)  BY <1>1, Zenon DEF Fronting, LineIs
<1>3. SizeOf(l) = Len(y) /\ y # <<>>
  <2>1. Len(y) \in Nat /\ (y = <<>> => Len(y) = 0)  BY <1>1
  <2>2. SizeOf(l) = Len(y) /\ Len(y) > 0  BY <1>1, <2>1
  <2> QED  BY <2>1, <2>2
<1>4. PICK v, x, z, r : v = <<b>> /\ x = y \o <<Cr>> /\ z = y \o (<<Cr>> \o (<<b>> \o <<>>)) /\ r = <<>>  OBVIOUS
<1>5. x \in Seq(Byte) /\ x \o v = z /\ z \in Seq(Byte) /\ r \in Seq(Byte)
  <2>1. CrAndByte(p, y, b)  BY <1>1, <1>2, CrAndBytes, Zenon
  <2>2. Cr \in Byte  BY BytesDiffer
  <2>3. ByteJoined(p, y, Cr)  BY <1>1, <1>2, <2>2, ByteJoins, Zenon
  <2>4. r \in Seq(Byte)  BY <1>4
  <2> QED  BY <1>4, <2>1, <2>3, <2>4, Zenon DEF CrAndByte, ByteJoined
<1>6. Append(w, b) = p \o Whole(l, z) /\ p \o Whole(l, z) \in Seq(Byte)
  <2>0. WholeTakes(p, l, x, x)  BY <1>2, <1>5, WholesTake, Zenon
  <2>1. ByteJoined(y, w, b)  BY <1>1, <1>4, <2>0, ByteJoins, Zenon DEF WholeTakes
  <2>2. v \in Seq(Byte) /\ Append(w, b) = w \o v  BY <1>4, <2>1, Zenon DEF ByteJoined
  <2>3. WholeTakes(p, l, x, v)  BY <1>2, <1>5, <2>2, WholesTake, Zenon
  <2> QED  BY <1>1, <1>4, <1>5, <2>2, <2>3, Zenon DEF WholeTakes
<1>7. DataRules(n, e, 0, 0, b, ok)  BY <1>0, DecodesData, Zenon
<1>8. CASE b = Lf
  <2>1. Decoded(DecOf("BodyLf", n, e, 0, 0), b, ok) = DecOf("Start", 0, e, 0, 0)  BY <1>1, <1>7, <1>8, Zenon DEF DataRules
  <2>2. Fronting(p \o Whole(l, y \o (<<Cr>> \o (<<Lf>> \o <<>>))), D \o y, E + ExtOf(l))  BY <1>1, <1>2, <1>3, FrontGrows
  <2>3. Fronting(p \o Whole(l, z), o, e)  BY <1>1, <1>4, <1>8, <2>2, Zenon
  <2>4. Decoding(DecOf("Start", 0, e, 0, 0), p \o Whole(l, z), o)  BY <2>3, Going, Limits
  <2> QED  BY <1>6, <2>1, <2>4, Zenon
<1>9. CASE b # Lf
  <2>1. Decoded(DecOf("BodyLf", n, e, 0, 0), b, ok) = DecOf("Err", n, e, 0, 0)  BY <1>7, <1>9, Zenon DEF DataRules
  <2>2. Behind(l, y \o (<<Cr>> \o (<<b>> \o r))) = Verdict("bad", y, ExtOf(l), <<>>)  BY <1>1, <1>3, <1>5, <1>9, BehindWhole
  <2>a. Behind(l, z) = Verdict("bad", y, ExtOf(l), <<>>)  BY <1>4, <2>2, Zenon
  <2>3. Parse[p \o Whole(l, z)] = Verdict("bad", D \o y, E + ExtOf(l), <<>>)  BY <1>1, <1>5, <2>a, WholeVerdict
  <2>4. Parse[p \o Whole(l, z)].st = "bad"  BY <2>3 DEF Verdict
  <2>5. Just(p \o Whole(l, z))  BY <2>4, Zenon DEF Just
  <2>6. Decoding(DecOf("Err", n, e, 0, 0), p \o Whole(l, z), o)  BY <2>5, Failing, Limits
  <2> QED  BY <1>6, <2>1, <2>6, Zenon
<1> QED  BY <1>8, <1>9

\* A slice of data.
LEMMA SliceStep ==
  ASSUME NEW d, NEW w, NEW o, InData(d, w, o), d.state = "Body", NEW s \in Seq(Byte), Len(s) \in 1 .. d.size
  PROVE  Decoding(ReadBody(d, Len(s)), w \o s, o \o s)
<1>1. PICK t \in {"Body", "BodyCr", "BodyLf"}, n \in 0 .. MaxSize, e \in 0 .. (ExtLimit - 1) :
        d = DecOf(t, n, e, 0, 0) /\ \E p, D, E, l, k, m, y : DataAt(t, n, e, w, o, p, D, E, l, k, m, y)
  BY Zenon DEF InData
<1>2. t = "Body" /\ d.size = n  BY <1>1 DEF DecOf
<1>3. PICK p, D, E, l, k, m, y : DataAt("Body", n, e, w, o, p, D, E, l, k, m, y)  BY <1>1, <1>2, Zenon
<1>4. /\ Fronting(p, D, E) /\ LineIs(l, k, m) /\ e = E + ExtOf(l) /\ y \in Seq(Byte) /\ o = D \o y
      /\ SizeOf(l) = n + Len(y) /\ SizeOf(l) > 0 /\ w = p \o Whole(l, y)
  <2>1. "Body" # "BodyLf"  OBVIOUS
  <2> QED  BY <1>3, <2>1, Zenon DEF DataAt
<1>5. p \in Seq(Byte) /\ D \in Seq(Byte) /\ l \in Seq(Byte)  BY <1>4, Zenon DEF Fronting, LineIs
<1>6. WholeTakes(p, l, y, s)  BY <1>4, <1>5, WholesTake, Zenon
<1>7. Regroups(D, y, s)  BY <1>4, <1>5, Regroup, Zenon
<1>8. PICK z, a, i : z = y \o s /\ a = Len(s) /\ i = n - Len(s)  OBVIOUS
<1>9. w \o s = p \o Whole(l, z) /\ z \in Seq(Byte) /\ o \o s = D \o z  BY <1>4, <1>6, <1>7, <1>8, Zenon DEF WholeTakes, Regroups
<1>10. Len(z) = Len(y) + a /\ Len(y) \in Nat /\ a \in Nat
  <2>1. PICK B : B = Byte  OBVIOUS
  <2>2. y \in Seq(B) /\ s \in Seq(B)  BY <1>4, <2>1
  <2> QED  BY <1>8, <2>2
<1>11. a \in 1 .. n  BY <1>2, <1>8
<1>12. i \in 0 .. MaxSize /\ SizeOf(l) = i + Len(z) /\ (a < n => i > 0) /\ (~(a < n) => i = 0)
  <2>1. PICK Y, Z, N : Y = Len(y) /\ Z = Len(z) /\ N = SizeOf(l)  OBVIOUS
  <2>2. Z = Y + a /\ Y \in Nat /\ a \in Nat /\ N = n + Y /\ i = n - a  BY <1>4, <1>8, <1>10, <2>1, Zenon
  <2>3. n \in 0 .. MaxSize /\ MaxSize \in Nat  BY Limits
  <2>4. i \in 0 .. MaxSize /\ N = i + Z /\ (a < n => i > 0) /\ (~(a < n) => i = 0)  BY <1>11, <2>2, <2>3
  <2> QED  BY <2>1, <2>4, Zenon
<1>13. PICK S : S = IF a < n THEN "Body" ELSE "BodyCr"  OBVIOUS
<1>14. ReadBody(DecOf("Body", n, e, 0, 0), a) = DecOf(S, i, e, 0, 0)
  <2>1. DecOf("Body", n, e, 0, 0).size = n  BY DEF DecOf
  <2>2. ReadBody(DecOf("Body", n, e, 0, 0), a) = [DecOf("Body", n, e, 0, 0) EXCEPT !.size = i, !.state = S]
    BY <1>8, <1>13, <2>1 DEF ReadBody
  <2>3. (IF a = a THEN [DecOf("Body", n, e, 0, 0) EXCEPT !.size = i, !.state = S] ELSE DecOf(S, i, e, 0, 0)) = DecOf(S, i, e, 0, 0)
    BY DEF DecOf
  <2> QED  BY <2>2, <2>3, Zenon
<1>15. S \in {"Body", "BodyCr", "BodyLf"} /\ S # "BodyLf" /\ (S = "Body" => i > 0) /\ (S # "Body" => i = 0)  BY <1>12, <1>13
<1>16. w \o s = p \o Whole(l, IF S = "BodyLf" THEN z \o <<Cr>> ELSE z)  BY <1>9, <1>15, Zenon
<1>17. DataAt(S, i, e, w \o s, o \o s, p, D, E, l, k, m, z)  BY <1>4, <1>9, <1>12, <1>15, <1>16, Zenon DEF DataAt
<1>18. Decoding(DecOf(S, i, e, 0, 0), w \o s, o \o s)  BY <1>12, <1>15, <1>17, Going, Limits
<1> QED  BY <1>1, <1>2, <1>8, <1>14, <1>18, Zenon

\* A byte around the data of a chunk.
LEMMA DataStep ==
  ASSUME NEW d, NEW w, NEW o, InData(d, w, o), d.state # "Body", NEW b \in Byte, NEW ok
  PROVE  Decoding(Decoded(d, b, ok), Append(w, b), o)
<1>1. PICK s \in {"Body", "BodyCr", "BodyLf"}, n \in 0 .. MaxSize, e \in 0 .. (ExtLimit - 1) :
        d = DecOf(s, n, e, 0, 0) /\ \E p, D, E, l, k, m, y : DataAt(s, n, e, w, o, p, D, E, l, k, m, y)
  BY Zenon DEF InData
<1>2. s = "BodyCr" \/ s = "BodyLf"  BY <1>1 DEF DecOf
<1>3. PICK p, D, E, l, k, m, y : DataAt(s, n, e, w, o, p, D, E, l, k, m, y)  BY <1>1, Zenon
<1>4. CASE s = "BodyCr"
  <2>1. DataAt("BodyCr", n, e, w, o, p, D, E, l, k, m, y) /\ d = DecOf("BodyCr", n, e, 0, 0)  BY <1>1, <1>3, <1>4, Zenon
  <2> QED  BY <2>1, BodyCrByte
<1>5. CASE s = "BodyLf"
  <2>1. DataAt("BodyLf", n, e, w, o, p, D, E, l, k, m, y) /\ d = DecOf("BodyLf", n, e, 0, 0)  BY <1>1, <1>3, <1>5, Zenon
  <2> QED  BY <2>1, BodyLfByte
<1> QED  BY <1>2, <1>4, <1>5

-----------------------------------------------------------------------------
(* What is behind the last chunk.                                          *)

\* l is the line of the last chunk.
LastLine(p, o, E, l, k, m, e) ==
  Fronting(p, o, E) /\ LineIs(l, k, m) /\ SizeOf(l) = 0 /\ e = E + ExtOf(l) /\ e \in 0 .. (ExtLimit - 1)

\* The trailers go on or end.
LEMMA TailOn ==
  ASSUME NEW p, NEW o, NEW E, NEW l, NEW k, NEW m, NEW e, LastLine(p, o, E, l, k, m, e),
         NEW S \in TailStates, NEW u, TailIn(S, u), NEW X \in 0 .. (TrailerLimit - 1), X = Buffered(u),
         NEW C \in 0 .. MaxHeaders, C = Fields(u), S = "End" /\ X > 0 => C < MaxHeaders
  PROVE  Decoding(DecOf(S, 0, e, X, C), p \o Whole(l, u), o)
<1>1. TailAt(S, e, X, C, p \o Whole(l, u), o, p, E, l, k, m, u)  BY Zenon DEF TailAt, LastLine
<1>2. e \in 0 .. (ExtLimit - 1)  BY Zenon DEF LastLine
<1> QED  BY <1>1, <1>2, Going, Limits

\* They are refused.
LEMMA TailFails ==
  ASSUME NEW p, NEW o, NEW E, NEW l, NEW k, NEW m, NEW e, LastLine(p, o, E, l, k, m, e),
         NEW u \in Seq(Byte), NEW x \in 0 .. (TrailerLimit - 1), NEW c \in 0 .. MaxHeaders,
         \/ TailIs(u) = "bad"
         \/ Buffered(u) >= TrailerLimit
         \/ Fields(u) > MaxHeaders
         \/ TailIs(u) = "done" /\ Fields(u) > 0
  PROVE  Decoding(DecOf("Err", 0, e, x, c), p \o Whole(l, u), o)
<1>1. Fronting(p, o, E) /\ LineIs(l, k, m) /\ SizeOf(l) = 0 /\ e \in 0 .. (ExtLimit - 1)  BY Zenon DEF LastLine
<1>2. PICK v : v = p \o Whole(l, u)  OBVIOUS
<1>3. Parse[v] = Verdict(TailIs(u), o, E + ExtOf(l), u)  BY <1>1, <1>2, TailVerdict
<1>4. Parse[v].st = TailIs(u) /\ Parse[v].tail = u  BY <1>3 DEF Verdict
<1>5. Just(v)
  <2>1. CASE TailIs(u) = "bad"  BY <1>4, <2>1, Zenon DEF Just
  <2>2. CASE TailIs(u) = "done" /\ Fields(u) > 0  BY <1>4, <2>2, Zenon DEF Just
  <2>3. CASE Fields(u) > MaxHeaders
    <3>1. Over(Parse[v])  BY <1>4, <2>3, Zenon DEF Over
    <3> QED  BY <3>1, Zenon DEF Just
  <2>4. CASE Buffered(u) >= TrailerLimit
    <3>1. ~(0 >= TrailerLimit)  BY Limits
    <3>2. Buffered(u) # 0  BY <2>4, <3>1
    <3>3. u # <<>> /\ u[1] # Cr /\ Buffered(u) = Len(u)  BY <3>2, Zenon DEF Buffered
    <3>4. Len(u) >= TrailerLimit  BY <2>4, <3>3
    <3>5. Over(Parse[v])  BY <1>4, <3>3, <3>4, Zenon DEF Over
    <3> QED  BY <3>5, Zenon DEF Just
  <2> QED  BY <2>1, <2>2, <2>3, <2>4
<1>6. Decoding(DecOf("Err", 0, e, x, c), v, o)  BY <1>1, <1>5, Failing, Limits
<1> QED  BY <1>2, <1>6, Zenon

\* A byte more there.
TailRead(e, x, c, w, o, p, E, l, k, m, t, b) ==
  /\ LastLine(p, o, E, l, k, m, e) /\ t \in Seq(Byte) /\ Append(t, b) \in Seq(Byte)
  /\ x = Buffered(t) /\ c = Fields(t) /\ TailSteps(t, b)
  /\ Append(w, b) = p \o Whole(l, Append(t, b))

\* These are the facts of the trailers.
LEMMA TailText ==
  ASSUME NEW s \in TailStates, NEW e \in 0 .. (ExtLimit - 1), NEW x, NEW c, NEW w, NEW o, NEW p, NEW E, NEW l, NEW k, NEW m, NEW t,
         TailAt(s, e, x, c, w, o, p, E, l, k, m, t), NEW b \in Byte
  PROVE  TailRead(e, x, c, w, o, p, E, l, k, m, t, b) /\ TailIn(s, t)
<1>1. /\ Fronting(p, o, E) /\ LineIs(l, k, m) /\ SizeOf(l) = 0 /\ e = E + ExtOf(l)
      /\ w = p \o Whole(l, t) /\ TailIn(s, t) /\ x = Buffered(t) /\ c = Fields(t)
  BY Zenon DEF TailAt
<1>2. LastLine(p, o, E, l, k, m, e)  BY <1>1, Zenon DEF LastLine
<1>3. p \in Seq(Byte) /\ l \in Seq(Byte)  BY <1>1, Zenon DEF Fronting, LineIs
<1>4. t \in Seq(Byte)  BY <1>1, Zenon DEF TailIn
<1>5. TailSteps(t, b)  BY <1>4, TailStep
<1>6. PICK v : v = <<b>>  OBVIOUS
<1>7. WholeTakes(p, l, t, t)  BY <1>3, <1>4, WholesTake, Zenon
<1>8. ByteJoined(w, t, b) /\ ByteJoined(t, w, b)  BY <1>1, <1>4, <1>7, ByteJoins, Zenon DEF WholeTakes
<1>9. v \in Seq(Byte) /\ Append(t, b) = t \o v /\ Append(w, b) = w \o v /\ Append(t, b) \in Seq(Byte)
  BY <1>6, <1>8, Zenon DEF ByteJoined
<1>10. WholeTakes(p, l, t, v)  BY <1>3, <1>4, <1>9, WholesTake, Zenon
<1>11. Append(w, b) = p \o Whole(l, Append(t, b))  BY <1>1, <1>9, <1>10, Zenon DEF WholeTakes
<1> QED  BY <1>1, <1>2, <1>4, <1>5, <1>9, <1>11, Zenon DEF TailRead

\* At the start of a line.
LEMMA EndCrByte ==
  ASSUME NEW e \in 0 .. (ExtLimit - 1), NEW x \in 0 .. (TrailerLimit - 1), NEW c \in 0 .. MaxHeaders,
         NEW w, NEW o, NEW p, NEW E, NEW l, NEW k, NEW m, NEW t,
         TailAt("EndCr", e, x, c, w, o, p, E, l, k, m, t), NEW b \in Byte, NEW ok \in BOOLEAN
  PROVE  Decoding(Decoded(DecOf("EndCr", 0, e, x, c), b, ok), Append(w, b), o)
<1>0. x \in Nat /\ c \in Nat /\ "EndCr" \in TailStates  BY Limits DEF TailStates
<1>1. TailRead(e, x, c, w, o, p, E, l, k, m, t, b) /\ TailIn("EndCr", t)  BY <1>0, TailText
<1>2. PICK u, y : u = Append(t, b) /\ y = x + 1  OBVIOUS
<1>3. /\ LastLine(p, o, E, l, k, m, e) /\ u \in Seq(Byte) /\ x = Buffered(t) /\ c = Fields(t) /\ TailSteps(t, b)
      /\ Append(w, b) = p \o Whole(l, u)
  BY <1>1, <1>2, Zenon DEF TailRead
<1>4. /\ b = Cr => TailIn("EndLf", u) /\ Fields(u) = c /\ (x = 0 => Buffered(u) = 0) /\ (x > 0 => Buffered(u) = y)
      /\ b # Cr => TailIn("Trailer", u) /\ Fields(u) = c /\ Buffered(u) = y
  BY <1>1, <1>2, <1>3, Zenon DEF TailSteps
<1>5. BehindRules(0, e, x, c, b, ok)  BY <1>0, DecodesTail, Zenon
<1>6. PICK S : S = IF b = Cr THEN "EndLf" ELSE "Trailer"  OBVIOUS
<1>7. S \in TailStates /\ S # "End"  BY <1>6 DEF TailStates
<1>8. TailIn(S, u) /\ Fields(u) = c /\ (x > 0 => Buffered(u) = y)
  <2>1. CASE b = Cr  BY <1>4, <1>6, <2>1, Zenon
  <2>2. CASE b # Cr  BY <1>4, <1>6, <2>2, Zenon
  <2> QED  BY <2>1, <2>2
<1>9. CASE x > 0 /\ y >= TrailerLimit
  <2>1. Decoded(DecOf("EndCr", 0, e, x, c), b, ok) = DecOf("Err", 0, e, x, c)  BY <1>2, <1>5, <1>9, Zenon DEF BehindRules
  <2>2. Decoding(DecOf("Err", 0, e, x, c), p \o Whole(l, u), o)  BY <1>3, <1>8, <1>9, TailFails
  <2> QED  BY <1>3, <2>1, <2>2, Zenon
<1>10. CASE x > 0 /\ ~(y >= TrailerLimit)
  <2>1. Decoded(DecOf("EndCr", 0, e, x, c), b, ok) = DecOf(S, 0, e, y, c)  BY <1>2, <1>5, <1>6, <1>10, Zenon DEF BehindRules
  <2>2. y \in 0 .. (TrailerLimit - 1)  BY <1>0, <1>2, <1>10, Limits
  <2>3. Decoding(DecOf(S, 0, e, y, c), p \o Whole(l, u), o)  BY <1>3, <1>7, <1>8, <1>10, <2>2, TailOn
  <2> QED  BY <1>3, <2>1, <2>3, Zenon
<1>11. CASE x = 0
  <2>1. PICK z : z = IF b = Cr THEN 0 ELSE 1  OBVIOUS
  <2>2. Decoded(DecOf("EndCr", 0, e, x, c), b, ok) = DecOf(S, 0, e, z, c)  BY <1>5, <1>6, <1>11, <2>1, Zenon DEF BehindRules
  <2>3. z = Buffered(u)
    <3>1. y = 1  BY <1>2, <1>11
    <3>2. CASE b = Cr  BY <1>4, <1>11, <2>1, <3>2, Zenon
    <3>3. CASE b # Cr  BY <1>4, <2>1, <3>1, <3>3, Zenon
    <3> QED  BY <3>2, <3>3
  <2>4. z \in 0 .. (TrailerLimit - 1)  BY <2>1, Limits
  <2>5. Decoding(DecOf(S, 0, e, z, c), p \o Whole(l, u), o)  BY <1>3, <1>7, <1>8, <2>3, <2>4, TailOn
  <2> QED  BY <1>3, <2>2, <2>5, Zenon
<1> QED  BY <1>0, <1>9, <1>10, <1>11

\* In a field.
LEMMA TrailerByte ==
  ASSUME NEW e \in 0 .. (ExtLimit - 1), NEW x \in 0 .. (TrailerLimit - 1), NEW c \in 0 .. MaxHeaders,
         NEW w, NEW o, NEW p, NEW E, NEW l, NEW k, NEW m, NEW t,
         TailAt("Trailer", e, x, c, w, o, p, E, l, k, m, t), NEW b \in Byte, NEW ok \in BOOLEAN
  PROVE  Decoding(Decoded(DecOf("Trailer", 0, e, x, c), b, ok), Append(w, b), o)
<1>0. x \in Nat /\ c \in Nat /\ "Trailer" \in TailStates  BY Limits DEF TailStates
<1>1. TailRead(e, x, c, w, o, p, E, l, k, m, t, b) /\ TailIn("Trailer", t)  BY <1>0, TailText
<1>2. PICK u, y, S : u = Append(t, b) /\ y = x + 1 /\ S = IF b = Cr THEN "TrailerLf" ELSE "Trailer"  OBVIOUS
<1>3. /\ LastLine(p, o, E, l, k, m, e) /\ u \in Seq(Byte) /\ x = Buffered(t) /\ c = Fields(t) /\ TailSteps(t, b)
      /\ Append(w, b) = p \o Whole(l, u)
  BY <1>1, <1>2, Zenon DEF TailRead
<1>4. TailIn(S, u) /\ Fields(u) = c /\ Buffered(u) = y  BY <1>1, <1>2, <1>3, Zenon DEF TailSteps
<1>5. BehindRules(0, e, x, c, b, ok)  BY <1>0, DecodesTail, Zenon
<1>6. S \in TailStates /\ S # "End"  BY <1>2 DEF TailStates
<1>7. CASE y >= TrailerLimit
  <2>1. Decoded(DecOf("Trailer", 0, e, x, c), b, ok) = DecOf("Err", 0, e, x, c)  BY <1>2, <1>5, <1>7, Zenon DEF BehindRules
  <2>2. Decoding(DecOf("Err", 0, e, x, c), p \o Whole(l, u), o)  BY <1>3, <1>4, <1>7, TailFails
  <2> QED  BY <1>3, <2>1, <2>2, Zenon
<1>8. CASE ~(y >= TrailerLimit)
  <2>1. Decoded(DecOf("Trailer", 0, e, x, c), b, ok) = DecOf(S, 0, e, y, c)  BY <1>2, <1>5, <1>8, Zenon DEF BehindRules
  <2>2. y \in 0 .. (TrailerLimit - 1)  BY <1>0, <1>2, <1>8, Limits
  <2>3. Decoding(DecOf(S, 0, e, y, c), p \o Whole(l, u), o)  BY <1>3, <1>4, <1>6, <2>2, TailOn
  <2> QED  BY <1>3, <2>1, <2>3, Zenon
<1> QED  BY <1>7, <1>8

\* At the end of a field.
LEMMA TrailerLfByte ==
  ASSUME NEW e \in 0 .. (ExtLimit - 1), NEW x \in 0 .. (TrailerLimit - 1), NEW c \in 0 .. MaxHeaders,
         NEW w, NEW o, NEW p, NEW E, NEW l, NEW k, NEW m, NEW t,
         TailAt("TrailerLf", e, x, c, w, o, p, E, l, k, m, t), NEW b \in Byte, NEW ok \in BOOLEAN
  PROVE  Decoding(Decoded(DecOf("TrailerLf", 0, e, x, c), b, ok), Append(w, b), o)
<1>0. x \in Nat /\ c \in Nat /\ "TrailerLf" \in TailStates /\ "EndCr" \in TailStates /\ "EndCr" # "End"  BY Limits DEF TailStates
<1>1. TailRead(e, x, c, w, o, p, E, l, k, m, t, b) /\ TailIn("TrailerLf", t)  BY <1>0, TailText
<1>2. PICK u, y, f : u = Append(t, b) /\ y = x + 1 /\ f = c + 1  OBVIOUS
<1>3. /\ LastLine(p, o, E, l, k, m, e) /\ u \in Seq(Byte) /\ x = Buffered(t) /\ c = Fields(t) /\ TailSteps(t, b)
      /\ Append(w, b) = p \o Whole(l, u)
  BY <1>1, <1>2, Zenon DEF TailRead
<1>4. /\ b # Lf => TailIs(u) = "bad"
      /\ b = Lf => TailIn("EndCr", u) /\ Fields(u) = f /\ Buffered(u) = y
  BY <1>1, <1>2, <1>3, Zenon DEF TailSteps
<1>5. BehindRules(0, e, x, c, b, ok)  BY <1>0, DecodesTail, Zenon
<1>6. CASE b # Lf \/ c >= MaxHeaders
  <2>1. Decoded(DecOf("TrailerLf", 0, e, x, c), b, ok) = DecOf("Err", 0, e, x, c)  BY <1>5, <1>6, Zenon DEF BehindRules
  <2>2. TailIs(u) = "bad" \/ Fields(u) > MaxHeaders
    <3>1. c >= MaxHeaders => f > MaxHeaders  BY <1>0, <1>2, Limits
    <3> QED  BY <1>4, <1>6, <3>1
  <2>3. Decoding(DecOf("Err", 0, e, x, c), p \o Whole(l, u), o)  BY <1>3, <2>2, TailFails
  <2> QED  BY <1>3, <2>1, <2>3, Zenon
<1>7. CASE b = Lf /\ ~(c >= MaxHeaders)
  <2>0. f \in 0 .. MaxHeaders  BY <1>0, <1>2, <1>7, Limits
  <2>1. CASE y >= TrailerLimit
    <3>1. Decoded(DecOf("TrailerLf", 0, e, x, c), b, ok) = DecOf("Err", 0, e, x, f)  BY <1>2, <1>5, <1>7, <2>1, Zenon DEF BehindRules
    <3>2. Decoding(DecOf("Err", 0, e, x, f), p \o Whole(l, u), o)  BY <1>3, <1>4, <1>7, <2>0, <2>1, TailFails
    <3> QED  BY <1>3, <3>1, <3>2, Zenon
  <2>2. CASE ~(y >= TrailerLimit)
    <3>1. Decoded(DecOf("TrailerLf", 0, e, x, c), b, ok) = DecOf("EndCr", 0, e, y, f)  BY <1>2, <1>5, <1>7, <2>2, Zenon DEF BehindRules
    <3>2. y \in 0 .. (TrailerLimit - 1)  BY <1>0, <1>2, <2>2, Limits
    <3>3. Decoding(DecOf("EndCr", 0, e, y, f), p \o Whole(l, u), o)  BY <1>0, <1>3, <1>4, <1>7, <2>0, <3>2, TailOn
    <3> QED  BY <1>3, <3>1, <3>3, Zenon
  <2> QED  BY <2>1, <2>2
<1> QED  BY <1>6, <1>7

\* At the end of the empty line.
LEMMA EndLfByte ==
  ASSUME NEW e \in 0 .. (ExtLimit - 1), NEW x \in 0 .. (TrailerLimit - 1), NEW c \in 0 .. MaxHeaders,
         NEW w, NEW o, NEW p, NEW E, NEW l, NEW k, NEW m, NEW t,
         TailAt("EndLf", e, x, c, w, o, p, E, l, k, m, t), NEW b \in Byte, NEW ok \in BOOLEAN
  PROVE  Decoding(Decoded(DecOf("EndLf", 0, e, x, c), b, ok), Append(w, b), o)
<1>0. x \in Nat /\ c \in Nat /\ "EndLf" \in TailStates /\ "End" \in TailStates  BY Limits DEF TailStates
<1>1. TailRead(e, x, c, w, o, p, E, l, k, m, t, b) /\ TailIn("EndLf", t)  BY <1>0, TailText
<1>2. PICK u, y : u = Append(t, b) /\ y = x + 1  OBVIOUS
<1>3. /\ LastLine(p, o, E, l, k, m, e) /\ u \in Seq(Byte) /\ x = Buffered(t) /\ c = Fields(t) /\ TailSteps(t, b)
      /\ Append(w, b) = p \o Whole(l, u)
  BY <1>1, <1>2, Zenon DEF TailRead
<1>4. /\ b # Lf => TailIs(u) = "bad"
      /\ b = Lf => TailIn("End", u) /\ Fields(u) = c /\ (x = 0 => Buffered(u) = 0) /\ (x > 0 => Buffered(u) = y)
  BY <1>1, <1>2, <1>3, Zenon DEF TailSteps
<1>5. BehindRules(0, e, x, c, b, ok)  BY <1>0, DecodesTail, Zenon
<1>6. CASE b # Lf
  <2>1. Decoded(DecOf("EndLf", 0, e, x, c), b, ok) = DecOf("Err", 0, e, x, c)  BY <1>5, <1>6, Zenon DEF BehindRules
  <2>2. Decoding(DecOf("Err", 0, e, x, c), p \o Whole(l, u), o)  BY <1>3, <1>4, <1>6, TailFails
  <2> QED  BY <1>3, <2>1, <2>2, Zenon
<1>7. CASE b = Lf /\ x > 0
  <2>1. CASE y >= TrailerLimit
    <3>1. Decoded(DecOf("EndLf", 0, e, x, c), b, ok) = DecOf("Err", 0, e, x, c)  BY <1>2, <1>5, <1>7, <2>1, Zenon DEF BehindRules
    <3>2. Decoding(DecOf("Err", 0, e, x, c), p \o Whole(l, u), o)  BY <1>3, <1>4, <1>7, <2>1, TailFails
    <3> QED  BY <1>3, <3>1, <3>2, Zenon
  <2>2. CASE ~(y >= TrailerLimit)
    <3>1. Decoded(DecOf("EndLf", 0, e, x, c), b, ok) = DecOf(IF c >= MaxHeaders \/ ~ok THEN "Err" ELSE "End", 0, e, y, c)
      BY <1>2, <1>5, <1>7, <2>2, Zenon DEF BehindRules
    <3>2. y \in 0 .. (TrailerLimit - 1) /\ y > 0  BY <1>0, <1>2, <2>2, Limits
    <3>3. CASE c >= MaxHeaders \/ ~ok
      <4>1. Decoded(DecOf("EndLf", 0, e, x, c), b, ok) = DecOf("Err", 0, e, y, c)  BY <3>1, <3>3, Zenon
      <4>2. TailIn("End", u) /\ Buffered(u) > 0  BY <1>4, <1>7, <3>2
      <4>3. Fields(u) > 0  BY <4>2, Zenon DEF TailIn
      <4>4. TailIs(u) = "done"  BY <1>0, <4>2, TailMeans
      <4>5. Decoding(DecOf("Err", 0, e, y, c), p \o Whole(l, u), o)  BY <1>3, <3>2, <4>3, <4>4, TailFails
      <4> QED  BY <1>3, <4>1, <4>5, Zenon
    <3>4. CASE ~(c >= MaxHeaders \/ ~ok)
      <4>1. Decoded(DecOf("EndLf", 0, e, x, c), b, ok) = DecOf("End", 0, e, y, c)  BY <3>1, <3>4, Zenon
      <4>2. c < MaxHeaders  BY <1>0, <3>4, Limits
      <4>3. Decoding(DecOf("End", 0, e, y, c), p \o Whole(l, u), o)  BY <1>0, <1>3, <1>4, <1>7, <3>2, <4>2, TailOn
      <4> QED  BY <1>3, <4>1, <4>3, Zenon
    <3> QED  BY <3>3, <3>4
  <2> QED  BY <2>1, <2>2
<1>8. CASE b = Lf /\ x = 0
  <2>1. Decoded(DecOf("EndLf", 0, e, x, c), b, ok) = DecOf("End", 0, e, x, c)  BY <1>5, <1>8, Zenon DEF BehindRules
  <2>2. TailIn("End", u) /\ c = Fields(u) /\ x = Buffered(u)  BY <1>4, <1>8, Zenon
  <2>3. ~(x > 0)  BY <1>8
  <2>4. Decoding(DecOf("End", 0, e, x, c), p \o Whole(l, u), o)  BY <1>0, <1>3, <2>2, <2>3, TailOn
  <2> QED  BY <1>3, <2>1, <2>4, Zenon
<1> QED  BY <1>0, <1>6, <1>7, <1>8

\* A byte behind the last chunk.
LEMMA BehindStep ==
  ASSUME NEW d, NEW w, NEW o, InTail(d, w, o), d.state # "End", NEW b \in Byte, NEW ok \in BOOLEAN
  PROVE  Decoding(Decoded(d, b, ok), Append(w, b), o)
<1>1. PICK s \in TailStates, e \in 0 .. (ExtLimit - 1), x \in 0 .. (TrailerLimit - 1), c \in 0 .. MaxHeaders :
        d = DecOf(s, 0, e, x, c) /\ \E p, E, l, k, m, t : TailAt(s, e, x, c, w, o, p, E, l, k, m, t)
  BY Zenon DEF InTail
<1>2. s # "End"  BY <1>1 DEF DecOf
<1>3. PICK p, E, l, k, m, t : TailAt(s, e, x, c, w, o, p, E, l, k, m, t)  BY <1>1, Zenon
<1>4. CASE s = "EndCr"
  <2>1. TailAt("EndCr", e, x, c, w, o, p, E, l, k, m, t) /\ d = DecOf("EndCr", 0, e, x, c)  BY <1>1, <1>3, <1>4, Zenon
  <2> QED  BY <2>1, EndCrByte
<1>5. CASE s = "Trailer"
  <2>1. TailAt("Trailer", e, x, c, w, o, p, E, l, k, m, t) /\ d = DecOf("Trailer", 0, e, x, c)  BY <1>1, <1>3, <1>5, Zenon
  <2> QED  BY <2>1, TrailerByte
<1>6. CASE s = "TrailerLf"
  <2>1. TailAt("TrailerLf", e, x, c, w, o, p, E, l, k, m, t) /\ d = DecOf("TrailerLf", 0, e, x, c)  BY <1>1, <1>3, <1>6, Zenon
  <2> QED  BY <2>1, TrailerLfByte
<1>7. CASE s = "EndLf"
  <2>1. TailAt("EndLf", e, x, c, w, o, p, E, l, k, m, t) /\ d = DecOf("EndLf", 0, e, x, c)  BY <1>1, <1>3, <1>7, Zenon
  <2> QED  BY <2>1, EndLfByte
<1> QED  BY <1>2, <1>4, <1>5, <1>6, <1>7 DEF TailStates

-----------------------------------------------------------------------------
(* The decoder's invariant.                                                *)

\* A byte of a chunked body, anywhere in it.
LEMMA ByteKeeps ==
  ASSUME NEW d, NEW w, NEW o, Decoding(d, w, o), d.state \in ByteStates, NEW b \in Byte, NEW ok \in BOOLEAN
  PROVE  Decoding(Decoded(d, b, ok), Append(w, b), o)
<1>1. d.state # "Body" /\ d.state # "End" /\ d.state # "Err"  BY DEF ByteStates
<1>2. CASE AtStart(d, w, o)  BY <1>2, StartStep
<1>3. CASE InLine(d, w, o)  BY <1>3, LineStep
<1>4. CASE InData(d, w, o)  BY <1>1, <1>4, DataStep
<1>5. CASE InTail(d, w, o)  BY <1>1, <1>5, BehindStep
<1>6. ~FailsJustly(d, w)
  <2>1. SUFFICES ASSUME FailsJustly(d, w) PROVE FALSE  OBVIOUS
  <2>2. PICK n, e, x, c : d = DecOf("Err", n, e, x, c)  BY <2>1, Zenon DEF FailsJustly
  <2>3. d.state = "Err"  BY <2>2 DEF DecOf
  <2> QED  BY <1>1, <2>3
<1> QED  BY <1>2, <1>3, <1>4, <1>5, <1>6, Zenon DEF Decoding

\* The states of a chunked body.
ChunkStates == ByteStates \cup {"Body", "End", "Err"}

\* A decoder within its limits.
Bounded(d, S) ==
  \E s \in S, n \in 0 .. MaxSize, e \in 0 .. (ExtLimit - 1), x \in 0 .. (TrailerLimit - 1), c \in 0 .. MaxHeaders :
    d = DecOf(s, n, e, x, c)

\* What it means to be somewhere in a chunked body.
Meant(d, w, o) ==
  /\ Bounded(d, ChunkStates)
  /\ d.state \notin {"End", "Err"} => Parse[w].st = "open" /\ ~Over(Parse[w]) /\ o = Parse[w].data
  /\ d.state = "End" => Parse[w].st = "done" /\ ~Over(Parse[w]) /\ o = Parse[w].data
  /\ d.state = "Err" => Just(w)

\* An open line or chunk is within the limits.
LEMMA OpenFits ==
  ASSUME NEW w, NEW o, NEW e \in 0 .. (ExtLimit - 1), Parse[w] = Verdict("open", o, e, <<>>)
  PROVE  Parse[w].st = "open" /\ ~Over(Parse[w]) /\ o = Parse[w].data
<1>1. PICK r : r = <<>>  OBVIOUS
<1>2. Parse[w].st = "open" /\ Parse[w].data = o /\ Parse[w].ext = e /\ Parse[w].tail = r  BY <1>1 DEF Verdict
<1>3. ~(e >= ExtLimit)  BY Limits
<1>4. Fields(r) = 0 /\ ~(0 > MaxHeaders)  BY <1>1, TailBegins, Limits
<1>5. ~Over(Parse[w])  BY <1>1, <1>2, <1>3, <1>4, Zenon DEF Over
<1> QED  BY <1>2, <1>5

\* What is behind the last chunk is within the limits.
LEMMA TailFits ==
  ASSUME NEW s \in TailStates, NEW e \in 0 .. (ExtLimit - 1), NEW x \in 0 .. (TrailerLimit - 1), NEW c \in 0 .. MaxHeaders,
         NEW w, NEW o, NEW p, NEW E, NEW l, NEW k, NEW m, NEW t, TailAt(s, e, x, c, w, o, p, E, l, k, m, t)
  PROVE  Parse[w].st = (IF s = "End" THEN "done" ELSE "open") /\ ~Over(Parse[w]) /\ o = Parse[w].data
<1>1. /\ Fronting(p, o, E) /\ LineIs(l, k, m) /\ SizeOf(l) = 0 /\ e = E + ExtOf(l)
      /\ w = p \o Whole(l, t) /\ TailIn(s, t) /\ x = Buffered(t) /\ c = Fields(t) /\ (s = "End" /\ x > 0 => c < MaxHeaders)
  BY Zenon DEF TailAt
<1>2. t \in Seq(Byte)  BY <1>1, Zenon DEF TailIn
<1>a. Fronting(p, o, E) /\ LineIs(l, k, m) /\ SizeOf(l) = 0  BY <1>1, Zenon
<1>3. Parse[p \o Whole(l, t)] = Verdict(TailIs(t), o, E + ExtOf(l), t)  BY <1>a, <1>2, TailVerdict
<1>4. Parse[w] = Verdict(TailIs(t), o, e, t)  BY <1>1, <1>3, Zenon
<1>5. Parse[w].st = TailIs(t) /\ Parse[w].data = o /\ Parse[w].ext = e /\ Parse[w].tail = t  BY <1>4 DEF Verdict
<1>6. TailIs(t) = IF s = "End" THEN "done" ELSE "open"
  <2>1. (s # "End" => TailIs(t) = "open") /\ (s = "End" => TailIs(t) = "done")  BY <1>1, TailMeans
  <2> QED  BY <2>1, Zenon
<1>7. ~(e >= ExtLimit) /\ ~(c > MaxHeaders)  BY Limits
<1>8. t # <<>> /\ t[1] # Cr => x = Len(t)  BY <1>1, Zenon DEF Buffered
<1>9. ~(t # <<>> /\ t[1] # Cr /\ Len(t) >= TrailerLimit)  BY <1>8, Limits
<1>10. ~(t # <<>> /\ t[1] # Cr /\ TailIs(t) = "done" /\ c >= MaxHeaders)
  <2>1. SUFFICES ASSUME t # <<>> /\ t[1] # Cr /\ TailIs(t) = "done" /\ c >= MaxHeaders PROVE FALSE  OBVIOUS
  <2>2. Len(t) > 0  BY <1>2, <2>1
  <2>3. s = "End"  BY <1>6, <2>1
  <2>4. c < MaxHeaders  BY <1>1, <1>8, <2>1, <2>2, <2>3
  <2> QED  BY <2>1, <2>4, Limits
<1>11. ~Over(Parse[w])  BY <1>1, <1>5, <1>7, <1>9, <1>10, Zenon DEF Over
<1> QED  BY <1>5, <1>6, <1>11, Zenon

\* A decoder with its fields is bounded, and has its state.
LEMMA BoundedIs ==
  ASSUME NEW s \in ChunkStates, NEW n \in 0 .. MaxSize, NEW e \in 0 .. (ExtLimit - 1), NEW x \in 0 .. (TrailerLimit - 1),
         NEW c \in 0 .. MaxHeaders
  PROVE  Bounded(DecOf(s, n, e, x, c), ChunkStates) /\ DecOf(s, n, e, x, c).state = s
<1>1. DecOf(s, n, e, x, c).state = s  BY DEF DecOf
<1> QED  BY <1>1, Zenon DEF Bounded

\* The places mean what they should.
LEMMA PlacesMean ==
  ASSUME NEW d, NEW w, NEW o, Decoding(d, w, o)
  PROVE  Meant(d, w, o)
<1>1. CASE AtStart(d, w, o)
  <2>1. PICK e \in 0 .. (ExtLimit - 1) : d = DecOf("Start", 0, e, 0, 0) /\ Fronting(w, o, e)  BY <1>1, Zenon DEF AtStart
  <2>2. Parse[w] = Verdict("open", o, e, <<>>)  BY <2>1, StartVerdict
  <2>3. Parse[w].st = "open" /\ ~Over(Parse[w]) /\ o = Parse[w].data  BY <2>2, OpenFits
  <2>4. "Start" \in ChunkStates /\ "Start" # "End" /\ "Start" # "Err"  BY DEF ChunkStates, ByteStates
  <2>5. Bounded(d, ChunkStates) /\ d.state = "Start"  BY <2>1, <2>4, BoundedIs, Limits
  <2> QED  BY <2>3, <2>4, <2>5, Zenon DEF Meant
<1>2. CASE InLine(d, w, o)
  <2>1. PICK s \in {"Size", "SizeLws", "Extension", "SizeLf"}, n \in 0 .. MaxSize, e \in 0 .. (ExtLimit - 1) :
          d = DecOf(s, n, e, 0, 0) /\ \E p, E, l, k, m : LineAt(s, n, e, w, o, p, E, l, k, m)
    BY <1>2, Zenon DEF InLine
  <2>2. PICK p, E, l, k, m : LineAt(s, n, e, w, o, p, E, l, k, m)  BY <2>1, Zenon
  <2>3. Parse[w] = Verdict("open", o, e, <<>>)  BY <2>2, LineIsOpen
  <2>4. Parse[w].st = "open" /\ ~Over(Parse[w]) /\ o = Parse[w].data  BY <2>3, OpenFits
  <2>5. s \in ChunkStates /\ s # "End" /\ s # "Err"  BY DEF ChunkStates, ByteStates
  <2>6. Bounded(d, ChunkStates) /\ d.state = s  BY <2>1, <2>5, BoundedIs, Limits
  <2> QED  BY <2>4, <2>5, <2>6, Zenon DEF Meant
<1>3. CASE InData(d, w, o)
  <2>1. PICK s \in {"Body", "BodyCr", "BodyLf"}, n \in 0 .. MaxSize, e \in 0 .. (ExtLimit - 1) :
          d = DecOf(s, n, e, 0, 0) /\ \E p, D, E, l, k, m, y : DataAt(s, n, e, w, o, p, D, E, l, k, m, y)
    BY <1>3, Zenon DEF InData
  <2>2. PICK p, D, E, l, k, m, y : DataAt(s, n, e, w, o, p, D, E, l, k, m, y)  BY <2>1, Zenon
  <2>a. n \in Nat  BY Limits
  <2>3. Parse[w] = Verdict("open", o, e, <<>>)  BY <2>2, <2>a, DataIsOpen
  <2>4. Parse[w].st = "open" /\ ~Over(Parse[w]) /\ o = Parse[w].data  BY <2>3, OpenFits
  <2>5. s \in ChunkStates /\ s # "End" /\ s # "Err"  BY DEF ChunkStates, ByteStates
  <2>6. Bounded(d, ChunkStates) /\ d.state = s  BY <2>1, <2>5, BoundedIs, Limits
  <2> QED  BY <2>4, <2>5, <2>6, Zenon DEF Meant
<1>4. CASE InTail(d, w, o)
  <2>1. PICK s \in TailStates, e \in 0 .. (ExtLimit - 1), x \in 0 .. (TrailerLimit - 1), c \in 0 .. MaxHeaders :
          d = DecOf(s, 0, e, x, c) /\ \E p, E, l, k, m, t : TailAt(s, e, x, c, w, o, p, E, l, k, m, t)
    BY <1>4, Zenon DEF InTail
  <2>2. PICK p, E, l, k, m, t : TailAt(s, e, x, c, w, o, p, E, l, k, m, t)  BY <2>1, Zenon
  <2>3. Parse[w].st = (IF s = "End" THEN "done" ELSE "open") /\ ~Over(Parse[w]) /\ o = Parse[w].data  BY <2>2, TailFits
  <2>4. s \in ChunkStates /\ s # "Err"  BY DEF ChunkStates, ByteStates, TailStates
  <2>5. Bounded(d, ChunkStates) /\ d.state = s  BY <2>1, <2>4, BoundedIs, Limits
  <2> QED  BY <2>3, <2>4, <2>5, Zenon DEF Meant
<1>5. CASE FailsJustly(d, w)
  <2>1. PICK n \in 0 .. MaxSize, e \in 0 .. (ExtLimit - 1), x \in 0 .. (TrailerLimit - 1), c \in 0 .. MaxHeaders :
          d = DecOf("Err", n, e, x, c) /\ Just(w)
    BY <1>5, Zenon DEF FailsJustly
  <2>2. "Err" \in ChunkStates /\ "Err" # "End"  BY DEF ChunkStates
  <2>3. Bounded(d, ChunkStates) /\ d.state = "Err"  BY <2>1, <2>2, BoundedIs
  <2> QED  BY <2>1, <2>2, <2>3, Zenon DEF Meant
<1> QED  BY <1>1, <1>2, <1>3, <1>4, <1>5, Zenon DEF Decoding

\* A slice of a chunk, wherever the decoder takes one.
LEMMA SliceKeeps ==
  ASSUME NEW d, NEW w, NEW o, Decoding(d, w, o), d.state = "Body", NEW s \in Seq(Byte), Len(s) \in 1 .. d.size
  PROVE  Decoding(ReadBody(d, Len(s)), w \o s, o \o s)
<1>1. ~AtStart(d, w, o)  BY DEF AtStart, DecOf
<1>2. ~InLine(d, w, o)  BY DEF InLine, DecOf
<1>3. ~InTail(d, w, o)  BY DEF InTail, DecOf, TailStates
<1>4. ~FailsJustly(d, w)  BY DEF FailsJustly, DecOf
<1>5. InData(d, w, o)  BY <1>1, <1>2, <1>3, <1>4, Zenon DEF Decoding
<1> QED  BY <1>5, SliceStep

\* A chunked body that was cut off while it was open.
CutOff(d, w) == Bounded(d, {"Err"}) /\ Parse[w].st = "open"

\* A body with a length.
SizedAt(d, w, o) ==
  \E s \in {"Length", "End", "Err"}, n \in 0 .. MaxSize :
    /\ d = DecOf(s, n, 0, 0, 0) /\ o = w
    /\ s # "Err" => Len(o) + n \in Lengths
    /\ s = "End" => n = 0

\* A close-delimited one.
ClosedAt(d) == \E s \in {"Eof", "End"} : d = DecOf(s, 0, 0, 0, 0)

\* Where the decoder is, for every kind of body.
DecoderInv ==
  /\ kind \in {"chunked", "length", "eof"}
  /\ wire \in Seq(Byte) /\ out \in Seq(Byte)
  /\ kind = "chunked" => Decoding(dec, wire, out) \/ (ended /\ CutOff(dec, wire))
  /\ kind = "length" => SizedAt(dec, wire, out)
  /\ kind = "eof" => ClosedAt(dec)
  /\ ended /\ kind # "eof" => dec.state = "Err"

\* It begins so.
LEMMA DecoderInvInit == BInit => DecoderInv
<1> SUFFICES ASSUME BInit PROVE DecoderInv  OBVIOUS
<1>1. PICK z, r : z = 0 /\ r = <<>>  OBVIOUS
<1>2. wire = r /\ out = r /\ ended = FALSE /\ r \in Seq(Byte) /\ Len(r) = 0  BY <1>1 DEF BInit
<1>3. CASE kind = "chunked" /\ dec = Dec("Start", 0)
  <2>1. dec = DecOf("Start", 0, z, 0, 0)  BY <1>1, <1>3 DEF Dec, DecOf
  <2>2. Fronting(r, r, z)  BY <1>1, FrontNothing, Zenon
  <2>3. z \in 0 .. (ExtLimit - 1)  BY <1>1, Limits
  <2>4. Decoding(dec, wire, out)  BY <1>2, <2>1, <2>2, <2>3, Zenon DEF Decoding, AtStart
  <2> QED  BY <1>2, <1>3, <2>4 DEF DecoderInv
<1>4. CASE kind = "eof" /\ dec = Dec("Eof", 0)
  <2>1. dec = DecOf("Eof", 0, 0, 0, 0)  BY <1>4 DEF Dec, DecOf
  <2>2. ClosedAt(dec)  BY <2>1 DEF ClosedAt
  <2> QED  BY <1>2, <1>4, <2>2 DEF DecoderInv
<1>5. ASSUME kind = "length", NEW n \in Lengths, dec = Dec(IF n = 0 THEN "End" ELSE "Length", n) PROVE DecoderInv
  <2>1. PICK s : s = IF n = 0 THEN "End" ELSE "Length"  OBVIOUS
  <2>2. s \in {"Length", "End", "Err"} /\ (s = "End" => n = 0)  BY <2>1
  <2>3. dec = DecOf(s, n, 0, 0, 0)  BY <1>5, <2>1 DEF Dec, DecOf
  <2>4. n \in 0 .. MaxSize  BY DecoderAssumption
  <2>5. Len(r) + n = n  BY <1>2, <2>4, Limits
  <2>6. out = wire /\ Len(out) + n \in Lengths  BY <1>2, <2>5
  <2>7. SizedAt(dec, wire, out)  BY <2>2, <2>3, <2>4, <2>6, Zenon DEF SizedAt
  <2> QED  BY <1>2, <1>5, <2>7 DEF DecoderInv
<1> QED  BY <1>3, <1>4, <1>5 DEF BInit

\* The states of the other kinds.
LEMMA OtherStates ==
  ASSUME DecoderInv
  PROVE  /\ kind = "length" => dec.state \in {"Length", "End", "Err"}
         /\ kind = "eof" => dec.state \in {"Eof", "End"}
         /\ kind = "chunked" => dec.state \in ChunkStates
<1>1. ASSUME kind = "length" PROVE dec.state \in {"Length", "End", "Err"}
  <2>1. SizedAt(dec, wire, out)  BY <1>1, Zenon DEF DecoderInv
  <2> QED  BY <2>1 DEF SizedAt, DecOf
<1>2. ASSUME kind = "eof" PROVE dec.state \in {"Eof", "End"}
  <2>1. ClosedAt(dec)  BY <1>2, Zenon DEF DecoderInv
  <2> QED  BY <2>1 DEF ClosedAt, DecOf
<1>3. ASSUME kind = "chunked" PROVE dec.state \in ChunkStates
  <2>1. Bounded(dec, ChunkStates) \/ Bounded(dec, {"Err"})
    <3>1. CASE Decoding(dec, wire, out)
      <4>1. Meant(dec, wire, out)  BY <3>1, PlacesMean
      <4> QED  BY <4>1, Zenon DEF Meant
    <3>2. CASE CutOff(dec, wire)  BY <3>2, Zenon DEF CutOff
    <3> QED  BY <1>3, <3>1, <3>2, Zenon DEF DecoderInv
  <2>2. "Err" \in ChunkStates  BY DEF ChunkStates
  <2>3. PICK S : S = ChunkStates  OBVIOUS
  <2>4. (Bounded(dec, S) \/ Bounded(dec, {"Err"})) /\ "Err" \in S  BY <2>1, <2>2, <2>3
  <2>5. dec.state \in S  BY <2>4 DEF Bounded, DecOf
  <2> QED  BY <2>3, <2>5
<1> QED  BY <1>1, <1>2, <1>3

\* Decoder::decode of a byte.
LEMMA DecodeByteKeeps ==
  ASSUME DecoderInv, NEW b \in Byte, NEW ok \in BOOLEAN, DecodeByte(b, ok)
  PROVE  DecoderInv'
<1>1. /\ ~ended /\ dec.state \in ByteStates /\ dec' = Decoded(dec, b, ok) /\ wire' = Append(wire, b)
      /\ UNCHANGED <<kind, out, ended>>
  BY Zenon DEF DecodeByte, Decoded
<1>2. kind = "chunked"
  <2>1. dec.state \notin {"Length", "End", "Err", "Eof"}  BY <1>1 DEF ByteStates
  <2>2. kind \in {"chunked", "length", "eof"}  BY Zenon DEF DecoderInv
  <2> QED  BY <2>1, <2>2, OtherStates
<1>3. Decoding(dec, wire, out) /\ wire \in Seq(Byte) /\ out \in Seq(Byte)  BY <1>1, <1>2, Zenon DEF DecoderInv
<1>4. Decoding(Decoded(dec, b, ok), Append(wire, b), out)  BY <1>1, <1>3, ByteKeeps
<1>5. Append(wire, b) \in Seq(Byte)  BY <1>3
<1>6. Decoding(dec', wire', out') /\ wire' \in Seq(Byte) /\ out' \in Seq(Byte) /\ kind' = "chunked" /\ ~ended'
  BY <1>1, <1>2, <1>3, <1>4, <1>5, Zenon
<1> QED  BY <1>6 DEF DecoderInv

\* ... of a slice of a chunk,
LEMMA DecodeBodyKeeps ==
  ASSUME DecoderInv, NEW s \in Seq(Byte), DecodeBody(s)
  PROVE  DecoderInv'
<1>1. /\ ~ended /\ dec.state = "Body" /\ Len(s) \in 1 .. dec.size /\ dec' = ReadBody(dec, Len(s))
      /\ wire' = wire \o s /\ out' = out \o s /\ UNCHANGED <<kind, ended>>
  BY Zenon DEF DecodeBody
<1>2. kind = "chunked"
  <2>1. kind \in {"chunked", "length", "eof"}  BY Zenon DEF DecoderInv
  <2> QED  BY <1>1, <2>1, OtherStates
<1>3. Decoding(dec, wire, out) /\ wire \in Seq(Byte) /\ out \in Seq(Byte)  BY <1>1, <1>2, Zenon DEF DecoderInv
<1>4. Decoding(ReadBody(dec, Len(s)), wire \o s, out \o s)  BY <1>1, <1>3, SliceKeeps
<1>5. wire \o s \in Seq(Byte) /\ out \o s \in Seq(Byte)  BY <1>3, BytesJoin, Zenon
<1>6. Decoding(dec', wire', out') /\ wire' \in Seq(Byte) /\ out' \in Seq(Byte) /\ kind' = "chunked" /\ ~ended'
  BY <1>1, <1>2, <1>4, <1>5, Zenon
<1> QED  BY <1>6 DEF DecoderInv

\* ... of a body with a length,
LEMMA DecodeLengthKeeps ==
  ASSUME DecoderInv, NEW s \in Seq(Byte), DecodeLength(s)
  PROVE  DecoderInv'
<1>1. /\ ~ended /\ dec.state = "Length" /\ Len(s) \in 1 .. dec.size /\ dec' = ReadLength(dec, Len(s))
      /\ wire' = wire \o s /\ out' = out \o s /\ UNCHANGED <<kind, ended>>
  BY Zenon DEF DecodeLength
<1>2. kind = "length"
  <2>1. kind \in {"chunked", "length", "eof"}  BY Zenon DEF DecoderInv
  <2>2. "Length" \notin ChunkStates  BY DEF ChunkStates, ByteStates
  <2> QED  BY <1>1, <2>1, <2>2, OtherStates
<1>3. SizedAt(dec, wire, out) /\ wire \in Seq(Byte) /\ out \in Seq(Byte)  BY <1>1, <1>2, Zenon DEF DecoderInv
<1>4. PICK t \in {"Length", "End", "Err"}, n \in 0 .. MaxSize :
        /\ dec = DecOf(t, n, 0, 0, 0) /\ out = wire /\ (t # "Err" => Len(out) + n \in Lengths)
  BY <1>3, Zenon DEF SizedAt
<1>5. t = "Length" /\ dec.size = n  BY <1>1, <1>4 DEF DecOf
<1>6. PICK a, i, S, q : a = Len(s) /\ i = n - Len(s) /\ S = (IF a < n THEN "Length" ELSE "End") /\ q = out \o s  OBVIOUS
<1>7. ReadLength(DecOf("Length", n, 0, 0, 0), a) = DecOf(S, i, 0, 0, 0)
  <2>1. DecOf("Length", n, 0, 0, 0).size = n  BY DEF DecOf
  <2>2. ReadLength(DecOf("Length", n, 0, 0, 0), a) = [DecOf("Length", n, 0, 0, 0) EXCEPT !.size = i, !.state = S]
    BY <1>6, <2>1 DEF ReadLength
  <2>3. (IF a = a THEN [DecOf("Length", n, 0, 0, 0) EXCEPT !.size = i, !.state = S] ELSE DecOf(S, i, 0, 0, 0)) = DecOf(S, i, 0, 0, 0)
    BY DEF DecOf
  <2> QED  BY <2>2, <2>3, Zenon
<1>8. a \in 1 .. n /\ n \in 0 .. MaxSize /\ MaxSize \in Nat  BY <1>1, <1>5, <1>6, Limits
<1>9. i \in 0 .. MaxSize /\ (S = "End" => i = 0) /\ S \in {"Length", "End", "Err"}
  <2>1. i = n - a  BY <1>6
  <2>2. i \in 0 .. MaxSize /\ (~(a < n) => i = 0)  BY <1>8, <2>1
  <2>3. (S = "End" => ~(a < n)) /\ S \in {"Length", "End", "Err"}  BY <1>6
  <2> QED  BY <2>2, <2>3
<1>10. Len(q) + i = Len(out) + n /\ q \in Seq(Byte) /\ wire \o s = q
  <2>1. PICK B : B = Byte  OBVIOUS
  <2>2. out \in Seq(B) /\ s \in Seq(B)  BY <1>3, <2>1
  <2>3. Len(q) = Len(out) + a /\ Len(out) \in Nat /\ a \in Nat  BY <1>6, <2>2
  <2>4. i = n - a  BY <1>6
  <2>5. Len(q) + i = Len(out) + n
    <3>1. PICK L, Q : L = Len(out) /\ Q = Len(q)  OBVIOUS
    <3>2. Q = L + a /\ L \in Nat  BY <2>3, <3>1
    <3>3. Q + i = L + n  BY <1>8, <2>4, <3>2
    <3> QED  BY <3>1, <3>3
  <2> QED  BY <1>3, <1>4, <1>6, <2>5, BytesJoin, Zenon
<1>11. dec' = DecOf(S, i, 0, 0, 0)  BY <1>1, <1>4, <1>5, <1>6, <1>7, Zenon
<1>12. Len(q) + i \in Lengths
  <2>1. t # "Err"  BY <1>5
  <2> QED  BY <1>4, <1>10, <2>1, Zenon
<1>13. SizedAt(dec', q, q)  BY <1>9, <1>11, <1>12, Zenon DEF SizedAt
<1>14. wire' = q /\ out' = q  BY <1>1, <1>6, <1>10, Zenon
<1>15. SizedAt(dec', wire', out') /\ wire' \in Seq(Byte) /\ out' \in Seq(Byte) /\ kind' = "length" /\ ~ended'
  BY <1>1, <1>2, <1>10, <1>13, <1>14, Zenon
<1> QED  BY <1>15 DEF DecoderInv

\* ... of a close-delimited body,
LEMMA DecodeEofKeeps ==
  ASSUME DecoderInv, NEW s \in Seq(Byte), DecodeEof(s)
  PROVE  DecoderInv'
<1>1. ~ended /\ dec.state = "Eof" /\ wire' = wire \o s /\ out' = out \o s /\ UNCHANGED <<kind, dec, ended>>
  BY Zenon DEF DecodeEof
<1>2. kind = "eof"
  <2>1. kind \in {"chunked", "length", "eof"}  BY Zenon DEF DecoderInv
  <2>2. "Eof" \notin ChunkStates  BY DEF ChunkStates, ByteStates
  <2> QED  BY <1>1, <2>1, <2>2, OtherStates
<1>3. ClosedAt(dec) /\ wire \in Seq(Byte) /\ out \in Seq(Byte)  BY <1>2, Zenon DEF DecoderInv
<1>4. wire \o s \in Seq(Byte) /\ out \o s \in Seq(Byte)  BY <1>3, BytesJoin, Zenon
<1>5. ClosedAt(dec') /\ wire' \in Seq(Byte) /\ out' \in Seq(Byte) /\ kind' = "eof"  BY <1>1, <1>2, <1>3, <1>4
<1> QED  BY <1>5 DEF DecoderInv

\* ... and of a socket that ends.
LEMMA SocketEndsKeeps ==
  ASSUME DecoderInv, SocketEnds
  PROVE  DecoderInv'
<1>1. /\ ~ended /\ dec.state \notin {"End", "Err"} /\ ended' = TRUE
      /\ dec' = Goto(dec, IF dec.state = "Eof" THEN "End" ELSE "Err") /\ UNCHANGED <<kind, wire, out>>
  BY Zenon DEF SocketEnds
<1>2. wire' \in Seq(Byte) /\ out' \in Seq(Byte) /\ kind' = kind /\ kind \in {"chunked", "length", "eof"}
  BY <1>1 DEF DecoderInv
<1>3. CASE kind = "chunked"
  <2>1. Decoding(dec, wire, out)  BY <1>1, <1>3, Zenon DEF DecoderInv
  <2>2. Meant(dec, wire, out)  BY <2>1, PlacesMean
  <2>3. Parse[wire].st = "open" /\ Bounded(dec, ChunkStates)  BY <1>1, <2>2, Zenon DEF Meant
  <2>4. PICK s \in ChunkStates, n \in 0 .. MaxSize, e \in 0 .. (ExtLimit - 1), x \in 0 .. (TrailerLimit - 1), c \in 0 .. MaxHeaders :
          dec = DecOf(s, n, e, x, c)
    BY <2>3, Zenon DEF Bounded
  <2>5. dec.state # "Eof"
    <3>1. "Eof" \notin ChunkStates  BY DEF ChunkStates, ByteStates
    <3> QED  BY <1>3, <3>1, OtherStates
  <2>6. dec' = Goto(dec, "Err")  BY <1>1, <2>5, Zenon
  <2>7. dec' = DecOf("Err", n, e, x, c)  BY <2>4, <2>6 DEF Goto, DecOf
  <2>8. PICK S : S = {"Err"}  OBVIOUS
  <2>9. "Err" \in S  BY <2>8
  <2>10. Bounded(dec', S)  BY <2>7, <2>9, Zenon DEF Bounded
  <2>11. CutOff(dec', wire')  BY <1>1, <2>3, <2>8, <2>10, Zenon DEF CutOff
  <2>12. dec'.state = "Err"  BY <2>7 DEF DecOf
  <2> QED  BY <1>1, <1>2, <1>3, <2>11, <2>12 DEF DecoderInv
<1>4. CASE kind = "length"
  <2>1. SizedAt(dec, wire, out)  BY <1>4, Zenon DEF DecoderInv
  <2>2. PICK s \in {"Length", "End", "Err"}, n \in 0 .. MaxSize : dec = DecOf(s, n, 0, 0, 0) /\ out = wire
    BY <2>1, Zenon DEF SizedAt
  <2>3. dec.state # "Eof"  BY <2>2 DEF DecOf
  <2>4. dec' = Goto(dec, "Err")  BY <1>1, <2>3, Zenon
  <2>5. dec' = DecOf("Err", n, 0, 0, 0)  BY <2>2, <2>4 DEF Goto, DecOf
  <2>6. PICK S : S = "Err"  OBVIOUS
  <2>7. S \in {"Length", "End", "Err"} /\ S # "End"  BY <2>6
  <2>8. SizedAt(dec', wire', out')  BY <1>1, <2>2, <2>5, <2>6, <2>7, Zenon DEF SizedAt
  <2>9. dec'.state = "Err"  BY <2>5 DEF DecOf
  <2> QED  BY <1>2, <1>4, <2>8, <2>9 DEF DecoderInv
<1>5. CASE kind = "eof"
  <2>1. ClosedAt(dec)  BY <1>5, Zenon DEF DecoderInv
  <2>2. dec.state = "Eof"  BY <1>1, <1>5, OtherStates
  <2>3. dec' = Goto(dec, "End")  BY <1>1, <2>2, Zenon
  <2>4. PICK s \in {"Eof", "End"} : dec = DecOf(s, 0, 0, 0, 0)  BY <2>1, Zenon DEF ClosedAt
  <2>5. dec' = DecOf("End", 0, 0, 0, 0)  BY <2>3, <2>4 DEF Goto, DecOf
  <2>6. ClosedAt(dec')  BY <2>5 DEF ClosedAt
  <2> QED  BY <1>2, <1>5, <2>6 DEF DecoderInv
<1> QED  BY <1>2, <1>3, <1>4, <1>5

\* It implies what the decoder promises.
LEMMA DecoderInvExact == DecoderInv => DecoderExact
<1> SUFFICES ASSUME DecoderInv PROVE DecoderExact  OBVIOUS
<1>0. kind \in {"chunked", "length", "eof"} /\ (ended /\ kind # "eof" => dec.state = "Err")  BY Zenon DEF DecoderInv
<1>1. CASE kind = "chunked" /\ Decoding(dec, wire, out)
  <2>1. Meant(dec, wire, out)  BY <1>1, PlacesMean
  <2>2. BTypeOK
    <3>1. PICK s \in ChunkStates, n \in 0 .. MaxSize, e \in 0 .. (ExtLimit - 1), x \in 0 .. (TrailerLimit - 1), c \in 0 .. MaxHeaders :
            dec = DecOf(s, n, e, x, c)
      BY <2>1, Zenon DEF Meant, Bounded
    <3>2. dec.state = s /\ dec.size = n /\ dec.ext = e /\ dec.tlen = x /\ dec.tcount = c  BY <3>1 DEF DecOf
    <3>3. s \in ByteStates \cup {"Body", "Length", "Eof", "End", "Err"}  BY DEF ChunkStates
    <3> QED  BY <3>2, <3>3, Zenon DEF BTypeOK
  <2>3. ChunkedEndIsExact  BY <2>1, Zenon DEF Meant, ChunkedEndIsExact
  <2>4. ChunkedLiveIsOpen  BY <2>1, Zenon DEF Meant, ChunkedLiveIsOpen
  <2>5. ChunkedErrorIsJust  BY <2>1, Zenon DEF Meant, ChunkedErrorIsJust, Just
  <2>6. CutIsError
    <3>1. kind # "length"  BY <1>1
    <3> QED  BY <1>0, <3>1, Zenon DEF CutIsError
  <2> QED  BY <2>2, <2>3, <2>4, <2>5, <2>6, Zenon DEF DecoderExact
<1>2. CASE kind = "chunked" /\ ended /\ CutOff(dec, wire)
  <2>1. Bounded(dec, {"Err"}) /\ Parse[wire].st = "open"  BY <1>2, Zenon DEF CutOff
  <2>2. PICK s \in {"Err"}, n \in 0 .. MaxSize, e \in 0 .. (ExtLimit - 1), x \in 0 .. (TrailerLimit - 1), c \in 0 .. MaxHeaders :
            dec = DecOf(s, n, e, x, c)
    BY <2>1, Zenon DEF Bounded
  <2>3. dec.state = "Err" /\ dec.size = n /\ dec.ext = e /\ dec.tlen = x /\ dec.tcount = c  BY <2>2 DEF DecOf
  <2>4. "Err" \in ByteStates \cup {"Body", "Length", "Eof", "End", "Err"}  OBVIOUS
  <2>5. BTypeOK  BY <2>3, <2>4, Zenon DEF BTypeOK
  <2>6. dec.state # "End" /\ dec.state \in {"End", "Err"} /\ kind # "length"  BY <1>2, <2>3
  <2>7. ChunkedEndIsExact /\ ChunkedLiveIsOpen  BY <2>6, Zenon DEF ChunkedEndIsExact, ChunkedLiveIsOpen
  <2>8. ChunkedErrorIsJust  BY <1>2, <2>1, Zenon DEF ChunkedErrorIsJust
  <2>9. CutIsError  BY <1>0, <2>6, Zenon DEF CutIsError
  <2> QED  BY <2>5, <2>7, <2>8, <2>9, Zenon DEF DecoderExact
<1>3. CASE kind = "length"
  <2>1. PICK s \in {"Length", "End", "Err"}, n \in 0 .. MaxSize :
          /\ dec = DecOf(s, n, 0, 0, 0) /\ out = wire
          /\ s # "Err" => Len(out) + n \in Lengths
          /\ s = "End" => n = 0
    BY <1>3, Zenon DEF DecoderInv, SizedAt
  <2>2. dec.state = s /\ dec.size = n /\ dec.ext = 0 /\ dec.tlen = 0 /\ dec.tcount = 0  BY <2>1 DEF DecOf
  <2>3. s \in ByteStates \cup {"Body", "Length", "Eof", "End", "Err"}  OBVIOUS
  <2>4. BTypeOK  BY <2>2, <2>3, Limits, Zenon DEF BTypeOK
  <2>5. kind # "chunked"  BY <1>3
  <2>6. ChunkedEndIsExact /\ ChunkedLiveIsOpen /\ ChunkedErrorIsJust
    BY <2>5, Zenon DEF ChunkedEndIsExact, ChunkedLiveIsOpen, ChunkedErrorIsJust
  <2>7. CutIsError  BY <1>0, <2>1, <2>2, Zenon DEF CutIsError
  <2> QED  BY <2>4, <2>6, <2>7, Zenon DEF DecoderExact
<1>4. CASE kind = "eof"
  <2>1. PICK s \in {"Eof", "End"} : dec = DecOf(s, 0, 0, 0, 0)  BY <1>4, Zenon DEF DecoderInv, ClosedAt
  <2>2. dec.state = s /\ dec.size = 0 /\ dec.ext = 0 /\ dec.tlen = 0 /\ dec.tcount = 0  BY <2>1 DEF DecOf
  <2>3. s \in ByteStates \cup {"Body", "Length", "Eof", "End", "Err"}  OBVIOUS
  <2>4. BTypeOK  BY <2>2, <2>3, Limits, Zenon DEF BTypeOK
  <2>5. kind # "chunked" /\ kind # "length"  BY <1>4
  <2>6. ChunkedEndIsExact /\ ChunkedLiveIsOpen /\ ChunkedErrorIsJust
    BY <2>5, Zenon DEF ChunkedEndIsExact, ChunkedLiveIsOpen, ChunkedErrorIsJust
  <2>7. CutIsError  BY <1>4, <2>5, Zenon DEF CutIsError
  <2> QED  BY <2>4, <2>6, <2>7, Zenon DEF DecoderExact
<1>5. kind = "chunked" => Decoding(dec, wire, out) \/ (ended /\ CutOff(dec, wire))  BY Zenon DEF DecoderInv
<1> QED  BY <1>0, <1>1, <1>2, <1>3, <1>4, <1>5

\* read_mem returns bytes.
LEMMA SlicesAreBytes ==
  ASSUME NEW n \in Nat, NEW A, A \subseteq Byte, wire \in Seq(Byte), NEW s \in Slices(n, A)
  PROVE  s \in Seq(Byte)
<1>1. PICK L : L = Len(wire)  OBVIOUS
<1>2. L \in Nat /\ MaxWire \in Nat  BY <1>1, DecoderAssumption
<1>3. PICK R : R = MaxWire - L  OBVIOUS
<1>4. Room = R  BY <1>1, <1>3 DEF Room
<1>5. PICK i \in 1 .. (IF n < Room THEN n ELSE Room) : s \in [1 .. i -> A]  BY DEF Slices
<1>6. i \in Nat
  <2>1. CASE n < Room  BY <1>5, <2>1
  <2>2. CASE ~(n < Room)
    <3>1. i \in 1 .. R  BY <1>4, <1>5, <2>2
    <3> QED  BY <1>2, <1>3, <3>1
  <2> QED  BY <2>1, <2>2
<1>7. PICK B : B = Byte  OBVIOUS
<1>8. s \in [1 .. i -> B]  BY <1>5, <1>7
<1>9. s \in Seq(B)  BY <1>6, <1>8
<1> QED  BY <1>7, <1>9

\* Any peer.
LEMMA BNextKeeps ==
  ASSUME DecoderInv, BNext
  PROVE  DecoderInv'
<1>0. wire \in Seq(Byte)  BY Zenon DEF DecoderInv
<1>1. dec.size \in Nat
  <2>1. BTypeOK  BY DecoderInvExact, Zenon DEF DecoderExact
  <2>2. dec.size \in 0 .. MaxSize  BY <2>1, Zenon DEF BTypeOK
  <2> QED  BY <2>2, Limits
<1>2. Alphabet \subseteq Byte /\ {Other} \subseteq Byte /\ 1 \in Nat
  <2>1. Other \in Byte  BY DecoderAssumption DEF Byte, Other
  <2> QED  BY <2>1, DecoderAssumption
<1>3. ASSUME NEW b \in Delivered, NEW ok \in BOOLEAN, DecodeByte(b, ok) PROVE DecoderInv'
  <2>1. b \in Byte  BY <1>2 DEF Delivered
  <2> QED  BY <1>3, <2>1, DecodeByteKeeps
<1>4. ASSUME NEW s \in Slices(dec.size, Alphabet), DecodeBody(s) PROVE DecoderInv'
  <2>1. s \in Seq(Byte)  BY <1>0, <1>1, <1>2, SlicesAreBytes
  <2> QED  BY <1>4, <2>1, DecodeBodyKeeps
<1>5. ASSUME NEW s \in Slices(dec.size, {Other}), DecodeLength(s) PROVE DecoderInv'
  <2>1. PICK A : A = {Other}  OBVIOUS
  <2>2. s \in Slices(dec.size, A) /\ A \subseteq Byte  BY <1>2, <2>1
  <2>3. s \in Seq(Byte)  BY <1>0, <1>1, <2>2, SlicesAreBytes
  <2> QED  BY <1>5, <2>3, DecodeLengthKeeps
<1>6. ASSUME NEW s \in Slices(1, {Other}), DecodeEof(s) PROVE DecoderInv'
  <2>1. PICK A, u : A = {Other} /\ u = 1  OBVIOUS
  <2>2. s \in Slices(u, A) /\ A \subseteq Byte /\ u \in Nat  BY <1>2, <2>1
  <2>3. s \in Seq(Byte)  BY <1>0, <2>2, SlicesAreBytes
  <2> QED  BY <1>6, <2>3, DecodeEofKeeps
<1>7. CASE SocketEnds  BY <1>7, SocketEndsKeeps
<1> QED  BY <1>3, <1>4, <1>5, <1>6, <1>7, Zenon DEF BNext

\* The encoder writes bytes.
LEMMA PipeBytes == CodecInv => pipe \in Seq(Byte)
<1> SUFFICES ASSUME CodecInv PROVE pipe \in Seq(Byte)  OBVIOUS
<1>1. CASE Foreign
  <2>1. pipe = <<>>  BY <1>1, Zenon DEF CodecInv
  <2> QED  BY <2>1
<1>2. CASE LengthFlows  BY <1>2, Zenon DEF LengthFlows
<1>3. CASE ChunkedFlows
  <2>1. MessageTail \in Seq(Byte) /\ RoomFor(Cardinality(fields))  BY TailType, Zenon
  <2>2. CASE Flow(dec, pipe, out, sent, MessageTail)  BY <2>1, <2>2, FlowBytes, Zenon
  <2>3. CASE AtEnd(dec, pipe, Cardinality(fields))  BY <2>1, <2>3, AtEndFacts, Zenon
  <2> QED  BY <1>3, <2>2, <2>3, Zenon DEF ChunkedFlows
<1> QED  BY <1>1, <1>2, <1>3, Zenon DEF CodecInv

\* What the peer reads of it.
LEMMA ReceiveDecodes ==
  ASSUME DecoderInv, CodecInv, Receive
  PROVE  DecoderInv'
<1>1. PICK B : B = Byte  OBVIOUS
<1>2. pipe \in Seq(B) /\ pipe # <<>>  BY <1>1, PipeBytes DEF Receive
<1>3. pipe[1] \in B /\ \A n \in 1 .. Len(pipe) : SubSeq(pipe, 1, n) \in Seq(B)  BY <1>2
<1>4. pipe[1] \in Byte /\ \A n \in 1 .. Len(pipe) : SubSeq(pipe, 1, n) \in Seq(Byte)  BY <1>1, <1>3
<1>5. CASE DecodeByte(pipe[1], TRUE)  BY <1>4, <1>5, DecodeByteKeeps
<1>6. ASSUME NEW n \in 1 .. Len(pipe), DecodeBody(SubSeq(pipe, 1, n)) \/ DecodeLength(SubSeq(pipe, 1, n)) PROVE DecoderInv'
  <2>1. PICK s : s = SubSeq(pipe, 1, n)  OBVIOUS
  <2>2. s \in Seq(Byte) /\ (DecodeBody(s) \/ DecodeLength(s))  BY <1>4, <1>6, <2>1, Zenon
  <2> QED  BY <2>2, DecodeBodyKeeps, DecodeLengthKeeps
<1> QED  BY <1>5, <1>6, Zenon DEF Receive

\* A step that reads nothing.
LEMMA DecoderRests ==
  ASSUME DecoderInv, UNCHANGED bvars
  PROVE  DecoderInv'
<1>1. UNCHANGED <<kind, dec, wire, out, ended>>  BY DEF bvars
<1> QED  BY <1>1 DEF DecoderInv

\* Every step keeps the invariant.
LEMMA DecoderInvNext == DecoderInv /\ CodecInv /\ [CNext]_cvars => DecoderInv'
<1> SUFFICES ASSUME DecoderInv, CodecInv, [CNext]_cvars PROVE DecoderInv'  OBVIOUS
<1>1. ASSUME NEW m \in Frames, Encode(m) \/ EncodeAndEnd(m) PROVE DecoderInv'
  <2>1. UNCHANGED bvars  BY <1>1 DEF Encode, EncodeAndEnd, Unread
  <2> QED  BY <2>1, DecoderRests
<1>2. CASE End
  <2>1. UNCHANGED bvars  BY <1>2 DEF End, Unread
  <2> QED  BY <2>1, DecoderRests
<1>3. ASSUME NEW ts \in SUBSET FieldNames, EncodeTrailers(ts) PROVE DecoderInv'
  <2>1. UNCHANGED bvars  BY <1>3 DEF EncodeTrailers
  <2> QED  BY <2>1, DecoderRests
<1>4. CASE Receive  BY <1>4, ReceiveDecodes
<1>5. CASE Hangup  BY <1>5, SocketEndsKeeps DEF Hangup
<1>6. CASE Anything  BY <1>6, BNextKeeps DEF Anything
<1>7. CASE UNCHANGED cvars
  <2>1. UNCHANGED bvars  BY <1>7 DEF cvars
  <2> QED  BY <2>1, DecoderRests
<1> QED  BY <1>1, <1>2, <1>3, <1>4, <1>5, <1>6, <1>7, Zenon DEF CNext

\* Code: Decoder::decode, ChunkedState::step, decode_trailers.  For every
\* radix, width of sizes and limit, every byte that a peer may send, every cut
\* of the wire and every moment the socket may end: the decoder ends where the
\* grammar's body ends and delivers the grammar's data, goes on only while the
\* wire is the beginning of a body within the limits, and fails only on what
\* is not one, is over a limit, was cut off or has a size that does not fit.
THEOREM DecodersExact == CSpec => []DecoderExact
<1>1. CInit => DecoderInv  BY DecoderInvInit DEF CInit
<1>2. DecoderInv /\ CodecInv /\ [CNext]_cvars => DecoderInv'  BY DecoderInvNext
<1>3. DecoderInv => DecoderExact  BY DecoderInvExact
<1> QED  BY <1>1, <1>2, <1>3, CodecInvariance, PTL DEF CSpec
=============================================================================
