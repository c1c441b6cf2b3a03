--------------------------- MODULE ChunkedGrammar ---------------------------
(***************************************************************************)
(* The chunked transfer coding as a grammar over whole lines (RFC 9112,    *)
(* section 7.1), without widths: the reference that the decoder's byte     *)
(* machine and the encoder are compared with.  A byte is a number: the     *)
(* digits of the radix, then the bytes the coding tells apart.             *)
(***************************************************************************)
EXTENDS Naturals, Sequences, FiniteSetsExt

CONSTANT Radix     \* 16 in the code

Digit == 0 .. (Radix - 1)
Ws    == Radix         \* space or tab
Semi  == Radix + 1
Cr    == Radix + 2
Lf    == Radix + 3
Other == Radix + 4
Byte  == 0 .. Other

\* The number that a sequence of digits denotes.
Value(ds) ==
  LET value[i \in 0 .. Len(ds)] == IF i = 0 THEN 0 ELSE value[i - 1] * Radix + ds[i]
  IN  value[Len(ds)]

\* A chunk line is digits, white space and perhaps an extension; a line of
\* which more may come has the parts [size, ws, ext] with these last indices.
LineParts(l) ==
  {p \in (1 .. Len(l)) \X (1 .. Len(l)) :
     /\ p[1] <= p[2]
     /\ \A i \in 1 .. p[1] : l[i] \in Digit
     /\ \A i \in (p[1] + 1) .. p[2] : l[i] = Ws
     /\ p[2] < Len(l) => l[p[2] + 1] = Semi /\ \A i \in (p[2] + 2) .. Len(l) : l[i] # Lf}

LineOk(l) == l = <<>> \/ LineParts(l) # {}
SizeOf(l) == Value(SubSeq(l, 1, Max({p[1] : p \in LineParts(l)})))
\* Bytes of an extension behind its semicolon.
ExtOf(l) == Cardinality({i \in DOMAIN l : \E j \in 1 .. (i - 1) : l[j] = Semi})

FirstCr(w) == LET S == {j \in 1 .. Len(w) : w[j] = Cr} IN IF S = {} THEN 0 ELSE Min(S)

\* What is behind the last chunk: fields, each a line, and an empty line.
LineStart(t, i) == i = 1 \/ (i > 2 /\ t[i - 2] = Cr /\ t[i - 1] = Lf)
EmptyLine(t) == {i \in DOMAIN t : t[i] = Cr /\ LineStart(t, i)}
Fields(t) == Cardinality({i \in DOMAIN t : t[i] = Lf /\ i > 1 /\ t[i - 1] = Cr /\ i - 1 \notin EmptyLine(t)})
TailIs(t) ==
  IF \E i \in 1 .. (Len(t) - 1) : t[i] = Cr /\ t[i + 1] # Lf THEN "bad"
  ELSE IF \E i \in EmptyLine(t) : i + 1 = Len(t) THEN "done" ELSE "open"

Verdict(st, data, ext, tail) == [st |-> st, data |-> data, ext |-> ext, tail |-> tail]

\* What is behind a chunk line and its CR LF: data and another CR LF, so that
\* the line begins a whole "chunk" with something behind it, or the end.
Behind(line, s) ==
  LET n == SizeOf(line)
      data == SubSeq(s, 1, IF n < Len(s) THEN n ELSE Len(s))
  IN  IF n = 0 THEN Verdict(TailIs(s), <<>>, ExtOf(line), s)
      ELSE IF \/ n + 1 <= Len(s) /\ s[n + 1] # Cr
              \/ n + 2 <= Len(s) /\ s[n + 2] # Lf
      THEN Verdict("bad", data, ExtOf(line), <<>>)
      ELSE IF Len(s) < n + 2 THEN Verdict("open", data, ExtOf(line), <<>>)
      ELSE Verdict("chunk", data, ExtOf(line), SubSeq(s, n + 3, Len(s)))

FirstChunk(w) ==
  LET j == FirstCr(w)
      line == SubSeq(w, 1, IF j = 0 THEN Len(w) ELSE j - 1)
  IN  IF \/ ~LineOk(line)
         \/ j # 0 /\ (line = <<>> \/ (j < Len(w) /\ w[j + 1] # Lf))
      THEN Verdict("bad", <<>>, ExtOf(line), <<>>)
      ELSE IF j = 0 \/ j = Len(w) THEN Verdict("open", <<>>, ExtOf(line), <<>>)
      ELSE Behind(line, SubSeq(w, j + 2, Len(w)))

\* A whole chunk in front of what r says of the rest.
InFront(c, r) == Verdict(r.st, c.data \o r.data, c.ext + r.ext, r.tail)

\* Whether w is a body, the beginning of one ("open") or neither.
Parse[w \in Seq(Byte)] ==
  LET c == FirstChunk(w)
  IN  IF c.st # "chunk" THEN c ELSE InFront(c, Parse[c.tail])
=============================================================================
