---------------------------- MODULE BufferedRead ----------------------------
(***************************************************************************)
(* The read half of proto/http1/io.rs (Buffered): the buffer, its adaptive *)
(* read size, the loop that finds the head of a response in what has       *)
(* arrived so far (parse, parse_headers, is_complete_fast and the loop of  *)
(* Client::parse over 1xx heads), and read_mem, which serves the body.     *)
(*                                                                         *)
(* A head is its status line ("i" informational, "f" final, "g" not HTTP), *)
(* other bytes and an empty line; httparse (external) finds its end.       *)
(***************************************************************************)
EXTENDS Naturals, Sequences, FiniteSetsExt

CONSTANTS
  InitSize,      \* INIT_BUFFER_SIZE, the floor of max_buf_size too
  Maxes,         \* values given to set_max_buf_size
  Exacts,        \* values given to set_read_buf_exact_size
  Slack,         \* bound: bytes of capacity beyond the size asked for
  Heads,         \* what is between the status and the end of a head
  Terminators,   \* how a head ends
  Infos,         \* bound: informational heads before the final one
  Bodies,        \* what follows the final head
  MemLens,       \* lengths asked of read_mem
  H09            \* h09_responses

ASSUME ReadAssumption ==
  /\ InitSize \in Nat /\ InitSize >= 4
  /\ Maxes \subseteq {m \in Nat : m >= InitSize} /\ Exacts \subseteq Nat \ {0}
  /\ Slack \in Nat /\ Infos \in Nat /\ MemLens \subseteq Nat \ {0} /\ H09 \in BOOLEAN

VARIABLES
  wire,     \* bytes the socket has still to give
  buf,      \* read_buf
  partial,  \* partial_len, which is never Some(0), or None
  strat,    \* read_buf_strategy
  pc,       \* where parse is, or how it ended
  head,     \* bytes taken as heads
  called,   \* calls of on_informational
  out,      \* bytes read_mem returned
  stream    \* ghost: the response as it is: infos, head, body

rvars == <<wire, buf, partial, strat, pc, head, called, out, stream>>

None == 0
Cr == "cr"
Lf == "lf"

\* What is told apart of the bytes: those that begin a status line, line ends.
Token == {"i", "f", "g", "x", Cr, Lf}

HeadsOf(k) == {<<k>> \o h \o t : h \in Heads, t \in Terminators}

\* Several informational heads, as one sequence.
OneHeadMore(X) == {i \o h : i \in X, h \in HeadsOf("i")}
InfosOf[n \in 0 .. Infos] == IF n = 0 THEN {<<>>} ELSE OneHeadMore(InfosOf[n - 1])

Streams ==
  {[count |-> n, infos |-> i, head |-> m[1], body |-> m[2]] :
     n \in 0 .. Infos, i \in UNION {InfosOf[k] : k \in 0 .. Infos},
     m \in (HeadsOf("f") \X Bodies) \cup {<<<<>>, <<"g">> \o b>> : b \in Bodies}}

\* Buffered::new, then set_max_buf_size or set_read_buf_exact_size.
Strategies ==
  {[exact |-> FALSE, next |-> InitSize, max |-> m, decrease |-> FALSE] : m \in Maxes}
    \cup {[exact |-> TRUE, next |-> m, max |-> m, decrease |-> FALSE] : m \in Exacts}

RInit ==
  /\ stream \in Streams /\ stream.infos \in InfosOf[stream.count]
  /\ wire = stream.infos \o stream.head \o stream.body
  /\ buf = <<>> /\ partial = None /\ strat \in Strategies
  /\ pc = "parse" /\ head = <<>> /\ called = 0 /\ out = <<>>

-----------------------------------------------------------------------------
(* ReadStrategy.                                                           *)

\* prev_power_of_two: the largest power of two that is at most half of n.
PrevPowerOfTwo(n) ==
  LET prev[m \in 0 .. n] == IF m < 4 THEN 1 ELSE 2 * prev[m \div 2]
  IN  prev[n]

AtMost(m, n) == IF n < m THEN n ELSE m
AtLeast(m, n) == IF n > m THEN n ELSE m

Record(n) ==
  LET down == PrevPowerOfTwo(strat.next)
  IN  IF strat.exact THEN strat
      ELSE IF n >= strat.next
      THEN [strat EXCEPT !.next = AtMost(strat.max, 2 * @), !.decrease = FALSE]
      ELSE IF n < down /\ strat.decrease
      THEN [strat EXCEPT !.next = AtLeast(InitSize, down), !.decrease = FALSE]
      ELSE [strat EXCEPT !.decrease = n < down]

\* poll_read_from_io: some of what has arrived, at least 1 byte, at most the
\* spare capacity, which is the strategy's next or more.
ReadFromIo(n) ==
  /\ n \in 1 .. AtMost(Len(wire), strat.next + Slack)
  /\ strat' = Record(n)
  /\ wire' = SubSeq(wire, n + 1, Len(wire))

Chunk(n) == SubSeq(wire, 1, n)

-----------------------------------------------------------------------------
(* Finding the head.                                                       *)

\* httparse: where the head that starts the buffer ends, 0 if it is partial.
HeadEnd(s) ==
  LET E == {e \in 3 .. Len(s) : s[e] = Lf /\ (s[e - 1] = Lf \/ (s[e - 1] = Cr /\ s[e - 2] = Lf))}
  IN  IF E = {} THEN 0 ELSE Min(E)

\* Heads are what httparse takes for heads, less those that end in LF CR LF:
\* an empty line that is CR LF follows a line that ends in CR LF.
ASSUME HeadAssumption ==
  /\ Heads \cup Terminators \cup Bodies \subseteq Seq(Token)
  /\ \A h \in HeadsOf("i") \cup HeadsOf("f") :
       HeadEnd(h) = Len(h) /\ (h[Len(h) - 1] = Cr => h[Len(h) - 3] = Cr)

\* The pattern that starts at position i: a whole CR LF CR LF, or LF LF.
EndsAt(s, i) ==
  \/ s[i] = Cr /\ SubSeq(s, i + 1, AtMost(Len(s), i + 3)) = <<Lf, Cr, Lf>>
  \/ s[i] = Lf /\ i < Len(s) /\ s[i + 1] = Lf

\* Mutant of IsCompleteFast: it restarts one byte too late.
IsCompleteFastLate(s, prev) ==
  \E i \in (IF prev < 2 THEN 1 ELSE prev - 1) .. Len(s) : EndsAt(s, i)

\* is_complete_fast: starts three bytes before the previous end.
IsCompleteFast(s, prev) ==
  \E i \in (IF prev < 3 THEN 1 ELSE prev - 2) .. Len(s) : EndsAt(s, i)

\* The None branch of Buffered::parse.
NoHead(b) ==
  /\ pc' = IF Len(b) >= strat.max THEN "toolarge" ELSE "read"
  /\ partial' = IF pc' = "toolarge" THEN partial ELSE IF b = <<>> THEN None ELSE Len(b)

\* parse_headers: nothing to parse, or not worth it.
ParseSkips ==
  /\ pc = "parse"
  /\ buf = <<>> \/ (partial # None /\ ~IsCompleteFast(buf, partial))
  /\ NoHead(buf)
  /\ UNCHANGED <<wire, buf, strat, head, called, out, stream>>

ParseEnters ==
  /\ pc = "parse" /\ buf # <<>>
  /\ partial = None \/ IsCompleteFast(buf, partial)
  /\ pc' = "http"
  /\ UNCHANGED <<wire, buf, partial, strat, head, called, out, stream>>

\* Client::parse: Status::Partial.
ParsePartial ==
  /\ pc = "http" /\ buf[1] # "g" /\ HeadEnd(buf) = 0
  /\ NoHead(buf)
  /\ UNCHANGED <<wire, buf, strat, head, called, out, stream>>

Split(n) ==
  /\ head' = head \o SubSeq(buf, 1, n)
  /\ buf' = SubSeq(buf, n + 1, Len(buf))

\* A 1xx head: on_informational is called and the loop goes on.
ParseInformational ==
  /\ pc = "http" /\ buf[1] = "i" /\ HeadEnd(buf) # 0
  /\ Split(HeadEnd(buf)) /\ called' = called + 1
  /\ IF buf' = <<>> THEN NoHead(buf') ELSE UNCHANGED <<pc, partial>>
  /\ UNCHANGED <<wire, strat, out, stream>>

\* The final head; not HTTP is an HTTP/0.9 response, which has no head, or
\* an error.
ParseFinal ==
  /\ pc = "http"
  /\ \/ buf[1] = "f" /\ HeadEnd(buf) # 0 /\ Split(HeadEnd(buf)) /\ pc' = "body" /\ partial' = None
     \/ buf[1] = "g" /\ H09 /\ Split(0) /\ pc' = "body" /\ partial' = None
     \/ buf[1] = "g" /\ ~H09 /\ pc' = "error" /\ UNCHANGED <<head, buf, partial>>
  /\ UNCHANGED <<wire, strat, called, out, stream>>

\* More of the head arrives, or the socket ends or fails.
ReadMore(n) ==
  /\ pc = "read"
  /\ ReadFromIo(n)
  /\ buf' = buf \o Chunk(n) /\ pc' = "parse"
  /\ UNCHANGED <<partial, head, called, out, stream>>

ReadEnds ==
  /\ pc = "read"
  /\ \/ pc' = "incomplete" /\ strat' = Record(0)
     \/ pc' = "error" /\ UNCHANGED strat
  /\ UNCHANGED <<wire, buf, partial, head, called, out, stream>>

-----------------------------------------------------------------------------
(* read_mem.                                                               *)

MemFromBuf(len) ==
  /\ pc = "body" /\ buf # <<>>
  /\ LET n == AtMost(Len(buf), len)
     IN  out' = out \o SubSeq(buf, 1, n) /\ buf' = SubSeq(buf, n + 1, Len(buf))
  /\ UNCHANGED <<wire, partial, strat, pc, head, called, stream>>

MemFromIo(len, n) ==
  /\ pc = "body" /\ buf = <<>>
  /\ ReadFromIo(n)
  /\ out' = out \o SubSeq(wire, 1, AtMost(n, len)) /\ buf' = SubSeq(wire, len + 1, n)
  /\ UNCHANGED <<partial, pc, head, called, stream>>

RNext ==
  \/ ParseSkips \/ ParseEnters \/ ParsePartial \/ ParseInformational \/ ParseFinal
  \/ ReadEnds \/ \E n \in 1 .. Len(wire) : ReadMore(n)
  \/ \E len \in MemLens : MemFromBuf(len) \/ \E n \in 1 .. Len(wire) : MemFromIo(len, n)

RSpec == RInit /\ [][RNext]_rvars

-----------------------------------------------------------------------------
(* Properties.                                                             *)

\* Code: ReadStrategy.  The size of the next read stays between the initial
\* size and the limit over any sequence of reads, and never gets where
\* prev_power_of_two underflows (its debug_assert); a partial length is one
\* of bytes that are still in the buffer.
RTypeOK ==
  /\ strat.exact \/ strat.next \in InitSize .. strat.max
  /\ strat.exact \/ strat.next >= 4
  /\ pc \in {"parse", "http", "read", "body", "toolarge", "incomplete", "error"}
  /\ pc \in {"parse", "read"} => partial <= Len(buf)

\* Code: is_complete_fast, Buffered::parse.  The connection waits for more
\* bytes, or gives up, only when no complete head is in its buffer, wherever
\* the wire cut it and whatever 1xx heads came before.
HeadFound == pc \in {"read", "toolarge", "incomplete"} => HeadEnd(buf) = 0

\* Code: the loop of Client::parse.  The head that is returned is preceded
\* by all the informational heads, each one reported; what follows it is
\* left to the body.
HeadExact ==
  pc = "body" => head = stream.infos \o stream.head /\ called = stream.count

\* Code: split_to, read_mem.  Every byte is used once and in order.
BytesKept ==
  head \o out \o buf \o wire = stream.infos \o stream.head \o stream.body

\* Code: Buffered::parse, Client::parse, read_mem, ReadStrategy.  Whatever
\* pieces the socket delivers, heads are found as soon as they are there and
\* every byte goes to the head or the body it belongs to, with reads of a
\* bounded size.
ReadExact == RTypeOK /\ HeadFound /\ HeadExact /\ BytesKept
=============================================================================
