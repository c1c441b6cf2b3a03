----------------------------- MODULE BodyDecoder -----------------------------
(***************************************************************************)
(* proto/http1/decode.rs: the decoder of one response body, byte by byte   *)
(* where the code reads bytes and slice by slice where it reads slices,    *)
(* from a socket that may deliver any bytes, cut anywhere, and end at any  *)
(* moment.  Chunk sizes have the width of the code's u64 (MaxSize).        *)
(***************************************************************************)
EXTENDS ChunkedGrammar

CONSTANTS
  MaxSize,        \* u64::MAX
  ExtLimit,       \* CHUNKED_EXTENSIONS_LIMIT
  TrailerLimit,   \* h1_max_header_size or TRAILER_LIMIT
  MaxHeaders,     \* h1_max_headers or DEFAULT_MAX_HEADERS
  Lengths,        \* Content-Lengths of Length bodies
  Alphabet,       \* the bytes the socket delivers
  MaxWire         \* bound: bytes on the wire

ASSUME DecoderAssumption ==
  /\ Radix \in Nat \ {0, 1} /\ MaxSize \in Nat \ {0}
  /\ ExtLimit \in Nat \ {0} /\ TrailerLimit \in Nat \ {0, 1} /\ MaxHeaders \in Nat
  /\ Lengths \subseteq 0 .. MaxSize /\ Alphabet \subseteq Byte /\ MaxWire \in Nat

VARIABLES
  kind,   \* "chunked", "length" or "eof" (close-delimited)
  dec,    \* Decoder
  wire,   \* what was read
  out,    \* the data frames
  ended   \* the socket ended

bvars == <<kind, dec, wire, out, ended>>

Dec(state, size) == [state |-> state, size |-> size, ext |-> 0, tlen |-> 0, tcount |-> 0]

\* Decoder::new.
BInit ==
  /\ \/ kind = "chunked" /\ dec = Dec("Start", 0)
     \/ kind = "eof" /\ dec = Dec("Eof", 0)
     \/ kind = "length" /\ \E n \in Lengths : dec = Dec(IF n = 0 THEN "End" ELSE "Length", n)
  /\ wire = <<>> /\ out = <<>> /\ ended = FALSE

-----------------------------------------------------------------------------
(* ChunkedState: one operator per state, d is the decoder and b the byte.  *)

Fail(d) == [d EXCEPT !.state = "Err"]
Goto(d, s) == [d EXCEPT !.state = s]

\* Mutant of Push: the size wraps.
PushWraps(d, b) == [d EXCEPT !.size = (@ * Radix + b) % (MaxSize + 1), !.state = "Size"]

\* checked_mul, checked_add.
Push(d, b) ==
  IF d.size * Radix + b > MaxSize THEN Fail(d)
  ELSE [d EXCEPT !.size = @ * Radix + b, !.state = "Size"]

ReadStart(d, b) == IF b \in Digit THEN Push(d, b) ELSE Fail(d)

ReadSizeLws(d, b) ==
  CASE b = Ws -> Goto(d, "SizeLws")
    [] b = Semi -> Goto(d, "Extension")
    [] b = Cr -> Goto(d, "SizeLf")
    [] OTHER -> Fail(d)

ReadSize(d, b) == IF b \in Digit THEN Push(d, b) ELSE ReadSizeLws(d, b)

\* extensions_cnt is of the whole body.
ReadExtension(d, b) ==
  IF b = Cr THEN Goto(d, "SizeLf")
  ELSE IF b = Lf \/ d.ext + 1 >= ExtLimit THEN Fail(d)
  ELSE [d EXCEPT !.ext = @ + 1]

ReadSizeLf(d, b) == IF b # Lf THEN Fail(d) ELSE Goto(d, IF d.size = 0 THEN "EndCr" ELSE "Body")

ReadBodyCr(d, b) == IF b = Cr THEN Goto(d, "BodyLf") ELSE Fail(d)
ReadBodyLf(d, b) == IF b = Lf THEN Goto(d, "Start") ELSE Fail(d)

\* put_u8 into trailers_buf.
PutU8(d, s) ==
  IF d.tlen + 1 >= TrailerLimit THEN Fail(d) ELSE [d EXCEPT !.tlen = @ + 1, !.state = s]

ReadTrailer(d, b) == PutU8(d, IF b = Cr THEN "TrailerLf" ELSE "Trailer")

ReadTrailerLf(d, b) ==
  IF b # Lf \/ d.tcount >= MaxHeaders THEN Fail(d)
  ELSE PutU8([d EXCEPT !.tcount = @ + 1], "EndCr")

\* The first byte of trailers_buf is not checked against the limit.
ReadEndCr(d, b) ==
  LET s == IF b = Cr THEN "EndLf" ELSE "Trailer"
  IN  IF d.tlen > 0 THEN PutU8(d, s)
      ELSE [d EXCEPT !.state = s, !.tlen = IF b = Cr THEN 0 ELSE 1]

ReadEndLf(d, b) ==
  IF b # Lf THEN Fail(d) ELSE IF d.tlen > 0 THEN PutU8(d, "End") ELSE Goto(d, "End")

\* ChunkedState::step, of the states that read one byte.
Step(d, b) ==
  CASE d.state = "Start"     -> ReadStart(d, b)
    [] d.state = "Size"      -> ReadSize(d, b)
    [] d.state = "SizeLws"   -> ReadSizeLws(d, b)
    [] d.state = "Extension" -> ReadExtension(d, b)
    [] d.state = "SizeLf"    -> ReadSizeLf(d, b)
    [] d.state = "BodyCr"    -> ReadBodyCr(d, b)
    [] d.state = "BodyLf"    -> ReadBodyLf(d, b)
    [] d.state = "Trailer"   -> ReadTrailer(d, b)
    [] d.state = "TrailerLf" -> ReadTrailerLf(d, b)
    [] d.state = "EndCr"     -> ReadEndCr(d, b)
    [] d.state = "EndLf"     -> ReadEndLf(d, b)

ByteStates == {"Start", "Size", "SizeLws", "Extension", "SizeLf", "BodyCr", "BodyLf",
               "Trailer", "TrailerLf", "EndCr", "EndLf"}

\* ... and of the states that take a slice of n bytes.
ReadBody(d, n) == [d EXCEPT !.size = @ - n, !.state = IF n < d.size THEN "Body" ELSE "BodyCr"]
ReadLength(d, n) == [d EXCEPT !.size = @ - n, !.state = IF n < d.size THEN "Length" ELSE "End"]

\* The end of the trailers: their number, and whether httparse accepts them.
DecodeTrailers(d, ok) ==
  IF d.state = "End" /\ d.tlen > 0 /\ (d.tcount >= MaxHeaders \/ ~ok) THEN Fail(d) ELSE d

-----------------------------------------------------------------------------
(* Decoder::decode.                                                        *)

DecodeByte(b, ok) ==
  /\ ~ended /\ dec.state \in ByteStates
  /\ dec' = DecodeTrailers(Step(dec, b), ok)
  /\ wire' = Append(wire, b)
  /\ UNCHANGED <<kind, out, ended>>

DecodeBody(s) ==
  /\ ~ended /\ dec.state = "Body" /\ Len(s) \in 1 .. dec.size
  /\ dec' = ReadBody(dec, Len(s)) /\ wire' = wire \o s /\ out' = out \o s
  /\ UNCHANGED <<kind, ended>>

DecodeLength(s) ==
  /\ ~ended /\ dec.state = "Length" /\ Len(s) \in 1 .. dec.size
  /\ dec' = ReadLength(dec, Len(s)) /\ wire' = wire \o s /\ out' = out \o s
  /\ UNCHANGED <<kind, ended>>

DecodeEof(s) ==
  /\ ~ended /\ dec.state = "Eof" /\ Len(s) > 0
  /\ wire' = wire \o s /\ out' = out \o s
  /\ UNCHANGED <<kind, dec, ended>>

\* read_mem returns nothing: UnexpectedEof, unless close-delimited.
SocketEnds ==
  /\ ~ended /\ dec.state \notin {"End", "Err"}
  /\ ended' = TRUE
  /\ dec' = Goto(dec, IF dec.state = "Eof" THEN "End" ELSE "Err")
  /\ UNCHANGED <<kind, wire, out>>

\* read_mem: at least one and at most `size` bytes.  Sized and
\* close-delimited bodies do not look at them.
Room == MaxWire - Len(wire)
Slices(size, bytes) ==
  UNION {[1 .. n -> bytes] : n \in 1 .. (IF size < Room THEN size ELSE Room)}

\* The bytes worth delivering: in trailers only CR and LF are told from the others.
Delivered == IF dec.state \in {"Trailer", "EndCr"} THEN Alphabet \cap {Cr, Lf, Other} ELSE Alphabet

BNext ==
  \/ \E b \in Delivered, ok \in BOOLEAN : Room > 0 /\ DecodeByte(b, ok)
  \/ \E s \in Slices(dec.size, Alphabet) : DecodeBody(s)
  \/ \E s \in Slices(dec.size, {Other}) : DecodeLength(s)
  \/ \E s \in Slices(1, {Other}) : DecodeEof(s)
  \/ SocketEnds

BSpec == BInit /\ [][BNext]_bvars

-----------------------------------------------------------------------------
(* Properties.                                                             *)

\* The type invariant, with the bounds on what the decoder keeps: "Maximum
\* amount of bytes allowed in chunked extensions" and trailers; a peer
\* cannot make it buffer or count more.
BTypeOK ==
  /\ dec.state \in ByteStates \cup {"Body", "Length", "Eof", "End", "Err"}
  /\ dec.size \in 0 .. MaxSize
  /\ dec.ext \in 0 .. (ExtLimit - 1)
  /\ dec.tlen \in 0 .. (TrailerLimit - 1)
  /\ dec.tcount \in 0 .. MaxHeaders

\* The limits, on the grammar's terms.
Over(r) ==
  LET fields == r.tail # <<>> /\ r.tail[1] # Cr
  IN  \/ r.ext >= ExtLimit
      \/ fields /\ Len(r.tail) >= TrailerLimit
      \/ Fields(r.tail) > MaxHeaders
      \/ fields /\ r.st = "done" /\ Fields(r.tail) >= MaxHeaders

\* Code: ChunkedState.  Where the decoder ends, the body ends, and what it
\* delivered is the body: a size that overflows, an extension or a split
\* never makes it end early, run on, or deliver framing as data.
ChunkedEndIsExact ==
  kind = "chunked" /\ dec.state = "End" =>
    LET r == Parse[wire] IN r.st = "done" /\ ~Over(r) /\ out = r.data

\* While it goes on, the wire is the beginning of a body within the limits,
\* and all of its data was delivered.
ChunkedLiveIsOpen ==
  kind = "chunked" /\ dec.state \notin {"End", "Err"} =>
    LET r == Parse[wire] IN r.st = "open" /\ ~Over(r) /\ out = r.data

\* It fails only on what is not a body, is over a limit, or was cut off (or
\* has fields that httparse refuses), and sizes that do not fit in a u64.
ChunkedErrorIsJust ==
  kind = "chunked" /\ dec.state = "Err" =>
    LET r == Parse[wire]
    IN  \/ r.st = "bad" \/ Over(r) \/ (ended /\ r.st = "open")
        \/ r.st = "done" /\ Fields(r.tail) > 0
        \/ \E i, j \in DOMAIN wire :
             /\ i <= j /\ \A k \in i .. j : wire[k] \in Digit
             /\ Value(SubSeq(wire, i, j)) > MaxSize

\* Code: IncompleteBody.  A body that the socket cut off is an error, never
\* a clean end, unless it is close-delimited; a sized one has its length.
CutIsError ==
  /\ ended /\ kind # "eof" => dec.state = "Err"
  /\ kind = "length" => out = wire /\ (dec.state # "Err" => Len(out) + dec.size \in Lengths)
  /\ kind = "length" /\ dec.state = "End" => dec.size = 0

\* Code: Decoder::decode, ChunkedState::step.  The decoder accepts what the
\* grammar accepts within the limits, byte for byte and nothing else, for
\* every cut of the wire and every moment the socket may end.
DecoderExact ==
  BTypeOK /\ ChunkedEndIsExact /\ ChunkedLiveIsOpen /\ ChunkedErrorIsJust /\ CutIsError
=============================================================================
