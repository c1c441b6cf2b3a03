--------------------------- MODULE MessageFraming ---------------------------
(***************************************************************************)
(* How the two ends of an HTTP/1 connection come to agree on where a       *)
(* message ends and whether the connection goes on: proto/http1/role.rs    *)
(* (Client::set_length, Client::decoder, the Connection headers of         *)
(* Client::parse), proto/headers.rs, body/length.rs, and the parts of      *)
(* conn.rs that carry version, method and keep-alive from one message to   *)
(* the next.                                                               *)
(*                                                                         *)
(* A header is a line: a name and the values between its commas.  A value  *)
(* of Content-Length is its characters, digits or not; the values of other *)
(* fields are atoms.  A line that is not text has one atom.                *)
(***************************************************************************)
EXTENDS Naturals, Sequences, SequencesExt

CONSTANTS
  Word,          \* 2^64 of the code: lengths are less
  Base,         \* of a Content-Length (10)
  Names, Atoms,  \* names and values of the fields but Content-Length
  Methods,       \* methods of requests
  Versions,      \* versions of requests: 10, 11, 20
  ReqHeads,      \* header lines the user sets
  BodyLengths,   \* BodyLength::Known lengths
  Statuses,      \* statuses of responses
  RespHeads      \* header lines of responses

ASSUME FramingAssumption ==
  /\ Word \in Nat /\ Word > 4 /\ Base \in Nat \ {0, 1}
  /\ Versions \subseteq {10, 11, 20} /\ BodyLengths \subseteq 0 .. Word - 1

\* A header line has a value at least, as split(',') gives it.
HeaderLine ==
  [name : {"content-length"}, vals : Seq(Seq(Nat)) \ {<<>>}]
    \cup [name : Names, vals : Seq(Atoms) \ {<<>>}]

\* Client::parse skips the other informational responses.
ASSUME HeadsAssumption ==
  /\ {"transfer-encoding", "connection"} \subseteq Names /\ "content-length" \notin Names
  /\ {"chunked", "keep-alive", "close"} \subseteq Atoms
  /\ ReqHeads \cup RespHeads \subseteq Seq(HeaderLine)
  /\ Statuses \subseteq Nat /\ Statuses \cap (100 .. 199) \subseteq {101}

VARIABLES
  phase,    \* "idle", "sent", "read", "closed"
  version,  \* state.version: what the peer is known to speak
  keep,     \* state.keep_alive is not disabled
  method,   \* state.method, None when idle
  asked,    \* the request as it is on the wire, with its encoder
  resp,     \* ghost: the response head that was read
  decode,   \* its DecodedLength, or Err
  eof       \* the decoder of its body has read the end of the stream

fvars == <<phase, version, keep, method, asked, resp, decode, eof>>

None == "none"
NoResponse == [status |-> 0, version |-> 11, lines |-> <<>>]
Err == Word

FInit ==
  /\ phase = "idle" /\ version = 11 /\ keep = TRUE /\ method = None
  /\ asked = None /\ resp = NoResponse /\ decode = 0 /\ eof = FALSE

-----------------------------------------------------------------------------
(* HeaderMap and proto/headers.rs.                                         *)

\* A loop over a sequence: the accumulator behind each of its prefixes.
\* (FoldLeft and SelectSeq, in a form that can be reasoned about.)
Loop(Op(_, _), start, s) ==
  LET acc[i \in 0 .. Len(s)] == IF i = 0 THEN start ELSE Op(acc[i - 1], s[i])
  IN  acc[Len(s)]

Lines(hs, name) == Loop(LAMBDA ls, l : IF l.name = name THEN Append(ls, l) ELSE ls, <<>>, hs)
Without(hs, name) == Loop(LAMBDA ls, l : IF l.name # name THEN Append(ls, l) ELSE ls, <<>>, hs)
Has(hs, name) == Lines(hs, name) # <<>>
Values(hs, name) == UNION {Range(l.vals) : l \in Range(Lines(hs, name))}
Line(name, vals) == [name |-> name, vals |-> vals]
Insert(hs, l) == Append(Without(hs, l.name), l)

NaN == Word

\* from_digits: no sign, not empty, and no overflow.
FromDigits(s) ==
  IF s = <<>> \/ \E i \in 1 .. Len(s) : s[i] \notin 0 .. Base - 1 THEN NaN
  ELSE Loop(LAMBDA n, d : IF n = NaN \/ n * Base + d >= Word THEN NaN ELSE n * Base + d, 0, s)

\* content_length_parse_all: all values parse and are the same, or None.
ContentLength(hs) ==
  LET N == {FromDigits(v) : v \in Values(hs, "content-length")}
  IN  IF \E n \in N : N = {n} THEN CHOOSE n \in N : TRUE ELSE NaN

\* is_chunked: the last value of the last line.
IsChunked(hs) ==
  LET te == Lines(hs, "transfer-encoding")
  IN  te # <<>> /\ Last(Last(te).vals) = "chunked"

\* add_chunked: appended to the last line.
AddChunked(hs) ==
  LET te == Lines(hs, "transfer-encoding")
      last == Line("transfer-encoding", Append(Last(te).vals, "chunked"))
  IN  Without(hs, "transfer-encoding") \o Front(te) \o <<last>>

-----------------------------------------------------------------------------
(* Client::encode.                                                         *)

EncoderLength(n) == [kind |-> "length", len |-> n, trailers |-> {}]
EncoderChunked(hs) == [kind |-> "chunked", len |-> 0, trailers |-> Values(hs, "trailer")]

Framed(hs, e) == [lines |-> hs, enc |-> e]

\* A number as HeaderValue::from writes it.
Digits(n) ==
  LET digits[m \in 0 .. n] ==
        IF m < Base THEN <<m>> ELSE Append(digits[m \div Base], m % Base)
  IN  digits[n]

\* set_content_length.
SetContentLength(hs, n) ==
  Framed(Insert(hs, Line("content-length", <<Digits(n)>>)), EncoderLength(n))

\* set_length, no Transfer-Encoding: a valid Content-Length, a length that
\* is known, no body for methods that seldom have one, or chunked.
Vacant(req, hs, len) ==
  IF len # NaN THEN Framed(hs, EncoderLength(len))
  ELSE IF req.body.kind = "known" THEN SetContentLength(hs, req.body.len)
  ELSE IF req.method \in {"GET", "HEAD", "CONNECT"} THEN Framed(hs, EncoderLength(0))
  ELSE LET te == Append(hs, Line("transfer-encoding", <<"chunked">>))
       IN  Framed(te, EncoderChunked(te))

\* set_length for a peer that cannot read chunks.
NotChunkable(req, hs, len) ==
  IF len # NaN THEN Framed(hs, EncoderLength(len))
  ELSE IF req.body.kind = "known" THEN SetContentLength(hs, req.body.len)
  ELSE Framed(hs, EncoderLength(0))

\* set_length, Transfer-Encoding was set: chunked, added if need be, and a
\* Content-Length that parses goes.
Occupied(hs, len) ==
  LET te == IF IsChunked(hs) THEN hs ELSE AddChunked(hs)
  IN  Framed(IF len # NaN THEN Without(te, "content-length") ELSE te, EncoderChunked(te))

SetLength(req, v, hs) ==
  LET len == ContentLength(hs)
      bare == Without(hs, "transfer-encoding")
  IN  IF req.body.kind = "none" THEN Framed(bare, EncoderLength(0))
      ELSE IF v # 11 THEN NotChunkable(req, bare, len)
      ELSE IF Has(hs, "transfer-encoding") THEN Occupied(hs, len)
      ELSE Vacant(req, hs, len)

\* fix_keep_alive asks the first Connection line only.
SaysKeepAlive(hs) ==
  LET c == Lines(hs, "connection")
  IN  c # <<>> /\ "keep-alive" \in Range(c[1].vals)

\* Mutant of EnforceVersion: the request keeps its own version.
EnforceVersionNot(req) ==
  [lines |-> req.lines, version |-> req.version, keep |-> keep]

\* enforce_version and fix_keep_alive: header lines, version and keep-alive.
EnforceVersion(req) ==
  IF version = 10
  THEN [lines |-> IF ~SaysKeepAlive(req.lines) /\ req.version = 11 /\ keep
                  THEN Insert(req.lines, Line("connection", <<"keep-alive">>)) ELSE req.lines,
        version |-> 10,
        keep |-> keep /\ (SaysKeepAlive(req.lines) \/ req.version # 10)]
  ELSE [lines |-> IF version = 11 /\ ~keep
                  THEN Insert(req.lines, Line("connection", <<"close">>)) ELSE req.lines,
        version |-> req.version,
        keep |-> keep]

\* write_head, encode_head, Client::encode.  HTTP_2 is written as HTTP/1.1.
EncodeHead(req) ==
  LET e == EnforceVersion(req)
      f == SetLength(req, e.version, e.lines)
  IN  /\ phase = "idle"
      /\ phase' = "sent" /\ method' = req.method /\ keep' = e.keep
      /\ asked' = [method |-> req.method, version |-> IF e.version = 10 THEN 10 ELSE 11,
                   lines |-> f.lines, enc |-> f.enc, req |-> req]
      /\ resp' = NoResponse
      /\ UNCHANGED <<version, decode, eof>>

\* No body, BodyLength::Unknown, BodyLength::Known.
Bodies ==
  {[kind |-> k, len |-> 0] : k \in {"none", "unknown"}} \cup {[kind |-> "known", len |-> n] : n \in BodyLengths}

Requests == [method : Methods, version : Versions, lines : ReqHeads, body : Bodies]

-----------------------------------------------------------------------------
(* Client::decoder and Client::parse.                                      *)

CloseDelimited == Word - 1
Chunked == Word - 2
MaxLen == Word - 3

\* Mutant of CheckedNew: off by one, a sentinel is taken for a length.
CheckedNewLoose(n) == IF n <= MaxLen + 1 THEN n ELSE Err

CheckedNew(n) == IF n <= MaxLen THEN n ELSE Err

\* Client::decoder: the length, and whether the connection is upgraded.
Decoder(r) ==
  IF r.status = 101 THEN [len |-> 0, upgrade |-> TRUE]
  ELSE IF r.status \in {204, 304} \/ method = "HEAD" THEN [len |-> 0, upgrade |-> FALSE]
  ELSE IF method = "CONNECT" /\ r.status \in 200 .. 299 THEN [len |-> 0, upgrade |-> TRUE]
  ELSE [upgrade |-> FALSE,
        len |-> IF Has(r.lines, "transfer-encoding")
                THEN IF r.version = 10 THEN Err
                     ELSE IF IsChunked(r.lines) THEN Chunked ELSE CloseDelimited
                ELSE IF ContentLength(r.lines) # NaN THEN CheckedNew(ContentLength(r.lines))
                ELSE IF Has(r.lines, "content-length") THEN Err
                ELSE CloseDelimited]

\* The Connection lines in turn, from the version's default.
ParseKeepAlive(r) ==
  Loop(LAMBDA ka, l : IF ka THEN "close" \notin Range(l.vals) ELSE "keep-alive" \in Range(l.vals),
       r.version = 11, Lines(r.lines, "connection"))

\* Client::parse and poll_read_head; 1xx but 101 are skipped.
ReadHead(r) ==
  LET d == Decoder(r)
  IN  /\ phase = "sent"
      /\ resp' = r /\ decode' = d.len
      /\ IF d.len = Err THEN phase' = "closed" /\ UNCHANGED <<version, keep>>
         ELSE /\ phase' = "read" /\ version' = r.version
              /\ keep' = (keep /\ ParseKeepAlive(r) /\ ~d.upgrade)
      /\ UNCHANGED <<method, asked, eof>>

Responses == [status : Statuses, version : {10, 11}, lines : RespHeads]

\* Decoder, Kind::Eof: the body of the response ends with the stream.
BodyEof ==
  /\ phase = "read" /\ decode = CloseDelimited /\ ~eof
  /\ eof' = TRUE
  /\ UNCHANGED <<phase, version, keep, method, asked, resp, decode>>

\* The whole of the response was read, an end of the stream included if it
\* is that which ends the body.
BodyRead == phase = "read" /\ (decode = CloseDelimited => eof)

\* Mutant of Finish: try_keep_alive without maybe_notify.
FinishOpen ==
  /\ BodyRead
  /\ IF keep THEN phase' = "idle" /\ method' = None /\ asked' = None
     ELSE phase' = "closed" /\ UNCHANGED <<method, asked>>
  /\ UNCHANGED <<version, keep, resp, decode, eof>>

\* Both bodies are done, Conn::try_keep_alive.  State::try_keep_alive asks
\* for keep-alive only; maybe_notify, which follows in the same call, reads
\* the socket again if it is not known to block: behind the end of the
\* stream it reads that end again and closes the idle connection.
Finish ==
  /\ BodyRead
  /\ IF keep /\ ~eof THEN phase' = "idle" /\ method' = None /\ asked' = None
     ELSE phase' = "closed" /\ UNCHANGED <<method, asked>>
  /\ UNCHANGED <<version, keep, resp, decode, eof>>

FNext ==
  \/ \E req \in Requests : EncodeHead(req)
  \/ \E r \in Responses : ReadHead(r)
  \/ BodyEof
  \/ Finish

FSpec == FInit /\ [][FNext]_fvars

-----------------------------------------------------------------------------
(* What the peer makes of it: RFC 7230, section 3.3.3.                     *)

\* The number a value denotes, however large.
Denotes(v) == Loop(LAMBDA n, d : n * Base + d, 0, v)
Numeral(v) == v # <<>> /\ \A i \in 1 .. Len(v) : v[i] \in 0 .. Base - 1

\* The lengths a head gives; the codings it applies, in order.
LengthsGiven(hs) == {Denotes(v) : v \in {u \in Values(hs, "content-length") : Numeral(u)}}
LengthValid(hs) == /\ \A v \in Values(hs, "content-length") : Numeral(v)
                   /\ \A m, n \in LengthsGiven(hs) : m = n
Codings(hs) == Loop(LAMBDA s, l : s \o l.vals, <<>>, Lines(hs, "transfer-encoding"))

\* How the server finds the end of a request.
ServerReads(hs) ==
  IF Codings(hs) # <<>> THEN IF Last(Codings(hs)) = "chunked" THEN "chunked" ELSE "bad"
  ELSE IF ~LengthValid(hs) THEN "bad" ELSE "length"

\* The user did not contradict the body, nor write lengths no one can read.
Sane(req) ==
  /\ LengthValid(req.lines) /\ \A n \in LengthsGiven(req.lines) : n < Word
  /\ req.body.kind = "none" => LengthsGiven(req.lines) \subseteq {0}

\* Code: set_length, "If the user already set specific headers, we should
\* respect them".  The server takes for the body what the encoder will
\* write: the same framing, the same length, no second opinion beside it,
\* and trailers only as announced.
RequestFramed ==
  phase = "sent" /\ Sane(asked.req) =>
    /\ ServerReads(asked.lines) = asked.enc.kind
    /\ asked.enc.kind = "length" => LengthsGiven(asked.lines) \subseteq {asked.enc.len}
    /\ asked.enc.kind = "length" /\ asked.enc.len > 0 => LengthsGiven(asked.lines) # {}
    /\ ~(Has(asked.lines, "transfer-encoding") /\ Has(asked.lines, "content-length"))
    /\ asked.enc.trailers \subseteq Values(asked.lines, "trailer")

\* Code: enforce_version, "If the remote only knows HTTP/1.0, we should
\* force ourselves to do only speak HTTP/1.0 as well".  Once a response was
\* HTTP/1.0 no later request is chunked, whatever its own version.
PeerUnderstands ==
  phase = "sent" /\ version = 10 =>
    asked.version = 10 /\ asked.enc.kind = "length" /\ ~Has(asked.lines, "transfer-encoding")

\* What ends the body of a response to a request of this method.
ServerSends(m, r) ==
  IF m = "HEAD" \/ r.status \in (100 .. 199) \cup {204, 304} \/ (m = "CONNECT" /\ r.status \in 200 .. 299)
  THEN [kind |-> "length", len |-> 0]
  ELSE IF Codings(r.lines) # <<>>
  THEN [kind |-> IF r.version = 10 THEN "bad" ELSE IF Last(Codings(r.lines)) = "chunked" THEN "chunked" ELSE "close",
        len |-> 0]
  ELSE IF LengthsGiven(r.lines) = {} /\ LengthValid(r.lines) THEN [kind |-> "close", len |-> 0]
  ELSE IF ~LengthValid(r.lines) \/ \E n \in LengthsGiven(r.lines) : n > MaxLen THEN [kind |-> "bad", len |-> 0]
  ELSE [kind |-> "length", len |-> CHOOSE n \in LengthsGiven(r.lines) : TRUE]

\* A DecodedLength, its sentinels included.
Meaning(n) ==
  [kind |-> IF n = Err THEN "bad" ELSE IF n = Chunked THEN "chunked" ELSE IF n = CloseDelimited THEN "close" ELSE "length",
   len |-> IF n < Chunked THEN n ELSE 0]

\* Code: Client::decoder.  A response ends where the rules the code quotes
\* say it ends, for the method of the request it answers, for lengths up to
\* the sentinels of DecodedLength and beyond the width of u64; what breaks
\* the rules is an error and the connection is not used again.
ResponseFramed ==
  phase = "read" \/ decode = Err => Meaning(decode) = ServerSends(asked.method, resp)

\* The server will serve another request: RFC 7230, section 6.3.
ServerKeeps(r) ==
  LET options == Values(r.lines, "connection")
  IN  "close" \notin options /\ (r.version = 11 \/ "keep-alive" \in options)

\* Client::parse takes the Connection lines one by one, and a keep-alive is
\* heard whenever the last word was to close: one in a later line than a
\* close, or in HTTP/1.0 one beside it, undoes it.
Overruled(r) ==
  LET c == Lines(r.lines, "connection")
  IN  \E i, j \in 1 .. Len(c) :
        /\ "close" \in Range(c[i].vals) /\ "keep-alive" \in Range(c[j].vals)
        /\ i < j \/ (r.version = 10 /\ i = j)

\* Code: Client::parse (keep_alive), try_keep_alive, maybe_notify.  The
\* connection is reused only if the response had an end of its own and the
\* server keeps it open.  There is one exception, and no other: a server
\* that says close and keep-alive is taken at its word to keep it in the
\* cases of Overruled, although RFC 7230, section 6.3, gives close the
\* precedence.
ReuseAgreed ==
  phase = "idle" =>
    /\ ServerKeeps(resp) \/ Overruled(resp)
    /\ Meaning(decode).kind \in {"length", "chunked"} /\ resp.status # 101

\* Code: Client::encode, set_length, enforce_version.  Every request can be
\* read by the server that it is sent to, and is read as what it is.
RequestUnderstood == RequestFramed /\ PeerUnderstands
=============================================================================
