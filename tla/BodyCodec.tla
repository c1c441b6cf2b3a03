------------------------------ MODULE BodyCodec ------------------------------
(***************************************************************************)
(* proto/http1/encode.rs: the encoder of a request body, composed with the *)
(* decoder of BodyDecoder at the other end of the wire, which cuts what it *)
(* reads anywhere.  Or the other end is anything at all (Foreign).         *)
(***************************************************************************)
EXTENDS BodyDecoder

CONSTANTS
  Frames,      \* data frames of a body
  MaxFrames,   \* bound: frames of a body
  FieldNames,  \* trailer fields
  Forbidden    \* those is_valid_trailer_field refuses

ASSUME CodecAssumption ==
  /\ \A f \in Frames : f \in Seq(Byte) /\ Len(f) \in 1 .. MaxSize
  /\ MaxFrames \in Nat /\ Forbidden \subseteq FieldNames

\* encode_trailers has no limit of its own: the peer has room for the fields.
ASSUME TrailersAssumption ==
  /\ IsFiniteSet(FieldNames)
  /\ Cardinality(FieldNames \ Forbidden) < MaxHeaders
  /\ 3 * Cardinality(FieldNames \ Forbidden) + 2 < TrailerLimit

VARIABLES
  enc,    \* Encoder: state, what is left of its length, allowed trailers
  sent,   \* ghost: the body as it was given
  fields, \* ghost: the trailers that were accepted
  pipe    \* bytes encoded and not read yet

cvars == <<bvars, enc, sent, fields, pipe>>

\* Encoder::length or chunked, and the decoder that its head calls for; a
\* state "none" is a peer that is not this encoder.
Enc(state, left, allowed) == [state |-> state, left |-> left, allowed |-> allowed, frames |-> 0]
Foreign == enc.state = "none"

CInit ==
  /\ BInit
  /\ \/ enc = Enc("none", 0, {})
     \/ /\ kind # "eof"
        /\ \E allowed \in SUBSET FieldNames :
             enc = Enc(IF dec.state = "End" THEN "done" ELSE "body", dec.size, allowed)
  /\ sent = <<>> /\ fields = {} /\ pipe = <<>>

-----------------------------------------------------------------------------
(* Encoder.                                                                *)

Crlf == <<Cr, Lf>>
LastChunk == <<0>> \o Crlf

\* ChunkSize::new: the size in the radix, without leading zeros.
ChunkSize(n) ==
  LET digits[m \in 0 .. n] ==
        IF m < Radix THEN <<m>> ELSE Append(digits[m \div Radix], m % Radix)
  IN  digits[n] \o Crlf

Take(s, n) == SubSeq(s, 1, IF n < Len(s) THEN n ELSE Len(s))

\* Encoder::encode: BufKind::Chunked, Exact or Limited.
EncodeBytes(msg) ==
  IF kind = "chunked" THEN ChunkSize(Len(msg)) \o msg \o Crlf ELSE Take(msg, enc.left)

Left(n) == IF kind = "chunked" \/ n > enc.left THEN 0 ELSE enc.left - n

Gives(msg) ==
  /\ enc.state = "body" /\ enc.frames < MaxFrames
  /\ sent' = IF kind = "chunked" THEN sent \o msg ELSE sent \o Take(msg, enc.left)

Unread == UNCHANGED <<bvars, fields>>

\* Conn::write_body; a Length that is used up is not written to again.
Encode(msg) ==
  /\ Gives(msg) /\ (kind = "chunked" \/ enc.left > 0)
  /\ pipe' = pipe \o EncodeBytes(msg)
  /\ enc' = [enc EXCEPT !.left = Left(Len(msg)), !.frames = @ + 1,
                        !.state = IF kind = "length" /\ Len(msg) >= enc.left THEN "done" ELSE @]
  /\ Unread

\* Mutant of EncodeAndEnd: the last chunk is left to a later end().
EncodeAndEndOpen(msg) ==
  /\ Gives(msg) /\ (kind = "chunked" \/ enc.left > 0)
  /\ pipe' = pipe \o EncodeBytes(msg)
  /\ enc' = [enc EXCEPT !.left = Left(Len(msg)), !.frames = @ + 1,
                        !.state = IF kind = "chunked" \/ Len(msg) >= enc.left THEN "done" ELSE "closed"]
  /\ Unread

\* Encoder::encode_and_end; a body that is too short closes the connection.
EncodeAndEnd(msg) ==
  /\ Gives(msg) /\ (kind = "chunked" \/ enc.left > 0)
  /\ pipe' = pipe \o EncodeBytes(msg) \o (IF kind = "chunked" THEN LastChunk \o Crlf ELSE <<>>)
  /\ enc' = [enc EXCEPT !.left = Left(Len(msg)), !.frames = @ + 1,
                        !.state = IF kind = "chunked" \/ Len(msg) >= enc.left THEN "done" ELSE "closed"]
  /\ Unread

\* Encoder::end: the last chunk, nothing, or NotEof.
End ==
  /\ enc.state \in {"body", "ending"}
  /\ pipe' = IF kind = "chunked" THEN pipe \o LastChunk \o Crlf ELSE pipe
  /\ enc' = [enc EXCEPT !.state = IF kind = "chunked" \/ enc.left = 0 THEN "done" ELSE "closed"]
  /\ Unread /\ UNCHANGED sent

\* The fields of encode_trailers: listed in Trailer and valid there.
AllowedTrailers(ts) == (ts \cap enc.allowed) \ Forbidden

\* The lines of k fields.
FieldLines(k) == [i \in 1 .. 3 * k |-> <<Lf, Other, Cr>>[(i % 3) + 1]]

\* Encoder::encode_trailers, one line for each field.  Without an allowed field, or without chunks,
\* nothing is written and the body stays open (Conn::write_trailers): the dispatcher, which let
\* go of the body, ends it next.
EncodeTrailers(ts) ==
  LET S == IF kind = "chunked" THEN AllowedTrailers(ts) ELSE {}
  IN  /\ enc.state = "body"
      /\ pipe' = IF S = {} THEN pipe ELSE pipe \o LastChunk \o FieldLines(Cardinality(S)) \o Crlf
      /\ enc' = [enc EXCEPT !.state = IF S = {} THEN "ending" ELSE "done"]
      /\ fields' = S
      /\ UNCHANGED <<bvars, sent>>

-----------------------------------------------------------------------------
(* The decoder reads from the pipe.                                        *)

Receive ==
  /\ pipe # <<>>
  /\ \/ DecodeByte(pipe[1], TRUE) /\ pipe' = Tail(pipe)
     \/ \E n \in 1 .. Len(pipe) :
          /\ DecodeBody(SubSeq(pipe, 1, n)) \/ DecodeLength(SubSeq(pipe, 1, n))
          /\ pipe' = SubSeq(pipe, n + 1, Len(pipe))
  /\ UNCHANGED <<enc, sent, fields>>

\* The connection that closed is read to its end.
Hangup ==
  /\ enc.state = "closed" /\ pipe = <<>>
  /\ SocketEnds
  /\ UNCHANGED <<enc, sent, fields, pipe>>

Anything == Foreign /\ BNext /\ UNCHANGED <<enc, sent, fields, pipe>>

CNext ==
  \/ \E msg \in Frames : Encode(msg) \/ EncodeAndEnd(msg)
  \/ End \/ \E ts \in SUBSET FieldNames : EncodeTrailers(ts)
  \/ Receive \/ Hangup \/ Anything

CSpec == CInit /\ [][CNext]_cvars

-----------------------------------------------------------------------------
(* Properties.                                                             *)

\* Code: encode, encode_and_end, end, decode.  The peer takes for the body
\* what was given (cut to its Content-Length), whatever bytes are in it and
\* however the wire splits it; nothing of the message is left for the next.
RoundTrip ==
  ~Foreign /\ dec.state = "End" => out = sent /\ pipe = <<>> /\ enc.state = "done"

\* A message that was ended is received as ended, an aborted one never is.
EndsTogether ==
  pipe = <<>> => /\ enc.state = "done" => dec.state = "End"
                 /\ enc.state = "closed" => dec.state # "End"

\* The peer of an encoder never has to reject what it is sent.
AlwaysAccepted == ~Foreign /\ dec.state = "Err" => ended

\* Code: is_valid_trailer_field, TRAILER.  Exactly the fields that were
\* announced and may be trailers arrive: framing fields cannot be smuggled
\* behind the body.
TrailersFiltered ==
  /\ fields \subseteq enc.allowed \ Forbidden
  /\ ~Foreign /\ dec.state = "End" => dec.tcount = Cardinality(fields)

\* Code: Encoder and Decoder.  The two agree: what one writes the other reads
\* back, with the same end, without an error, with the trailers allowed.
CodecAgrees == RoundTrip /\ EndsTogether /\ AlwaysAccepted /\ TrailersFiltered
=============================================================================
