----------------------------- MODULE MCMessages -----------------------------
(***************************************************************************)
(* Instances of MessageFraming and BodyCodec for TLC.  They share no       *)
(* state, so each is explored while the other stands still.                *)
(***************************************************************************)
EXTENDS MessageFraming, BodyCodec

VARIABLE part   \* which of them moves: the heads or the bodies

\* Frames that look like framing.
MCFrames == {<<Cr>>, <<0, Cr>>, <<Cr, Lf, 0>>}

(* Binary lengths less than 16 = Word.                                     *)

Te == {<<>>} \cup {<<Line("transfer-encoding", v)>> : v \in {<<"chunked">>, <<"gzip">>, <<"gzip", "chunked">>}}
         \cup {<<Line("transfer-encoding", <<"chunked">>), Line("transfer-encoding", <<"gzip">>)>>}

\* Zero, one, 13 = MAX_LEN, the sentinels 14 and 15, 16, empty, no digits.
Numerals == {<<0>>, <<1>>, <<1, 1, 0, 1>>, <<1, 1, 1, 0>>, <<1, 1, 1, 1>>, <<1, 0, 0, 0, 0>>, <<>>, <<1, 2>>}

\* None, one value, two in one line or in two lines, equal or not.
Cl == {<<>>} \cup {<<Line("content-length", <<v>>)>> : v \in Numerals}
        \cup {<<Line("content-length", <<<<1>>, v>>)>> : v \in {<<0, 1>>, <<0>>, <<>>}}
        \cup {<<Line("content-length", <<<<1>>>>), Line("content-length", <<v>>)>> : v \in {<<0, 1>>, <<0>>, <<1, 2>>}}

Connection == {<<>>} \cup {<<Line("connection", <<v>>)>> : v \in {"close", "keep-alive", "upgrade"}}
                \cup {<<Line("connection", <<"upgrade", "close">>)>>}
Trailer == {<<>>, <<Line("trailer", <<"x-a", "x-b">>)>>}

MCReqHeads == {t \o c \o k \o r : t \in Te, c \in Cl, k \in Connection, r \in Trailer}

\* Options that contradict each other, in a line or in two.
Contradiction == {<<Line("connection", <<"close">>), Line("connection", <<"keep-alive">>)>>,
                  <<Line("connection", <<"keep-alive">>), Line("connection", <<"close">>)>>,
                  <<Line("connection", <<"keep-alive", "close">>)>>,
                  <<Line("connection", <<"upgrade">>), Line("connection", <<"close", "keep-alive">>)>>}

MCRespHeads == {t \o c \o k : t \in Te, c \in Cl, k \in Connection}
                 \cup {c \o k : c \in {<<>>, <<Line("content-length", <<<<1>>>>)>>}, k \in Contradiction}

\* Either the request or its response has unusual header lines: every
\* request head is tried after every ordinary response, and every response
\* head after every ordinary request.
PlainLines == {<<>>, <<Line("connection", <<"keep-alive">>), Line("content-length", <<<<1>>>>)>>}
PlainResponse(r) == r.status \in {0, 200} /\ r.lines \in PlainLines
PlainRequest(req) == req.lines = <<>> /\ req.body.kind = "none"

PlainRequests == {q \in Requests : PlainRequest(q)}
OtherRequests == {q \in Requests : ~PlainRequest(q) /\ q.method \in {"GET", "POST"}}
PlainResponses == {r \in Responses : PlainResponse(r)}
OtherResponses == Responses \ PlainResponses

Heads ==
  \/ phase = "idle" /\ \E req \in PlainRequests : EncodeHead(req)
  \/ phase = "idle" /\ PlainResponse(resp) /\ \E req \in OtherRequests : EncodeHead(req)
  \/ phase = "sent" /\ \E r \in PlainResponses : ReadHead(r)
  \/ phase = "sent" /\ PlainRequest(asked.req) /\ \E r \in OtherResponses : ReadHead(r)
  \/ BodyEof
  \/ Finish

MCInit ==
  /\ part \in {"heads", "bodies"}
  /\ FInit /\ CInit
  /\ part = "heads" => kind = "eof"

MCNext ==
  /\ UNCHANGED part
  /\ \/ part = "heads" /\ Heads /\ UNCHANGED cvars
     \/ part = "bodies" /\ CNext /\ UNCHANGED fvars

MCSpec == MCInit /\ [][MCNext]_<<part, fvars, cvars>>
=============================================================================
