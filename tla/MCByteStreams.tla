---------------------------- MODULE MCByteStreams ----------------------------
(***************************************************************************)
(* Instances of BufferedRead, WriteBuffer, StreamRead and Http2Ping for    *)
(* TLC.  They share no state, so each is explored while the others stand   *)
(* still.                                                                  *)
(***************************************************************************)
EXTENDS BufferedRead, WriteBuffer, StreamRead, Http2Ping

VARIABLE part   \* which of them moves

\* A status line alone, or with a header line; a line that is all CR.
MCHeads == {<<>>, <<Cr, Lf, "x">>, <<Lf, "x">>}

\* The line ends of one convention, kept throughout or mixed at the end.
MCTerminators == {<<Cr, Lf, Cr, Lf>>, <<Lf, Lf>>, <<Cr, Lf, Lf>>}

\* A long body, for the read size; it follows the shortest head.
LongBody == [i \in 1 .. 20 |-> "x"]
MCBodies == {<<>>, <<Lf, Lf>>, <<"i", Cr, Lf>>, LongBody}

Short == stream.count = 0 /\ Len(stream.head) = 3
Still == stream.body = <<>> /\ Short /\ strat.exact /\ strat.max = 2

MCInit ==
  /\ part \in {"read", "write", "stream", "ping"}
  /\ RInit /\ WInit /\ SInit /\ GInit
  /\ stream.body = LongBody => Short
  /\ part # "read" => Still
  /\ part # "write" => flatten
  /\ part # "stream" => kind = "body" /\ total = 0 /\ declared = Unknown
  /\ part # "ping" => WhileIdle /\ BdpOn

MCNext ==
  /\ UNCHANGED part
  /\ \/ part = "read" /\ RNext /\ UNCHANGED <<wvars, svars, gvars>>
     \/ part = "write" /\ WNext /\ UNCHANGED <<rvars, svars, gvars>>
     \/ part = "stream" /\ SNext /\ UNCHANGED <<rvars, wvars, gvars>>
     \/ part = "ping" /\ GNext /\ UNCHANGED <<rvars, wvars, svars>>

MCSpec == MCInit /\ [][MCNext]_<<part, rvars, wvars, svars, gvars>>
=============================================================================
