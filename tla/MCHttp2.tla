------------------------------- MODULE MCHttp2 -------------------------------
(* Instances of Http2Client for TLC.                                       *)
EXTENDS Http2Client
=============================================================================
