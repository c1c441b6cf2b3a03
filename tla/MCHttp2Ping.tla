----------------------------- MODULE MCHttp2Ping -----------------------------
(***************************************************************************)
(* Instances of Http2Ping for TLC.                                         *)
(***************************************************************************)
EXTENDS Http2Ping
=============================================================================
