----------------------------- MODULE MCHttp2Pipe -----------------------------
(* An instance of Http2Pipe for TLC: two streams that share one window.    *)
EXTENDS Http2Pipe
=============================================================================
