------------------------------- MODULE MCHttp1 -------------------------------
(***************************************************************************)
(* Instances of Http1Dispatcher for TLC.  Requests without a body are      *)
(* interchangeable.                                                        *)
(***************************************************************************)
EXTENDS Http1Dispatcher, TLC

ReqSymmetry == Permutations(Req)

\* Bodies of known length, chunked ones, responses without a body or before
\* an upgrade, the ways of an HTTP/1.0 server.
MCServers == {{"len", "data", "close"}, {"chunk", "data", "end", "trail"},
              {"info", "zero", "up"}, {"zero", "old", "eofb"}}
=============================================================================
