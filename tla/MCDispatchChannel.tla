-------------------------- MODULE MCDispatchChannel --------------------------
(* The bounded channel of an HTTP/1 connection for TLC.                    *)
EXTENDS DispatchChannel
=============================================================================
