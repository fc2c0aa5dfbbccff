------------------------- MODULE MCSocketTransport --------------------------
(* Instance of SocketTransport for TLC. *)
EXTENDS SocketTransport
=============================================================================
