--------------------------- MODULE MCSocketClient ---------------------------
(* SocketClient for TLC. *)
EXTENDS SocketClient
=============================================================================
