---------------------------- MODULE MCWebSocket ----------------------------
(***************************************************************************)
(* An instance of WebSocket for TLC: a channel of two messages and a       *)
(* server that sends more than fit, two sends or closes, and a shutdown.   *)
(***************************************************************************)
EXTENDS WebSocket
=============================================================================
