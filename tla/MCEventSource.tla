--------------------------- MODULE MCEventSource ---------------------------
(***************************************************************************)
(* An instance of EventSource for TLC: every stream of six tokens, in      *)
(* chunks of at most five, over one or two connections.                    *)
(***************************************************************************)
EXTENDS EventSource
=============================================================================
