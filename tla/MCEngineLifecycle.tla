------------------------- MODULE MCEngineLifecycle -------------------------
(***************************************************************************)
(* An instance of EngineLifecycle for TLC: one request, one direct use of  *)
(* the native engine and two callers of shutdown.                          *)
(***************************************************************************)
EXTENDS EngineLifecycle
=============================================================================
