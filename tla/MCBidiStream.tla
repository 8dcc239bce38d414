---------------------------- MODULE MCBidiStream ----------------------------
(***************************************************************************)
(* An instance of BidiStream for TLC: a channel of one event and more      *)
(* chunks than fit in it and in the task that waits for room.              *)
(***************************************************************************)
EXTENDS BidiStream
=============================================================================
