---------------------------- MODULE MCBidiWrite ----------------------------
(***************************************************************************)
(* Instances of BidiWrite for TLC: one place for a write, more writes than *)
(* fit or a write and the end of the stream, and a flush.                  *)
(***************************************************************************)
EXTENDS BidiWrite
=============================================================================
