------------------------------ MODULE MCUpload ------------------------------
(***************************************************************************)
(* An instance of Upload for TLC: every kind of source, shorter than, as   *)
(* long as and longer than what it declares, read through small buffers.   *)
(***************************************************************************)
EXTENDS Upload
=============================================================================
