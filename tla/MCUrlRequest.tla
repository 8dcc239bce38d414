---------------------------- MODULE MCUrlRequest ----------------------------
(***************************************************************************)
(* An instance of UrlRequest for TLC: a body of more chunks than the       *)
(* channel and the limit of bytes let through, after a redirect or none.   *)
(***************************************************************************)
EXTENDS UrlRequest
=============================================================================
