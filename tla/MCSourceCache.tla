--------------------------- MODULE MCSourceCache ---------------------------
(***************************************************************************)
(* An instance of SourceCache for TLC: an operation of every kind and for  *)
(* every platform, one after the other in every order.  One process asks   *)
(* for all of them: a second one could only wait for the lock.             *)
(***************************************************************************)
EXTENDS SourceCache

MCJobs ==
  { [kind |-> "ensure", platform |-> "host", linkage |-> "dynamic"],
    [kind |-> "ensure", platform |-> "ohos", linkage |-> "static"],
    [kind |-> "ensure", platform |-> "android", linkage |-> "dynamic"],
    [kind |-> "build", platform |-> "ohos", linkage |-> "dynamic"],
    [kind |-> "sync", platform |-> "host"],
    [kind |-> "api", platform |-> "host"],
    [kind |-> "vendor", platform |-> "host"] }
=============================================================================
