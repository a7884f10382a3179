--------------------------- MODULE MCResultDelivery ---------------------------
(* Two handlers may be resuming the execution, or notifying of its result,  *)
(* at one time.                                                             *)
EXTENDS ResultDelivery

OverlappingResumes == { "earlier", "later" }
===============================================================================
