--------------------------- MODULE MCAutoRecover ---------------------------
(* AutoRecover on small instances. *)
EXTENDS AutoRecover
=============================================================================
