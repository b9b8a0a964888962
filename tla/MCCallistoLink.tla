--------------------------- MODULE MCCallistoLink ---------------------------
(* Constants of CallistoLink for TLC: samples that are not close to zero. *)
EXTENDS CallistoLink

MCSamples == [f \in DOMAIN StatusLine |-> IF f = "1.5" THEN {1, 3} ELSE {3, 6}]
=============================================================================
