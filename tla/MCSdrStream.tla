---------------------------- MODULE MCSdrStream -----------------------------
(* TLC instance of SdrStream: two channels, one power value that equals STX. *)
EXTENDS SdrStream

MCPowers == {2, 7}
=============================================================================
