--------------------------- MODULE MCCallBridge ----------------------------
(* Instances of CallBridge for TLC. *)
EXTENDS CallBridge

=============================================================================
