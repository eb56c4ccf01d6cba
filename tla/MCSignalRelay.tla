--------------------------- MODULE MCSignalRelay ---------------------------
(* Instances of SignalRelay for TLC. *)
EXTENDS SignalRelay

=============================================================================
