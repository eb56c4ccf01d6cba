---------------------------- MODULE MCPushQueue ----------------------------
(* Instances of PushQueue for TLC. *)
EXTENDS PushQueue, TLC

\* Workers, devices and messages are interchangeable in the safety runs.
QueueSymmetry == Permutations(Workers) \cup Permutations(Devices) \cup Permutations(Messages)

=============================================================================
