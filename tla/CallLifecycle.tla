--------------------------- MODULE CallLifecycle ---------------------------
(***************************************************************************)
(* What the call runtime promises about one call, whoever operates on it   *)
(* and in whatever order: it begins to ring once, it may be answered, it   *)
(* is over once and for all, and its end is announced at most once and     *)
(* never before it.  CallRuntime implements this specification.            *)
(***************************************************************************)

CONSTANT Calls

VARIABLES
    phase,      \* "none", "ringing", "live" or "over"
    announced   \* calls whose end has been announced

vars == <<phase, announced>>

Init ==
    /\ phase = [c \in Calls |-> "none"]
    /\ announced = {}

Begin(c) ==
    /\ phase[c] = "none"
    /\ phase' = [phase EXCEPT ![c] = "ringing"]
    /\ UNCHANGED announced

Answer(c) ==
    /\ phase[c] = "ringing"
    /\ phase' = [phase EXCEPT ![c] = "live"]
    /\ UNCHANGED announced

Finish(c) ==
    /\ phase[c] \in {"ringing", "live"}
    /\ phase' = [phase EXCEPT ![c] = "over"]
    /\ UNCHANGED announced

Announce(c) ==
    /\ phase[c] = "over"
    /\ c \notin announced
    /\ announced' = announced \cup {c}
    /\ UNCHANGED phase

Next == \E c \in Calls : Begin(c) \/ Answer(c) \/ Finish(c) \/ Announce(c)

Spec == Init /\ [][Next]_vars

=============================================================================
