---------------------------- MODULE PushDelivery ----------------------------
(***************************************************************************)
(* What the push queue promises about one delivery: it is opened once, it  *)
(* is pushed at most Limit times and only while it is open, and its end is *)
(* final.  That it was pushed before it counts as accepted is not          *)
(* promised: a provider may accept an answer that says nothing.  PushQueue *)
(* implements this.                                                        *)
(***************************************************************************)
EXTENDS Naturals

CONSTANTS
    Items,   \* the deliveries
    Limit    \* the most pushes of one delivery

VARIABLES
    fate,    \* "none", "open", "accepted" or "failed"
    pushes   \* how often a provider has taken the delivery

vars == <<fate, pushes>>

Init ==
    /\ fate = [x \in Items |-> "none"]
    /\ pushes = [x \in Items |-> 0]

Queue(x) ==
    /\ fate[x] = "none"
    /\ fate' = [fate EXCEPT ![x] = "open"]
    /\ UNCHANGED pushes

Push(x) ==
    /\ fate[x] = "open"
    /\ pushes[x] < Limit
    /\ pushes' = [pushes EXCEPT ![x] = @ + 1]
    /\ UNCHANGED fate

Accept(x) ==
    /\ fate[x] = "open"
    /\ fate' = [fate EXCEPT ![x] = "accepted"]
    /\ UNCHANGED pushes

Abandon(x) ==
    /\ fate[x] = "open"
    /\ fate' = [fate EXCEPT ![x] = "failed"]
    /\ UNCHANGED pushes

Next == \E x \in Items : Queue(x) \/ Push(x) \/ Accept(x) \/ Abandon(x)

Spec == Init /\ [][Next]_vars

=============================================================================
