---------------------------- MODULE CallOutcome ----------------------------
(***************************************************************************)
(* What the rest of the server relies on of a call: who is in it, whether  *)
(* it rings, is answered or how it ended, and that its ring timer or its   *)
(* room ends it at most once.  CallRuntime implements it; CallBridge is    *)
(* built on it.                                                            *)
(***************************************************************************)
CONSTANTS Users, Calls, NoUser

VARIABLES
    phase,       \* phase[c]: "none", open, or how the call ended
    caller,      \* caller[c]: who created it
    members,     \* members[c]: its participants, who are never removed
    waiting,     \* calls whose Create waits for a room
    fired        \* calls that the ring timer ended, its handler still to run

outcomeVars == <<phase, caller, members, waiting, fired>>

Open == {"ringing", "answered"}
Over == {"ended", "cancelled", "timeout", "failed"}

OutcomeTypeOK ==
    /\ phase \in [Calls -> {"none"} \cup Open \cup Over]
    /\ caller \in [Calls -> Users \cup {NoUser}]
    /\ members \in [Calls -> SUBSET Users]
    /\ waiting \in SUBSET Calls
    /\ fired \in SUBSET Calls

OutcomeInit ==
    /\ phase = [c \in Calls |-> "none"]
    /\ caller = [c \in Calls |-> NoUser]
    /\ members = [c \in Calls |-> {}]
    /\ waiting = {}
    /\ fired = {}

Enter(c, p) == phase' = [phase EXCEPT ![c] = p]

\* A call is created and rings; one with an SFU waits for its room.
Begin(c, u, callees, room) ==
    /\ phase[c] = "none"
    /\ callees # {}
    /\ Enter(c, "ringing")
    /\ caller' = [caller EXCEPT ![c] = u]
    /\ members' = [members EXCEPT ![c] = callees \cup {u}]
    /\ waiting' = IF room THEN waiting \cup {c} ELSE waiting
    /\ UNCHANGED fired

\* The room exists, or the request gave up on it.
RoomDone(c) ==
    /\ c \in waiting
    /\ waiting' = waiting \ {c}
    /\ UNCHANGED <<phase, caller, members, fired>>

\* There is no room: the call fails, unless it is over.
RoomFailed(c) ==
    /\ c \in waiting
    /\ waiting' = waiting \ {c}
    /\ Enter(c, IF phase[c] \in Open THEN "failed" ELSE phase[c])
    /\ UNCHANGED <<caller, members, fired>>

\* A participant accepts, or his media is connected.
Answer(c, u) ==
    /\ phase[c] \in Open
    /\ u \in members[c]
    /\ Enter(c, "answered")
    /\ UNCHANGED <<caller, members, waiting, fired>>

\* A user joins, who may be new to the call.
Enroll(c, u) ==
    /\ phase[c] \in Open
    /\ Enter(c, "answered")
    /\ members' = [members EXCEPT ![c] = @ \cup {u}]
    /\ UNCHANGED <<caller, waiting, fired>>

\* A participant's reject, leave or hangup ends the call.
End(c, u) ==
    /\ phase[c] \in Open
    /\ u \in members[c]
    /\ Enter(c, "ended")
    /\ UNCHANGED <<caller, members, waiting, fired>>

\* The caller cancels.
Withdraw(c, u) ==
    /\ phase[c] \in Open
    /\ u = caller[c]
    /\ Enter(c, "cancelled")
    /\ UNCHANGED <<caller, members, waiting, fired>>

\* The timer ends a call that rings.
Expire(c) ==
    /\ phase[c] = "ringing"
    /\ Enter(c, "timeout")
    /\ fired' = fired \cup {c}
    /\ UNCHANGED <<caller, members, waiting>>

\* The timeout handler runs, or is lost with the reply of the store.
Handled(c) ==
    /\ c \in fired
    /\ fired' = fired \ {c}
    /\ UNCHANGED <<phase, caller, members, waiting>>

\* The process dies.
Die ==
    /\ waiting' = {}
    /\ fired' = {}
    /\ UNCHANGED <<phase, caller, members>>

OutcomeNext ==
    \/ \E c \in Calls :
        \/ \E u \in Users, callees \in SUBSET Users, room \in BOOLEAN : Begin(c, u, callees, room)
        \/ RoomDone(c) \/ RoomFailed(c) \/ Expire(c) \/ Handled(c)
        \/ \E u \in Users : Answer(c, u) \/ Enroll(c, u) \/ End(c, u) \/ Withdraw(c, u)
    \/ Die

OutcomeSpec == OutcomeInit /\ [][OutcomeNext]_outcomeVars

=============================================================================
