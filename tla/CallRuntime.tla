---------------------------- MODULE CallRuntime ----------------------------
(***************************************************************************)
(* The call runtime of the realtime server: internal/call/service.go over  *)
(* an atomic call store (memory_store.go, or store.go as RedisCallStore    *)
(* shows it to behave), the room step of orchestrator.go, the ring timer   *)
(* goroutine, and the CallEnded / CallFailed events that the hub counts.   *)
(*                                                                         *)
(* A call is the tuple mode, caller, state, part, started at its index.    *)
(* Device ids, timestamps and reasons are left out: no property tells them *)
(* apart.  A store Update runs its closure atomically, so each operation   *)
(* is one step; what an operation does after its Update (publishing, the   *)
(* timeout handler, the second half of Resume) is a step of its own.       *)
(***************************************************************************)
EXTENDS Naturals, FiniteSets

CONSTANTS
    Users,       \* user ids of one app
    Calls,       \* call ids the server may generate
    NoUser,      \* the caller of a call that does not exist
    MediaReports, \* whether MarkConnected is used: the service and its tests have
                 \* it, but no WebSocket or HTTP handler calls it
    RoomMayFail, \* whether the SFU provider's CreateRoom can return an error:
                 \* the interface allows it, the two shipped providers never do
    MaxFaults    \* bound on process crashes and store errors

ASSUME NoUserAssumption == NoUser \notin Users
ASSUME RoomAssumption == RoomMayFail \in BOOLEAN /\ MediaReports \in BOOLEAN
ASSUME FaultsAssumption == MaxFaults \in Nat

VARIABLES
    mode,        \* "none" until Create, then "direct" or "group"
    caller,      \* Call.CallerID
    state,       \* Call.State
    part,        \* part[c][u]: Participant.State, or "absent"
    started,     \* calls whose StartedAt is set
    byUser,      \* the store's per-user index of call ids
    timer,       \* scheduleTimeout's goroutine: "off", "armed", "fired"
    creating,    \* calls whose Create has not returned from EnsureRoom
    resumes,     \* <<call, user>>: a Resume between its check and its Update
    out,         \* out[e][c]: events about to be published or in the bus
    seen,        \* seen[e][c]: events the hub's onEvent has counted
    notified,    \* calls whose ring timeout handler has run
    faults       \* crashes and store errors so far

callVars == <<mode, caller, state, part, started>>
vars == <<mode, caller, state, part, started, byUser, timer, creating,
          resumes, out, seen, notified, faults>>

-----------------------------------------------------------------------------
(* types.go *)

Terminal == {"ended", "rejected", "cancelled", "timeout", "failed"}
Live == {"ringing", "accepted", "connecting", "connected"}
States == {"none"} \cup Live \cup Terminal

Ringing == {"ringing", "invited"}
Active == {"connected", "connecting", "accepted", "reconnecting"}
PStates == {"absent", "left", "disconnected", "rejected"} \cup Ringing \cup Active

Events == {"ended", "failed"}

IsTerminal(c) == state[c] \in Terminal

\* The call is in the store: Get and Update find it.
Found(c) == state[c] # "none"

FindParticipant(c, u) == part[c][u] # "absent"

TypeOK ==
    /\ mode \in [Calls -> {"none", "direct", "group"}]
    /\ caller \in [Calls -> Users \cup {NoUser}]
    /\ state \in [Calls -> States]
    /\ part \in [Calls -> [Users -> PStates]]
    /\ started \in SUBSET Calls
    /\ byUser \in [Users -> SUBSET Calls]
    /\ timer \in [Calls -> {"off", "armed", "fired"}]
    /\ creating \in SUBSET Calls
    /\ resumes \in SUBSET (Calls \X Users)
    /\ out \in [Events -> [Calls -> Nat]]
    /\ seen \in [Events -> [Calls -> Nat]]
    /\ notified \in SUBSET Calls
    /\ faults \in 0..MaxFaults

-----------------------------------------------------------------------------
(* Helpers of the operations *)

\* Mutant: the loop tests for "invited" only.
Silenced_InvitedOnly(ps) == [u \in Users |-> IF ps[u] = "invited" THEN "disconnected" ELSE ps[u]]

\* Every ringing participant is disconnected (the loops of scheduleTimeout
\* and Cancel).
Silenced(ps) == [u \in Users |-> IF ps[u] \in Ringing THEN "disconnected" ELSE ps[u]]

\* Put and Update index the call for every participant they store.
Indexed(c, ps) ==
    [u \in Users |-> IF ps[u] # "absent" THEN byUser[u] \cup {c} ELSE byUser[u]]

\* A store Update of call c that leaves it in state s with participants ps.
Store(c, s, ps) ==
    /\ state' = [state EXCEPT ![c] = s]
    /\ part' = [part EXCEPT ![c] = ps]
    /\ byUser' = Indexed(c, ps)

\* The operation goes on to publish event e for call c.
Emit(e, c) == out' = [out EXCEPT ![e][c] = @ + 1]

\* Mutant: ending a call publishes nothing.
EmitEnded_Never(c, ended) == UNCHANGED out

\* CallEnded is published if the Update ended the call.
EmitEnded(c, ended) == IF ended THEN Emit("ended", c) ELSE UNCHANGED out

Fault == /\ faults < MaxFaults
         /\ faults' = faults + 1

-----------------------------------------------------------------------------
(* Creating a call *)

Init ==
    /\ mode = [c \in Calls |-> "none"]
    /\ caller = [c \in Calls |-> NoUser]
    /\ state = [c \in Calls |-> "none"]
    /\ part = [c \in Calls |-> [u \in Users |-> "absent"]]
    /\ started = {}
    /\ byUser = [u \in Users |-> {}]
    /\ timer = [c \in Calls |-> "off"]
    /\ creating = {}
    /\ resumes = {}
    /\ out = [e \in Events |-> [c \in Calls |-> 0]]
    /\ seen = [e \in Events |-> [c \in Calls |-> 0]]
    /\ notified = {}
    /\ faults = 0

\* The participants of a new call: the caller has accepted, the callees ring,
\* and a callee that is the caller is skipped.
InitialParticipants(u, callees) ==
    [v \in Users |-> IF v = u THEN "accepted"
                     ELSE IF v \in callees THEN "ringing" ELSE "absent"]

\* Service.Create: validate, Put, publish created and ringing, start the timer
\* goroutine.  Orchestrator.Create then waits for EnsureRoom when the
\* transport is the SFU.
Create(c, u, callees, m) ==
    /\ ~Found(c)
    /\ callees # {}
    /\ m = "direct" => \E v \in Users : callees = {v}
    /\ mode' = [mode EXCEPT ![c] = m]
    /\ caller' = [caller EXCEPT ![c] = u]
    /\ Store(c, "ringing", InitialParticipants(u, callees))
    /\ timer' = [timer EXCEPT ![c] = "armed"]
    /\ creating' = IF m = "group" THEN creating \cup {c} ELSE creating
    /\ UNCHANGED <<started, resumes, out, seen, notified, faults>>

\* EnsureRoom succeeds and Create returns the call.
RoomReady(c) ==
    /\ c \in creating
    /\ creating' = creating \ {c}
    /\ UNCHANGED <<callVars, byUser, timer, resumes, out, seen, notified, faults>>

\* EnsureRoom fails: Service.Fail.  A call that has ended meanwhile keeps its
\* state, but CallFailed is published all the same.
Fail(c) ==
    /\ RoomMayFail
    /\ c \in creating
    /\ creating' = creating \ {c}
    /\ Store(c, IF IsTerminal(c) THEN state[c] ELSE "failed", part[c])
    /\ Emit("failed", c)
    /\ UNCHANGED <<mode, caller, started, timer, resumes, seen, notified, faults>>

\* EnsureRoom fails because the request's context is done; the Update of Fail
\* uses the same context, returns its error and changes nothing.
FailAfterDisconnect(c) ==
    /\ RoomMayFail
    /\ RoomReady(c)

-----------------------------------------------------------------------------
(* The ring timer: scheduleTimeout *)

\* Mutants: no errSkip; the test inverted.
TimerSkips_Never(c) == FALSE
TimerSkips_Inverted(c) == state[c] = "ringing"

\* The closure's errSkip.
TimerSkips(c) == state[c] # "ringing"

\* The timer fires and runs its Update; errSkip leaves the call alone.
RingTimeout(c) ==
    /\ timer[c] = "armed"
    /\ IF TimerSkips(c)
       THEN /\ timer' = [timer EXCEPT ![c] = "off"]
            /\ UNCHANGED <<state, part, byUser>>
       ELSE /\ Store(c, "timeout", Silenced(part[c]))
            /\ timer' = [timer EXCEPT ![c] = "fired"]
    /\ UNCHANGED <<mode, caller, started, creating, resumes, out, seen, notified, faults>>

\* After a successful Update: publish CallEnded and run the timeout handler,
\* which requests the cancel push.
RingTimeoutNotify(c) ==
    /\ timer[c] = "fired"
    /\ timer' = [timer EXCEPT ![c] = "off"]
    /\ Emit("ended", c)
    /\ notified' = notified \cup {c}
    /\ UNCHANGED <<callVars, byUser, creating, resumes, seen, faults>>

\* The Update fails for another reason (store unreachable, or 20 lost
\* optimistic races): the goroutine returns and nothing retries.
RingTimeoutStoreError(c) ==
    /\ timer[c] = "armed"
    /\ Fault
    /\ timer' = [timer EXCEPT ![c] = "off"]
    /\ UNCHANGED <<callVars, byUser, creating, resumes, out, seen, notified>>

-----------------------------------------------------------------------------
(* The operations of participants *)

\* What Accept stores: the user has accepted; in a direct call every ringing
\* participant other than the user and the caller is disconnected.
Accepted(c, u) ==
    [v \in Users |->
        IF v = u THEN "accepted"
        ELSE IF mode[c] = "direct" /\ v # caller[c] /\ part[c][v] \in Ringing
             THEN "disconnected" ELSE part[c][v]]

\* Mutant: the IsTerminal test is missing.
CanAccept_Ended(c) == state[c] \notin {"none", "connected"}

\* Accept refuses an ended call and one that is connected.
CanAccept(c) == state[c] \in {"ringing", "accepted", "connecting"}

Accept(c, u) ==
    /\ CanAccept(c)
    /\ FindParticipant(c, u)
    /\ Store(c, "accepted", Accepted(c, u))
    /\ UNCHANGED <<mode, caller, started, timer, creating, resumes, out, seen,
                   notified, faults>>

Reject(c, u) ==
    /\ Found(c) /\ ~IsTerminal(c)
    /\ FindParticipant(c, u)
    /\ Store(c, IF mode[c] = "direct" THEN "rejected" ELSE state[c],
             [part[c] EXCEPT ![u] = "rejected"])
    /\ EmitEnded(c, mode[c] = "direct")
    /\ UNCHANGED <<mode, caller, started, timer, creating, resumes, seen,
                   notified, faults>>

Cancel(c, u) ==
    /\ Found(c) /\ ~IsTerminal(c)
    /\ caller[c] = u
    /\ Store(c, "cancelled", Silenced(part[c]))
    /\ EmitEnded(c, TRUE)
    /\ UNCHANGED <<mode, caller, started, timer, creating, resumes, seen,
                   notified, faults>>

\* Anyone may join a group call; a direct call only its participants.
CanJoin(c, u) == FindParticipant(c, u) \/ mode[c] = "group"

Join(c, u) ==
    /\ Found(c) /\ ~IsTerminal(c)
    /\ CanJoin(c, u)
    /\ Store(c, IF state[c] \in {"accepted", "ringing"} THEN "connecting" ELSE state[c],
             [part[c] EXCEPT ![u] = "connecting"])
    /\ UNCHANGED <<mode, caller, started, timer, creating, resumes, out, seen,
                   notified, faults>>

MarkConnected(c, u) ==
    /\ MediaReports
    /\ Found(c) /\ ~IsTerminal(c)
    /\ FindParticipant(c, u)
    /\ Store(c, IF c \in started THEN state[c] ELSE "connected",
             [part[c] EXCEPT ![u] = "connected"])
    /\ started' = started \cup {c}
    /\ UNCHANGED <<mode, caller, timer, creating, resumes, out, seen, notified, faults>>

\* Mutant: a direct call is treated like a group call.
Ends_NotDirect(c, ps, endCall) == endCall \/ \A v \in Users : ps[v] \notin Active

\* endForUser ends the call if endCall, if it is direct, or if nobody active
\* is left.
Ends(c, ps, endCall) ==
    endCall \/ mode[c] = "direct" \/ \A v \in Users : ps[v] \notin Active

EndForUser(c, u, endCall) ==
    LET ps == [part[c] EXCEPT ![u] = "left"]
        ends == Ends(c, ps, endCall)
    IN  /\ Found(c) /\ ~IsTerminal(c)
        /\ FindParticipant(c, u)
        /\ Store(c, IF ends THEN "ended" ELSE state[c], ps)
        /\ EmitEnded(c, ends)
        /\ UNCHANGED <<mode, caller, started, timer, creating, resumes, seen,
                       notified, faults>>

Leave(c, u) == EndForUser(c, u, FALSE)
Hangup(c, u) == EndForUser(c, u, TRUE)

-----------------------------------------------------------------------------
(* Resume: a check on a snapshot, then an Update that does not repeat it *)

ResumeCheck(c, u) ==
    /\ Found(c)
    /\ FindParticipant(c, u)
    /\ ~IsTerminal(c)
    /\ resumes' = resumes \cup {<<c, u>>}
    /\ UNCHANGED <<callVars, byUser, timer, creating, out, seen, notified, faults>>

\* The closure of Resume's Update.
Resumed(ps, u) ==
    [ps EXCEPT ![u] = IF @ \in {"disconnected", "reconnecting", "connected"}
                      THEN "reconnecting" ELSE @]

ResumeUpdate(c, u) ==
    /\ <<c, u>> \in resumes
    /\ resumes' = resumes \ {<<c, u>>}
    /\ Store(c, state[c], Resumed(part[c], u))
    /\ UNCHANGED <<mode, caller, started, timer, creating, out, seen, notified, faults>>

-----------------------------------------------------------------------------
(* Events, crashes and lost replies *)

\* The bus runs the hub's onEvent in a goroutine of its own, so the events of
\* concurrent operations are counted in any order.
OnEvent(e, c) ==
    /\ out[e][c] > 0
    /\ out' = [out EXCEPT ![e][c] = @ - 1]
    /\ seen' = [seen EXCEPT ![e][c] = @ + 1]
    /\ UNCHANGED <<callVars, byUser, timer, creating, resumes, notified, faults>>

\* The store applied the Update but its reply was lost: the operation returns
\* the error and publishes nothing.
ReplyLost(c) ==
    /\ Fault
    /\ \/ \E e \in Events : /\ out[e][c] > 0
                            /\ out' = [out EXCEPT ![e][c] = @ - 1]
                            /\ UNCHANGED timer
       \/ /\ timer[c] = "fired"
          /\ timer' = [timer EXCEPT ![c] = "off"]
          /\ UNCHANGED out
    /\ UNCHANGED <<callVars, byUser, creating, resumes, seen, notified>>

\* The process dies: the calls survive in Redis, the timer goroutines, the
\* requests in progress and the in-process bus do not.
Crash ==
    /\ Fault
    /\ timer' = [c \in Calls |-> "off"]
    /\ creating' = {}
    /\ resumes' = {}
    /\ out' = [e \in Events |-> [c \in Calls |-> 0]]
    /\ UNCHANGED <<callVars, byUser, seen, notified>>

-----------------------------------------------------------------------------
(* Specification *)

CallNext(c) ==
    \/ \E u \in Users, callees \in SUBSET Users, m \in {"direct", "group"} :
            Create(c, u, callees, m)
    \/ RoomReady(c)
    \/ Fail(c)
    \/ FailAfterDisconnect(c)
    \/ RingTimeout(c)
    \/ RingTimeoutNotify(c)
    \/ RingTimeoutStoreError(c)
    \/ \E e \in Events : OnEvent(e, c)
    \/ ReplyLost(c)

UserNext(c, u) ==
    \/ Accept(c, u)
    \/ Reject(c, u)
    \/ Cancel(c, u)
    \/ Join(c, u)
    \/ MarkConnected(c, u)
    \/ Leave(c, u)
    \/ Hangup(c, u)
    \/ ResumeCheck(c, u)
    \/ ResumeUpdate(c, u)

Next ==
    \/ \E c \in Calls : CallNext(c)
    \/ \E c \in Calls, u \in Users : UserNext(c, u)
    \/ Crash

Spec == Init /\ [][Next]_vars

\* Timers expire and goroutines that are ready run; users need not act.
Fairness ==
    \A c \in Calls :
        /\ WF_vars(RingTimeout(c))
        /\ WF_vars(RingTimeoutNotify(c))
        /\ \A e \in Events : WF_vars(OnEvent(e, c))

FairSpec == Spec /\ Fairness

-----------------------------------------------------------------------------
(* Queries *)

\* ListActiveForUser: the index, filtered by what the store says now.
ListActiveForUser(u) == {c \in byUser[u] : Found(c) /\ ~IsTerminal(c)}

Participants(c) == {u \in Users : FindParticipant(c, u)}

-----------------------------------------------------------------------------
(* Safety *)

\* A timed out or cancelled call rings nobody: neither a late Resume nor any
\* other operation puts a silenced participant back to ringing.
NoRingAfterStop ==
    \A c \in Calls : state[c] \in {"timeout", "cancelled"} =>
        \A u \in Users : part[c][u] \notin Ringing

\* A direct call ends with the first departure: while it is live, no
\* participant has left or rejected, whatever order the operations came in.
DirectNobodyGone ==
    \A c \in Calls : mode[c] = "direct" /\ state[c] \in Live =>
        \A u \in Users : part[c][u] \notin {"left", "rejected"}

\* Once media has started (StartedAt), the call is "connected" until it ends:
\* a late Accept or Join of another participant does not take it back.
StartedStaysConnected ==
    \A c \in started : state[c] \in Terminal \cup {"connected"}

\* A user who authenticates is told of every live call he is in, and of no
\* other: the index follows the participants Join adds.
IndexComplete ==
    \A u \in Users :
        ListActiveForUser(u) = {c \in Calls : state[c] \in Live /\ FindParticipant(c, u)}

\* Unless a crash or a store error intervened, a ringing call has a timer that
\* will end the ringing.
RingingHasTimer ==
    faults = 0 => \A c \in Calls : state[c] = "ringing" => timer[c] = "armed"

\* The CallEnded events of c: counted, on their way, or owed by the timer.
EndedEvents(c) ==
    seen["ended"][c] + out["ended"][c] + (IF timer[c] = "fired" THEN 1 ELSE 0)

\* A call that ended is announced by exactly one CallEnded, and one that did
\* not by none, whatever races with the ring timer; faults can only lose it.
EndedOnce ==
    \A c \in Calls :
        /\ EndedEvents(c) <= 1
        /\ EndedEvents(c) = 1 => state[c] \in Terminal \ {"failed"}
        /\ faults = 0 /\ state[c] \in Terminal \ {"failed"} => EndedEvents(c) = 1

\* An ended call keeps its final state for ever: no operation, timer or late
\* room failure changes a terminal state.
TerminalAbsorbing ==
    [][\A c \in Calls : IsTerminal(c) => state'[c] = state[c]]_vars

\* The Resume that checked before the call ended and updates after it may only
\* mark a dropped or connected participant as reconnecting; everything else
\* about an ended call's participants is final.
EndedParticipantsFinal ==
    [][\A c \in Calls, u \in Users : IsTerminal(c) =>
          \/ part'[c][u] = part[c][u]
          \/ /\ part[c][u] \in {"disconnected", "connected"}
             /\ part'[c][u] = "reconnecting"]_vars

\* Nobody is ever added to a direct call.
DirectStaysPrivate ==
    [][\A c \in Calls : mode[c] = "direct" => Participants(c)' = Participants(c)]_vars

-----------------------------------------------------------------------------
(* The inductive invariant behind the safety properties *)

\* Nothing refers to a call that has not been created.
Fresh ==
    \A c \in Calls : state[c] = "none" =>
        /\ mode[c] = "none" /\ c \notin creating
        /\ \A u \in Users : part[c][u] = "absent" /\ <<c, u>> \notin resumes

\* The index lists exactly the participants: neither is ever removed.
IndexExact ==
    \A c \in Calls, u \in Users : c \in byUser[u] <=> FindParticipant(c, u)

Inv ==
    /\ TypeOK
    /\ Fresh
    /\ IndexExact
    /\ NoRingAfterStop
    /\ DirectNobodyGone
    /\ StartedStaysConnected
    /\ RingingHasTimer
    /\ EndedOnce

-----------------------------------------------------------------------------
(* The runtime implements CallLifecycle *)

Phase(s) == CASE s = "none" -> "none"
              [] s = "ringing" -> "ringing"
              [] s \in Terminal -> "over"
              [] OTHER -> "live"

Lifecycle == INSTANCE CallLifecycle
                WITH phase <- [c \in Calls |-> Phase(state[c])],
                     announced <- {c \in Calls : seen["ended"][c] > 0}

\* Every operation, timer step, event delivery, crash and late Resume is a step
\* of the abstract lifecycle or leaves it alone.
ImplementsLifecycle == Lifecycle!Spec

\* How a call stands for CallOutcome.
Standing(s) == CASE s \in {"none", "ringing", "cancelled", "timeout", "failed"} -> s
                 [] s \in {"ended", "rejected"} -> "ended"
                 [] OTHER -> "answered"

Outcome == INSTANCE CallOutcome
              WITH phase <- [c \in Calls |-> Standing(state[c])],
                   members <- [c \in Calls |-> Participants(c)],
                   waiting <- creating,
                   fired <- {c \in Calls : timer[c] = "fired"}

\* To those who only ask who is in a call and how it ended, as the bridge to push
\* does, the runtime looks like CallOutcome: nobody drops out of a call, it ends
\* once, and the timer ends it only while it rings.
ImplementsOutcome == Outcome!OutcomeSpec

-----------------------------------------------------------------------------
(* Liveness *)

\* No call rings for ever (scheduleTimeout), unless a crash or a store error came
\* in between: then its timer may be gone.
RingingEnds ==
    \A c \in Calls : state[c] = "ringing" ~> state[c] # "ringing" \/ faults > 0

\* Every call that ends, other than by a failed room, is counted by the hub
\* (onEvent), unless a crash or a store error lost the event.
EndsAreCounted ==
    \A c \in Calls :
        state[c] \in Terminal \ {"failed"} ~> seen["ended"][c] = 1 \/ faults > 0

=============================================================================
