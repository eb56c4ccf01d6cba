----------------------------- MODULE CallBridge -----------------------------
(***************************************************************************)
(* The way of a call to its users: the commands of the hub                 *)
(* (internal/signaling/websocket/hub.go) and of the HTTP API               *)
(* (internal/api/calls.go) run an operation of the call runtime through    *)
(* the orchestrator, then tell the participants over their sockets and ask *)
(* the bridge to push (internal/incomingcall) for pushes.                  *)
(*                                                                         *)
(* The calls are those of CallOutcome, which CallRuntime implements.  What *)
(* a command does after its operation is a handler: the steps it still has *)
(* to take, on the snapshot that the operation returned, in the goroutine  *)
(* of the command or in one that it starts.  Handlers interleave.  A push  *)
(* is requested when MessageService has taken it; PushQueue goes on from   *)
(* there.  Of what is sent to the sockets of a user only the end of a call *)
(* and call.stop_ringing are kept; a command that tells neither (join, a   *)
(* leave or reject that does not end the call, resume) has no handler.     *)
(***************************************************************************)
EXTENDS CallOutcome, Naturals, FiniteSets, Sequences

CONSTANTS
    Callers,     \* bound on the users who create calls
    Reachable,   \* users with an active device row: others' pushes are refused
    RoomMayFail, \* whether the SFU provider's CreateRoom can return an error
    MaxHandlers, \* bound on handlers in progress when a command starts
    MaxFaults    \* bound on crashes, lost replies and failed statements

ASSUME BridgeAssumption ==
    /\ Callers \subseteq Users /\ Reachable \subseteq Users /\ NoUser \notin Users
    /\ RoomMayFail \in BOOLEAN /\ MaxHandlers \in Nat /\ MaxFaults \in Nat

VARIABLES
    handlers,    \* what commands and timers still have to do
    invited,     \* invited[c]: the callees of the call as Create stored it
    answered,    \* answered[c]: users whose Accept succeeded
    heard,       \* <<what, c, u>>: what the sockets of u were sent about c
    pushes,      \* <<kind, c, u>>: pushes requested for u
    overtook,    \* <<c, u>>: the cancel push for u was requested with u still to be rung
    late,        \* <<c, u>>: the ring push for u was requested after the cancel push
    quiet,       \* calls that a command of the HTTP API ended
    faults

bridgeVars == <<handlers, invited, answered, heard, pushes, overtook, late, quiet, faults>>
commandVars == <<phase, caller, members, waiting, fired, handlers, invited, answered, heard, pushes,
                 overtook, late, quiet, faults>>

Ops == {"create", "timeout", "accept", "end", "cancel"}
Steps == {"broadcast", "ring", "stop", "cancel"}
Handlers == [op : Ops, call : Calls, user : Users, todo : Seq(Steps) \ {<<>>}, to : SUBSET Users]

BridgeTypeOK ==
    /\ OutcomeTypeOK
    /\ handlers \in SUBSET Handlers
    /\ invited \in [Calls -> SUBSET Users]
    /\ answered \in [Calls -> SUBSET Users]
    /\ heard \in SUBSET ({"over", "stop_ringing"} \X Calls \X Users)
    /\ pushes \in SUBSET ({"ring", "stop", "cancel"} \X Calls \X Users)
    /\ overtook \in SUBSET (Calls \X Users)
    /\ late \in SUBSET (Calls \X Users)
    /\ quiet \in SUBSET Calls
    /\ faults \in 0..MaxFaults

BridgeInit ==
    /\ OutcomeInit
    /\ handlers = {}
    /\ invited = [c \in Calls |-> {}]
    /\ answered = [c \in Calls |-> {}]
    /\ heard = {}
    /\ pushes = {}
    /\ overtook = {}
    /\ late = {}
    /\ quiet = {}
    /\ faults = 0

Fault == /\ faults < MaxFaults
         /\ faults' = faults + 1

-----------------------------------------------------------------------------
(* Commands *)

Vias == {"ws", "http"}

\* Mutant: the HTTP API requests no stop push.
Pushes_HubOnly(op, via) ==
    CASE op = "create" -> <<"ring">>
      [] op = "accept" /\ via = "ws" -> <<"stop">>
      [] op \in {"cancel", "timeout"} -> <<"cancel">>
      [] OTHER -> <<>>

\* Mutant: a call that was answered and ended is reported as cancelled, too.
Pushes_EndCancels(op, via) ==
    CASE op = "create" -> <<"ring">>
      [] op = "accept" -> <<"stop">>
      [] op \in {"end", "cancel", "timeout"} -> <<"cancel">>
      [] OTHER -> <<>>

\* The pushes that follow an operation, whichever way it came in.
Pushes(op, via) ==
    CASE op = "create" -> <<"ring">>
      [] op = "accept" -> <<"stop">>
      [] op \in {"cancel", "timeout"} -> <<"cancel">>
      [] OTHER -> <<>>

\* The hub broadcasts, the HTTP API and the timer do not; Cancel of the hub
\* pushes before it broadcasts, Accept after.
Todo(op, via) ==
    CASE via # "ws" \/ op = "create" -> Pushes(op, via)
      [] via = "ws" /\ op = "cancel" -> Pushes(op, via) \o <<"broadcast">>
      [] OTHER -> <<"broadcast">> \o Pushes(op, via)

\* The handler of an operation, on a snapshot with the participants to.
Handler(op, c, u, via, to) ==
    [op |-> op, call |-> c, user |-> u, todo |-> Todo(op, via), to |-> to]

Start(h) == handlers' = IF h.todo = <<>> THEN handlers ELSE handlers \cup {h}

\* The bound allows another command.
CanStart == Cardinality(handlers) < MaxHandlers

\* handleCallCreate and handleCreateCall, with a direct call: the command goes
\* on at once.  A group call first waits for its room.
CreateCall(c, u, callees, group, via) ==
    /\ CanStart
    /\ ~group => Cardinality(callees) = 1
    /\ Begin(c, u, callees, group)
    /\ invited' = [invited EXCEPT ![c] = callees \ {u}]
    /\ IF group THEN UNCHANGED handlers
       ELSE Start(Handler("create", c, u, via, callees \ {u}))
    /\ UNCHANGED <<answered, heard, pushes, overtook, late, quiet, faults>>

\* The room exists: Create returns the call as it was when it was stored.
CreateReturns(c, via) ==
    /\ RoomDone(c)
    /\ Start(Handler("create", c, caller[c], via, invited[c]))
    /\ UNCHANGED <<invited, answered, heard, pushes, overtook, late, quiet, faults>>

\* There is no room: the command answers with an error and tells nobody.  If the
\* request's context is done, Fail does not reach the call either.
CreateFails(c) ==
    /\ RoomMayFail
    /\ RoomFailed(c) \/ RoomDone(c)
    /\ UNCHANGED bridgeVars

\* handleAccept and handleAcceptCall.
AcceptCall(c, u, via) ==
    /\ CanStart
    /\ Answer(c, u)
    /\ answered' = [answered EXCEPT ![c] = @ \cup {u}]
    /\ Start(Handler("accept", c, u, via, {}))
    /\ UNCHANGED <<invited, heard, pushes, overtook, late, quiet, faults>>

\* call.join and handleJoinCall.
JoinCall(c, u) ==
    /\ Enroll(c, u)
    /\ UNCHANGED bridgeVars

\* wrapCall and withActor with a reject, leave or hangup that ends the call.
EndCall(c, u, via) ==
    /\ CanStart
    /\ End(c, u)
    /\ Start(Handler("end", c, u, via, members[c]))
    /\ quiet' = IF via = "http" THEN quiet \cup {c} ELSE quiet
    /\ UNCHANGED <<invited, answered, heard, pushes, overtook, late, faults>>

\* wrapCall with a cancel, and handleCancelCall.
CancelCall(c, u, via) ==
    /\ CanStart
    /\ Withdraw(c, u)
    /\ Start(Handler("cancel", c, u, via, members[c]))
    /\ quiet' = IF via = "http" THEN quiet \cup {c} ELSE quiet
    /\ UNCHANGED <<invited, answered, heard, pushes, overtook, late, faults>>

\* The ring timer ends the call.
RingTimeout(c) ==
    /\ Expire(c)
    /\ UNCHANGED bridgeVars

\* The handler that main.go gives to SetRingTimeoutHandler.
TimeoutHandler(c) ==
    /\ Handled(c)
    /\ Start(Handler("timeout", c, caller[c], "timer", members[c]))
    /\ UNCHANGED <<invited, answered, heard, pushes, overtook, late, quiet, faults>>

-----------------------------------------------------------------------------
(* Handlers *)

\* The handler h has taken its first step.
Advance(h) ==
    handlers' = (handlers \ {h}) \cup
        IF Len(h.todo) = 1 THEN {} ELSE {[h EXCEPT !.todo = Tail(@)]}

\* Mutant: only those who were called are told.
Audience_Invited(h) == h.to \cap (invited[h.call] \cup {caller[h.call]})

\* broadcastCall sends to every participant of the snapshot.
Audience(h) == h.to

\* broadcastCall sends the snapshot; after an accept, call.stop_ringing goes to
\* the other devices of the user.  The router never waits for a peer.
Broadcast(h) ==
    /\ heard' = heard \cup IF h.op = "accept" THEN {<<"stop_ringing", h.call, h.user>>}
                           ELSE {<<"over", h.call, u>> : u \in Audience(h)}
    /\ Advance(h)
    /\ UNCHANGED <<pushes, overtook, late, faults>>

\* MessageService refuses a push whose users have no device; otherwise it takes
\* it for those that have one.  A statement may fail as well.
Request(kind, c, us) ==
    \/ /\ pushes' = pushes \cup {<<kind, c, u>> : u \in us \cap Reachable}
       /\ UNCHANGED faults
    \/ Fault /\ UNCHANGED pushes

\* NotifyRinging comes to a callee for whom the cancel push has been requested.
Rings(c, u) == late \cup IF <<"cancel", c, u>> \in pushes THEN {<<c, u>>} ELSE {}

\* Mutant: the loop returns on the first error.
Ring_Return(h, u) ==
    /\ u \in h.to
    /\ Request("ring", h.call, {u})
    /\ IF h.to = {u} \/ u \notin Reachable THEN Advance(h)
       ELSE handlers' = (handlers \ {h}) \cup {[h EXCEPT !.to = @ \ {u}]}
    /\ late' = Rings(h.call, u)
    /\ UNCHANGED <<heard, overtook>>

\* NotifyRinging sends to one callee of the snapshot; an error is logged and the
\* loop goes on.
Ring(h, u) ==
    /\ u \in h.to
    /\ Request("ring", h.call, {u})
    /\ IF h.to = {u} THEN Advance(h)
       ELSE handlers' = (handlers \ {h}) \cup {[h EXCEPT !.to = @ \ {u}]}
    /\ late' = Rings(h.call, u)
    /\ UNCHANGED <<heard, overtook>>

\* The snapshot has no callee that rings: NotifyRinging returns.
RingNobody(h) ==
    /\ h.to = {}
    /\ Advance(h)
    /\ UNCHANGED <<heard, pushes, overtook, late, faults>>

\* Mutant: those who have accepted are taken to be in the call.
Notified_Unanswered(h) == h.to \ ({caller[h.call]} \cup answered[h.call])

\* NotifyCancelled: all participants but the caller.
Notified(h) == h.to \ {caller[h.call]}

\* The command that created the call has not come to callee u yet: it waits for
\* the room, or its NotifyRinging is still running.
StillToRing(c, u) ==
    \/ c \in waiting /\ u \in invited[c]
    \/ \E g \in handlers : g.call = c /\ g.op = "create" /\ u \in g.to

NotifyCancelled(h) ==
    /\ Request("cancel", h.call, Notified(h))
    /\ overtook' = overtook \cup {<<h.call, u>> : u \in {v \in Notified(h) : StillToRing(h.call, v)}}
    /\ Advance(h)
    /\ UNCHANGED <<heard, late>>

\* NotifyStopRinging: every device of the user who accepted.
NotifyStopRinging(h) ==
    /\ Request("stop", h.call, {h.user})
    /\ Advance(h)
    /\ UNCHANGED <<heard, overtook, late>>

HandlerStep(h) ==
    /\ \/ Head(h.todo) = "broadcast" /\ Broadcast(h)
       \/ Head(h.todo) = "ring" /\ (RingNobody(h) \/ \E u \in Users : Ring(h, u))
       \/ Head(h.todo) = "cancel" /\ NotifyCancelled(h)
       \/ Head(h.todo) = "stop" /\ NotifyStopRinging(h)
    /\ UNCHANGED <<outcomeVars, invited, answered, quiet>>

-----------------------------------------------------------------------------
(* Faults *)

\* The store applied an operation and its reply was lost: no handler follows.
ReplyLost(c) ==
    /\ Fault
    /\ \/ /\ \E h \in handlers :
                /\ h.call = c /\ h.op # "create"
                /\ \E via \in Vias : h.todo = Todo(h.op, via)
                /\ handlers' = handlers \ {h}
          /\ UNCHANGED outcomeVars
       \/ Handled(c) /\ UNCHANGED handlers
    /\ UNCHANGED <<invited, answered, heard, pushes, overtook, late, quiet>>

\* The process dies with its goroutines.
Crash ==
    /\ Fault
    /\ Die
    /\ handlers' = {}
    /\ UNCHANGED <<invited, answered, heard, pushes, overtook, late, quiet>>

-----------------------------------------------------------------------------
(* Specification *)

UserNext(c, u, via) ==
    \/ AcceptCall(c, u, via)
    \/ JoinCall(c, u)
    \/ EndCall(c, u, via)
    \/ CancelCall(c, u, via)

BridgeNext ==
    \/ \E c \in Calls, u \in Callers, callees \in SUBSET Users, group \in BOOLEAN, via \in Vias :
            CreateCall(c, u, callees, group, via)
    \/ \E c \in Calls, via \in Vias : CreateReturns(c, via)
    \/ \E c \in Calls : CreateFails(c) \/ RingTimeout(c) \/ TimeoutHandler(c) \/ ReplyLost(c)
    \/ \E c \in Calls, u \in Users, via \in Vias : UserNext(c, u, via)
    \/ \E h \in handlers : HandlerStep(h)
    \/ Crash

BridgeSpec == BridgeInit /\ [][BridgeNext]_commandVars

HandlersOf(c, op, u) == {h \in handlers : h.call = c /\ h.op = op /\ h.user = u}

\* Goroutines that are ready run; users need not act, and rooms need not come.
BridgeFairness ==
    \A c \in Calls :
        /\ WF_commandVars(TimeoutHandler(c))
        /\ \A op \in Ops, u \in Users : WF_commandVars(\E h \in HandlersOf(c, op, u) : HandlerStep(h))

FairBridge == BridgeSpec /\ BridgeFairness

-----------------------------------------------------------------------------
(* Safety *)

\* A user who has accepted, over a socket or over HTTP, gets the push that stops
\* his other devices, once the goroutine that requests it is done.
AnsweredElsewhere ==
    \A c \in Calls : \A u \in answered[c] \cap Reachable :
        faults = 0 /\ HandlersOf(c, "accept", u) = {} => <<"stop", c, u>> \in pushes

\* Nobody is told what is not so: a ring push goes to a callee of the call, a stop
\* to a user who has accepted, a cancel or an end to participants of a call that
\* has ended in that way, whatever happened between the command's operation and
\* the goroutine that tells.
NoFalseNotice ==
    \A c \in Calls, u \in Users :
        /\ <<"ring", c, u>> \in pushes => u \in invited[c]
        /\ <<"stop", c, u>> \in pushes \/ <<"stop_ringing", c, u>> \in heard => u \in answered[c]
        /\ <<"cancel", c, u>> \in pushes =>
               phase[c] \in {"cancelled", "timeout"} /\ u \in members[c] \ {caller[c]}
        /\ <<"over", c, u>> \in heard => phase[c] \in {"ended", "cancelled"} /\ u \in members[c]

\* Nothing is left to do for the call: no room to wait for, no timeout handler
\* to run, no command or goroutine in progress.
AtRest(c) == c \notin waiting \cup fired /\ \A h \in handlers : h.call # c

\* Without faults every callee who has a device has been rung.
RungAtRest ==
    \A c \in Calls, u \in Reachable :
        AtRest(c) /\ faults = 0 /\ ~RoomMayFail /\ u \in invited[c] => <<"ring", c, u>> \in pushes

\* The cancel push for u comes after the ring push.
CancelIsLast(c, u) == <<"cancel", c, u>> \in pushes /\ <<c, u>> \notin late

\* Without faults no phone that a cancelled or timed out call rang is left without
\* a later push that withdraws it, whoever joined or accepted meanwhile; except one
\* that was still to be rung when the cancel push was requested.
WithdrawnAtRest ==
    \A c \in Calls, u \in Users :
        AtRest(c) /\ faults = 0 /\ phase[c] \in {"cancelled", "timeout"} /\ <<"ring", c, u>> \in pushes
            => CancelIsLast(c, u) \/ <<c, u>> \in overtook

-----------------------------------------------------------------------------
(* Liveness *)

\* Every callee with a device is rung, even if the push to another one fails.
CalleesAreRung ==
    \A c \in Calls, u \in Reachable :
        (\E h \in handlers : h.call = c /\ h.op = "create" /\ u \in h.to)
            ~> (<<"ring", c, u>> \in pushes \/ faults > 0)

\* If the caller cancels or nobody answers, a ring push is followed by a cancel
\* push, whoever joined or accepted meanwhile, and no other ring push comes after
\* it.  The one exception: NotifyCancelled overtook NotifyRinging, whose goroutine
\* was still to ring this user and does not look at the call again.
RingIsWithdrawn ==
    \A c \in Calls, u \in Users :
        (<<"ring", c, u>> \in pushes /\ phase[c] \in {"cancelled", "timeout"})
            ~> (CancelIsLast(c, u) \/ <<c, u>> \in overtook \/ faults > 0)

\* Who is not told that a call is over: the HTTP API tells no socket, and the
\* timer tells neither the caller nor a callee without a device.
Untold(c, u) ==
    \/ c \in quiet
    \/ phase[c] = "timeout" /\ (u = caller[c] \/ u \notin Reachable)

\* Everyone else in a call that ends hears so on a socket or by a push: those
\* who joined after it was created too, and those who have left it.
EndIsTold ==
    \A c \in Calls, u \in Users :
        (phase[c] \in Over \ {"failed"} /\ u \in members[c])
            ~> \/ <<"over", c, u>> \in heard \/ <<"cancel", c, u>> \in pushes
               \/ Untold(c, u) \/ faults > 0

\* The same once the call is at rest: everyone in it has been told of its end.
ToldAtRest ==
    \A c \in Calls, u \in Users :
        AtRest(c) /\ faults = 0 /\ phase[c] \in Over \ {"failed"} /\ u \in members[c]
            => <<"over", c, u>> \in heard \/ <<"cancel", c, u>> \in pushes \/ Untold(c, u)

-----------------------------------------------------------------------------
(* The inductive invariant behind the safety properties *)

\* What a handler of op may still have to do: a suffix of what Todo gives it.
Plans(op) ==
    CASE op = "create" -> {<<"ring">>}
      [] op = "accept" -> {<<"broadcast", "stop">>, <<"stop">>}
      [] op = "end" -> {<<"broadcast">>}
      [] op = "cancel" -> {<<"cancel", "broadcast">>, <<"cancel">>, <<"broadcast">>}
      [] op = "timeout" -> {<<"cancel">>}

\* A room or a timeout handler is one of a call that exists, and its callees are
\* participants other than the caller.
Created ==
    \A c \in Calls :
        /\ phase[c] = "none" => invited[c] = {} /\ c \notin waiting
        /\ phase[c] # "none" => caller[c] \in Users /\ invited[c] \subseteq members[c] \ {caller[c]}
        /\ c \in fired => phase[c] = "timeout"

\* The snapshot of a handler is still right when it is used: what it is about has
\* not been undone, and nobody has entered a call that is over.
Snapshots ==
    \A h \in handlers :
        /\ h.todo \in Plans(h.op)
        /\ h.op = "create" => phase[h.call] # "none" /\ h.to \subseteq invited[h.call]
        /\ h.op = "accept" => h.user \in answered[h.call]
        /\ h.op = "end" => phase[h.call] = "ended" /\ h.to = members[h.call]
        /\ h.op = "cancel" => phase[h.call] = "cancelled" /\ h.to = members[h.call]
        /\ h.op = "timeout" => phase[h.call] = "timeout" /\ h.to = members[h.call]

\* Who rings has a device; who is to be rung has a handler or a room ahead.
Rung ==
    /\ \A c \in Calls, u \in Users : <<"ring", c, u>> \in pushes => u \in Reachable
    /\ faults = 0 /\ ~RoomMayFail =>
           \A c \in Calls : \A u \in invited[c] \cap Reachable :
               \/ <<"ring", c, u>> \in pushes
               \/ c \in waiting
               \/ \E h \in handlers : h.call = c /\ h.op = "create" /\ u \in h.to

\* A call that was cancelled or timed out has told all its participants by push, or
\* somebody still has to.
Withdrawn ==
    faults = 0 => \A c \in Calls : phase[c] \in {"cancelled", "timeout"} =>
        \/ \A u \in (members[c] \ {caller[c]}) \cap Reachable : <<"cancel", c, u>> \in pushes
        \/ c \in fired
        \/ \E h \in handlers : h.call = c /\ h.todo \in {<<"cancel", "broadcast">>, <<"cancel">>}

\* Only a cancel push that overtook a ring push is not the last.
Overtaken ==
    /\ late \subseteq overtook
    /\ \A c \in Calls, u \in Users :
           <<"cancel", c, u>> \in pushes /\ StillToRing(c, u) => <<c, u>> \in overtook

\* A call that a command ended has told all its participants by socket, or its
\* handler still has to, or the command came over HTTP.
Told ==
    faults = 0 => \A c \in Calls : phase[c] \in {"ended", "cancelled"} =>
        \/ c \in quiet
        \/ \A u \in members[c] : <<"over", c, u>> \in heard
        \/ \E h \in handlers : /\ h.call = c /\ h.op \in {"end", "cancel"}
                                /\ h.todo \in {<<"cancel", "broadcast">>, <<"broadcast">>}

BridgeInv ==
    /\ BridgeTypeOK
    /\ AnsweredElsewhere
    /\ NoFalseNotice
    /\ Created
    /\ Snapshots
    /\ Rung
    /\ Withdrawn
    /\ Overtaken
    /\ Told

=============================================================================
