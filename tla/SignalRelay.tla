---------------------------- MODULE SignalRelay ----------------------------
(***************************************************************************)
(* Signaling of one call between its participants, and the catch-up of a   *)
(* participant who reconnects: relaySignaling and handleResume of          *)
(* internal/signaling/websocket/hub.go with the operation log              *)
(* (internal/oplog).                                                       *)
(*                                                                         *)
(* A user has one connection at a time, whose readPump handles a message   *)
(* before it reads the next.  A handler interleaves with others between    *)
(* its commands to Redis: the three of Append are a pipeline, which is     *)
(* sent at once and not run at once.  Signals are numbered in the order in *)
(* which they are accepted; Notice is any other envelope.  The rate        *)
(* limiter may refuse a message at any time.                               *)
(***************************************************************************)
EXTENDS Naturals, FiniteSets, Sequences, SequencesExt

CONSTANTS
    Users,       \* the participants of the call
    Talkers,     \* bound on the participants who send signals
    Roamers,     \* bound on those who lose their connection and resume
    MaxSignals,  \* bound on signals
    MaxLog,      \* maxOplogSize (200)
    ChanSize,    \* buffer of a subscription's channel (64)
    SendBuf,     \* buffer of a connection's send channel (128)
    MaxFaults    \* bound on failed or broken commands to Redis

ASSUME RelayAssumption ==
    /\ Talkers \subseteq Users /\ Roamers \subseteq Users
    /\ MaxSignals \in Nat /\ MaxFaults \in Nat
    /\ {MaxLog, ChanSize, SendBuf} \subseteq Nat \ {0}

VARIABLES
    link,        \* link[u]: u's connection is off, its SUBSCRIBE is pending or live
    pc,          \* pc[u]: what the handler of u's connection does next
    cur,         \* cur[u]: the signal or Notice that it routes
    to,          \* to[u]: the participants it has not yet routed that to
    replay,      \* replay[u]: what a resume has read and not yet sent
    caughtUp,    \* users whose connection has read the log
    chan,        \* chan[u]: the channel of u's subscription
    queue,       \* queue[u]: the send channel of u's connection
    seen,        \* seen[u]: signals that have reached the client of u
    log, ttl,    \* the list in Redis, and whether it has a time to live
    senders,     \* senders[s]: who sent signal s
    past,        \* signals whose Append has returned
    gaps,        \* gaps[u]: signals that were lost for u since it read the log
    faults

linkVars == <<link, caughtUp>>
handlerVars == <<pc, cur, to, replay>>
pathVars == <<chan, queue, seen>>
logVars == <<log, ttl>>
vars == <<link, pc, cur, to, replay, caughtUp, chan, queue, seen, log, ttl, senders, past,
          gaps, faults>>

Signals == 1..MaxSignals
Notice == 0
Envelopes == Signals \cup {Notice}
Sent == DOMAIN senders

TypeOK ==
    /\ link \in [Users -> {"off", "pending", "live"}]
    /\ pc \in [Users -> {"idle", "push", "trim", "expire", "route", "read", "replay"}]
    /\ cur \in [Users -> Envelopes]
    /\ to \in [Users -> SUBSET Users]
    /\ replay \in [Users -> Seq(Signals)]
    /\ chan \in [Users -> Seq(Envelopes)] /\ queue \in [Users -> Seq(Envelopes)]
    /\ \A u \in Users : Len(chan[u]) <= ChanSize /\ Len(queue[u]) <= SendBuf
    /\ caughtUp \in SUBSET Users
    /\ seen \in [Users -> SUBSET Signals]
    /\ log \in Seq(Signals) /\ ttl \in BOOLEAN
    /\ senders \in Seq(Talkers) /\ Len(senders) <= MaxSignals
    /\ past \in SUBSET Sent
    /\ gaps \in [Users -> SUBSET Signals]
    /\ faults \in 0..MaxFaults

Init ==
    /\ link = [u \in Users |-> "live"]
    /\ pc = [u \in Users |-> "idle"]
    /\ cur = [u \in Users |-> Notice]
    /\ to = [u \in Users |-> {}]
    /\ replay = [u \in Users |-> <<>>]
    /\ caughtUp = Users
    /\ chan = [u \in Users |-> <<>>]
    /\ queue = [u \in Users |-> <<>>]
    /\ seen = [u \in Users |-> {}]
    /\ log = <<>> /\ ttl = FALSE
    /\ senders = <<>>
    /\ past = {}
    /\ gaps = [u \in Users |-> {}]
    /\ faults = 0

Goto(u, p) == pc' = [pc EXCEPT ![u] = p]
Lost(u, s) == gaps' = [gaps EXCEPT ![u] = @ \cup ({s} \ (seen[u] \cup {Notice}))]
Fault == faults < MaxFaults /\ faults' = faults + 1

-----------------------------------------------------------------------------
(* Channels *)

\* Conn.Send: a full send channel drops the envelope.
SendTo(u, e) ==
    IF Len(queue[u]) < SendBuf
    THEN /\ queue' = [queue EXCEPT ![u] = Append(@, e)]
         /\ UNCHANGED gaps
    ELSE /\ Lost(u, e)
         /\ UNCHANGED queue

\* PUBLISH on the topic of v.  Who is not subscribed yet and has read the log
\* already will not see the event; who is away will find it in the log.
Publish(v, e) ==
    IF link[v] = "live" /\ Len(chan[v]) < ChanSize
    THEN chan' = [chan EXCEPT ![v] = Append(@, e)] /\ UNCHANGED gaps
    ELSE /\ IF link[v] = "live" \/ (link[v] = "pending" /\ v \in caughtUp)
            THEN Lost(v, e) ELSE UNCHANGED gaps
         /\ UNCHANGED chan

\* dispatchUserEvents hands the next event to the connection.
Dispatch(u) ==
    /\ chan[u] # <<>>
    /\ chan' = [chan EXCEPT ![u] = Tail(@)]
    /\ SendTo(u, Head(chan[u]))
    /\ UNCHANGED <<linkVars, handlerVars, seen, logVars, senders, past, faults>>

\* writePump: the next envelope reaches the client.
Write(u) ==
    /\ queue[u] # <<>>
    /\ queue' = [queue EXCEPT ![u] = Tail(@)]
    /\ seen' = [seen EXCEPT ![u] = @ \cup ({Head(queue[u])} \ {Notice})]
    /\ UNCHANGED <<linkVars, handlerVars, chan, logVars, senders, past, gaps, faults>>

-----------------------------------------------------------------------------
(* Connections *)

\* The client is gone: what is on its way to it is lost with the connection.
Disconnect(u) ==
    /\ u \in Roamers
    /\ link[u] # "off" /\ pc[u] = "idle"
    /\ link' = [link EXCEPT ![u] = "off"]
    /\ caughtUp' = caughtUp \ {u}
    /\ chan' = [chan EXCEPT ![u] = <<>>]
    /\ queue' = [queue EXCEPT ![u] = <<>>]
    /\ gaps' = [gaps EXCEPT ![u] = {}]
    /\ UNCHANGED <<handlerVars, seen, logVars, senders, past, faults>>

\* A new connection has authenticated; Redis has not carried out its SUBSCRIBE.
Connect(u) ==
    /\ link[u] = "off"
    /\ link' = [link EXCEPT ![u] = "pending"]
    /\ UNCHANGED <<caughtUp, handlerVars, pathVars, logVars, senders, past, gaps, faults>>

\* Redis carries out the SUBSCRIBE.
Subscribed(u) ==
    /\ link[u] = "pending"
    /\ link' = [link EXCEPT ![u] = "live"]
    /\ UNCHANGED <<caughtUp, handlerVars, pathVars, logVars, senders, past, gaps, faults>>

-----------------------------------------------------------------------------
(* Relay *)

\* handle refuses a message: RATE_LIMITED.
Refused(u) ==
    /\ pc[u] = "idle" /\ link[u] # "off"
    /\ SendTo(u, Notice)
    /\ UNCHANGED <<linkVars, handlerVars, chan, seen, logVars, senders, past, faults>>

\* Mutants: the signal is routed first and logged afterwards; EXPIRE comes
\* first, when the list may not exist.
After_RouteFirst(p) ==
    CASE p = "idle" -> "route" [] p = "route" -> "push" [] p = "push" -> "trim"
      [] p = "trim" -> "expire" [] p = "expire" -> "idle"
After_ExpireFirst(p) ==
    CASE p = "idle" -> "expire" [] p = "expire" -> "push" [] p = "push" -> "trim"
      [] p = "trim" -> "route" [] p = "route" -> "idle"

\* relaySignaling logs a signal (RPUSH, LTRIM, EXPIRE), then routes it.
After(p) ==
    CASE p = "idle" -> "push" [] p = "push" -> "trim" [] p = "trim" -> "expire"
      [] p = "expire" -> "route" [] p = "route" -> "idle"

\* relaySignaling: the call is found and u is a participant.
RelaySignaling(u) ==
    /\ u \in Talkers
    /\ link[u] # "off" /\ pc[u] = "idle"
    /\ Len(senders) < MaxSignals
    /\ senders' = Append(senders, u)
    /\ cur' = [cur EXCEPT ![u] = Len(senders) + 1]
    /\ to' = [to EXCEPT ![u] = Users \ {u}]
    /\ Goto(u, After("idle"))
    /\ UNCHANGED <<linkVars, replay, pathVars, logVars, past, gaps, faults>>

\* LTRIM keeps the last MaxLog entries.
Trimmed(l) == IF Len(l) <= MaxLog THEN l ELSE SubSeq(l, Len(l) - MaxLog + 1, Len(l))

\* One command of the pipeline.  EXPIRE of a list that is gone does nothing.
LogStep(u) ==
    /\ \/ pc[u] = "push" /\ log' = Append(log, cur[u]) /\ UNCHANGED ttl
       \/ pc[u] = "trim" /\ log' = Trimmed(log) /\ UNCHANGED ttl
       \/ pc[u] = "expire" /\ ttl' = (log # <<>>) /\ UNCHANGED log
    /\ past' = IF pc[u] = "expire" THEN past \cup {cur[u]} ELSE past
    /\ Goto(u, After(pc[u]))
    /\ UNCHANGED <<linkVars, cur, to, replay, pathVars, senders, gaps, faults>>

\* Append fails, wherever the pipeline broke off: the error is ignored.
AppendFails(u) ==
    /\ Fault
    /\ pc[u] \in {"push", "trim", "expire"}
    /\ past' = past \cup {cur[u]}
    /\ Goto(u, "route")
    /\ UNCHANGED <<linkVars, cur, to, replay, pathVars, logVars, senders, gaps>>

\* What the handler does when it has routed an envelope to everybody.
Routed(u, left) ==
    IF left # {} THEN UNCHANGED <<pc, cur>>
    ELSE LET next == IF cur[u] = Notice THEN "read" ELSE After("route") IN
         /\ Goto(u, next)
         /\ cur' = IF next = "idle" THEN [cur EXCEPT ![u] = Notice] ELSE cur

\* sendToUser, for the next participant.  If PUBLISH fails the envelope is
\* delivered on the node of u, where v may be connected or not.
Route(u, v) ==
    /\ pc[u] = "route" /\ v \in to[u]
    /\ \/ Publish(v, cur[u]) /\ UNCHANGED <<queue, faults>>
       \/ /\ Fault
          /\ \/ link[v] # "off" /\ SendTo(v, cur[u])
             \/ Lost(v, cur[u]) /\ UNCHANGED queue
          /\ UNCHANGED chan
    /\ to' = [to EXCEPT ![u] = @ \ {v}]
    /\ Routed(u, to[u] \ {v})
    /\ UNCHANGED <<linkVars, replay, seen, logVars, senders, past>>

\* The list expires: three minutes without a signal, or a slow pipeline.
LogExpires ==
    /\ ttl
    /\ log' = <<>>
    /\ ttl' = FALSE
    /\ UNCHANGED <<linkVars, handlerVars, pathVars, senders, past, gaps, faults>>

-----------------------------------------------------------------------------
(* Resume *)

\* handleResume: ResumeFull found the call, call.state is sent, and the call is
\* broadcast to all participants.
Resume(u) ==
    /\ u \in Roamers
    /\ link[u] # "off" /\ pc[u] = "idle"
    /\ SendTo(u, Notice)
    /\ cur' = [cur EXCEPT ![u] = Notice]
    /\ to' = [to EXCEPT ![u] = Users]
    /\ Goto(u, "route")
    /\ UNCHANGED <<linkVars, replay, chan, seen, logVars, senders, past, faults>>

\* A signal is replayed to those who did not send it.
Foreign(u, s) == senders[s] # u

\* GetRecent: what is not in the log by now is not made up for.
GetRecent(u) ==
    /\ pc[u] = "read"
    /\ replay' = [replay EXCEPT ![u] = log]
    /\ caughtUp' = caughtUp \cup {u}
    /\ gaps' = [gaps EXCEPT ![u] = {s \in past \ (ToSet(log) \cup seen[u]) : senders[s] # u}]
    /\ Goto(u, "replay")
    /\ UNCHANGED <<link, cur, to, pathVars, logVars, senders, past, faults>>

\* LRANGE fails: a warning, and no catch-up.
GetRecentFails(u) ==
    /\ Fault
    /\ pc[u] = "read"
    /\ Goto(u, "idle")
    /\ UNCHANGED <<linkVars, cur, to, replay, pathVars, logVars, senders, past, gaps>>

\* The loop over the entries; an entry that does not fit is dropped.
Replay(u) ==
    /\ pc[u] = "replay"
    /\ IF replay[u] = <<>>
       THEN Goto(u, "idle") /\ UNCHANGED <<replay, queue, gaps>>
       ELSE /\ replay' = [replay EXCEPT ![u] = Tail(@)]
            /\ IF Foreign(u, Head(replay[u])) THEN SendTo(u, Head(replay[u]))
               ELSE UNCHANGED <<queue, gaps>>
            /\ UNCHANGED pc
    /\ UNCHANGED <<linkVars, cur, to, chan, seen, logVars, senders, past, faults>>

-----------------------------------------------------------------------------
(* Specification *)

HandlerStep(u) ==
    \/ LogStep(u)
    \/ \E v \in Users : Route(u, v)
    \/ GetRecent(u)
    \/ Replay(u)

Next ==
    \/ \E u \in Users :
        \/ Connect(u) \/ Subscribed(u) \/ Disconnect(u)
        \/ RelaySignaling(u) \/ Refused(u) \/ Resume(u)
        \/ HandlerStep(u) \/ AppendFails(u) \/ GetRecentFails(u)
        \/ Dispatch(u) \/ Write(u)
    \/ LogExpires

Spec == Init /\ [][Next]_vars

-----------------------------------------------------------------------------
(* Safety *)

\* On its way to u: in the channel of its subscription, read by its resume, or
\* in its send channel.
Underway(u) == ToSet(chan[u]) \cup ToSet(replay[u]) \cup ToSet(queue[u])

\* Signals that have been routed to u.
RoutedTo(u) == {s \in Sent : ~\E v \in Users : cur[v] = s /\ u \in to[v]}

\* A participant who has read the log on its connection has seen, or will see,
\* every signal that was routed to it, before or after it came back.  What may
\* be missing was trimmed, expired or never logged before the log was read,
\* found a channel full, or was published before Redis subscribed the
\* connection: all that is in gaps.
NoSilentGap ==
    \A u \in caughtUp : \A s \in RoutedTo(u) :
        senders[s] # u => s \in seen[u] \cup Underway(u) \cup gaps[u]

\* No log outlives its call for good: it has a time to live, or an append that
\* will give it one.
NoOrphanLog ==
    log # <<>> /\ faults = 0 => ttl \/ \E u \in Users : pc[u] \in {"trim", "expire"}

-----------------------------------------------------------------------------
(* The inductive invariant behind them *)

\* The handler of u has not finished the pipeline of Append.
Appending(u) == pc[u] \in {"push", "trim", "expire"}

\* Who has read the log, or has a handler at work, has a connection.
Connected == \A u \in Users : u \in caughtUp \/ pc[u] # "idle" => link[u] # "off"

\* A handler has nobody left to route to, and nothing to replay, but in the steps
\* that do so, and routes its signal to nobody before Append returns.
Handling ==
    \A u \in Users :
        /\ pc[u] \in {"idle", "read", "replay"} => to[u] = {}
        /\ pc[u] # "replay" => replay[u] = <<>>
        /\ Appending(u) => cur[u] \in Sent /\ senders[cur[u]] = u /\ to[u] = Users \ {u}

\* A signal whose Append has not returned is in the hands of its handler.
Unlogged == \A s \in Sent \ past : \E u \in Users : Appending(u) /\ cur[u] = s

Inv ==
    /\ TypeOK
    /\ NoSilentGap
    /\ NoOrphanLog
    /\ Connected
    /\ Handling
    /\ Unlogged

=============================================================================
