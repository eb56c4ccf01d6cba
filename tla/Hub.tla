-------------------------------- MODULE Hub --------------------------------
(***************************************************************************)
(* The signaling hub of the realtime server                                *)
(* (internal/signaling/websocket/hub.go) with its connections              *)
(* (internal/signaling/connection), the Redis bus (internal/events) and    *)
(* device presence (internal/presence), on one or several nodes.           *)
(*                                                                         *)
(* Goroutines interleave between lock operations and calls to Redis.       *)
(* h.mu is held across steps only by deliverLocal, which waits for the     *)
(* mutex of one connection after another (job, at); the mutex of a         *)
(* connection is held across steps only by writePump, which waits for its  *)
(* peer (writer = "writing").  A connection may authenticate again, as     *)
(* another user too.  An event is any envelope routed to a user: the       *)
(* broadcasts of the call commands and relayed signaling, which the        *)
(* handlers of other connections route at any time, and the presence       *)
(* updates of Announce.  Without Redis every event is routed locally.      *)
(***************************************************************************)
EXTENDS Naturals, FiniteSets

CONSTANTS
    Conns, Nodes, UserIDs, Devices, Events,
    NodeOf,      \* the node a connection is made to
    Owner,       \* the user of a device: a connection authenticates for one
    NoDevice,    \* not authenticated, or an event that excepts no device
    NoSub,       \* no entry in userSubs
    Again,       \* bound on the connections that authenticate more than once
    ChanSize,    \* buffer of a subscription's channel (64)
    SendBuf,     \* buffer of a connection's send channel (128)
    PresenceExpires  \* whether presence is in Redis, under a TTL that is never renewed

ASSUME FunctionAssumption == NodeOf \in [Conns -> Nodes] /\ Owner \in [Devices -> UserIDs]
ASSUME NullAssumption == NoDevice \notin Devices /\ NoSub \notin Conns
ASSUME DisjointAssumption ==
    \A c \in Conns : <<c>> \notin Events /\ \A u \in UserIDs : <<c, u>> \notin Events
ASSUME BufferAssumption ==
    ChanSize \in Nat \ {0} /\ SendBuf \in Nat \ {0} /\ PresenceExpires \in BOOLEAN

VARIABLES
    pc,          \* pc[c]: what the readPump goroutine of c does next
    dev,         \* dev[c]: the identity of c
    left,        \* left[c]: the identities c had before it authenticated again
    byUser,      \* byUser[n][u]: the connections of u on node n
    userSubs,    \* userSubs[n][u]: the connection that made the current subscription
    sub,         \* sub[s]: the state of subscription s at Redis
    filled,      \* subscriptions whose controllers are installed: their dispatcher runs
    chan,        \* chan[s]: the events in the subscription's channel
    closing,     \* closing[c]: who made the subscription that c, which was the last, must close
    route,       \* route[e]: user and excepted device of e, once it is routed
    job,         \* job[x]: <<c, e>>: a running deliverLocal still has to offer e to c
    at,          \* at[x]: the connection that this deliverLocal has come to
    queue,       \* queue[c]: how many envelopes are in the send channel of c
    writer,      \* writer[c]: writePump is "wait"ing, "writing" with c.mu held, or "gone"
    online,      \* devices whose presence is online
    offered      \* offered[c]: events that deliverLocal has offered to c

connVars == <<pc, dev, left>>
tableVars == <<byUser, userSubs>>
subVars == <<sub, filled, chan, closing>>
jobVars == <<route, job, at>>
sendVars == <<queue, writer, offered>>
vars == <<pc, dev, left, byUser, userSubs, sub, filled, chan, closing, route, job, at, queue,
          writer, online, offered>>

\* A subscription is named by the connection that made it and its user.
Subs == Conns \X UserIDs

\* Goroutines that run deliverLocal: dispatchers, named by their subscription,
\* the readPump of a connection that announces presence, and goroutines that
\* route an event for a call, named by the event.
Announcer(c) == <<c>>
Deliverers == Subs \cup {Announcer(c) : c \in Conns} \cup Events
Routes == [user : UserIDs, except : Devices \cup {NoDevice}]

\* Positions of a connection that is in byUser.
Bound == {"reserve", "subscribe", "fill", "online", "announce", "reply", "ready"}
Positions ==
    {"new", "open", "bind", "unbind", "unsub", "offline", "farewell", "close", "closed"} \cup Bound

TypeOK ==
    /\ pc \in [Conns -> Positions]
    /\ dev \in [Conns -> Devices \cup {NoDevice}]
    /\ left \in [Conns -> SUBSET Devices]
    /\ byUser \in [Nodes -> [UserIDs -> SUBSET Conns]]
    /\ userSubs \in [Nodes -> [UserIDs -> Conns \cup {NoSub}]]
    /\ sub \in [Subs -> {"none", "requested", "live", "closed"}]
    /\ filled \in SUBSET Subs
    /\ chan \in [Subs -> SUBSET Events]
    /\ closing \in [Conns -> Conns \cup {NoSub}]
    /\ route \in [Events -> Routes \cup {<<>>}]
    /\ job \in [Deliverers -> SUBSET (Conns \X Events)]
    /\ at \in [Deliverers -> Conns \cup {NoSub}]
    /\ queue \in [Conns -> 0..SendBuf]
    /\ writer \in [Conns -> {"wait", "writing", "gone"}]
    /\ online \in SUBSET Devices
    /\ offered \in [Conns -> SUBSET Events]

Init ==
    /\ pc = [c \in Conns |-> "new"]
    /\ dev = [c \in Conns |-> NoDevice]
    /\ left = [c \in Conns |-> {}]
    /\ byUser = [n \in Nodes |-> [u \in UserIDs |-> {}]]
    /\ userSubs = [n \in Nodes |-> [u \in UserIDs |-> NoSub]]
    /\ sub = [s \in Subs |-> "none"]
    /\ filled = {}
    /\ chan = [s \in Subs |-> {}]
    /\ closing = [c \in Conns |-> NoSub]
    /\ route = [e \in Events |-> <<>>]
    /\ job = [x \in Deliverers |-> {}]
    /\ at = [x \in Deliverers |-> NoSub]
    /\ queue = [c \in Conns |-> 0]
    /\ writer = [c \in Conns |-> "wait"]
    /\ online = {}
    /\ offered = [c \in Conns |-> {}]

-----------------------------------------------------------------------------
(* Locks and helpers *)

UserOf(c) == Owner[dev[c]]
Node(c) == NodeOf[c]
OwnSub(c) == <<c, UserOf(c)>>
Goto(c, p) == pc' = [pc EXCEPT ![c] = p]

\* c.mu is free.
Unlocked(c) == writer[c] # "writing"

\* h.mu can be locked for writing: nobody on the node is inside deliverLocal.
Lockable(n) == \A x \in Deliverers : \A t \in job[x] : Node(t[1]) # n

\* Conn.Send: a closed connection and a full channel drop the envelope.
Sent(c) == IF pc[c] # "closed" /\ queue[c] < SendBuf THEN [queue EXCEPT ![c] = @ + 1] ELSE queue

-----------------------------------------------------------------------------
(* Routing an event to a user *)

\* The connections that deliverLocal serves.
Recipients(n, r) == {c \in byUser[n][r.user] : r.except = NoDevice \/ dev[c] # r.except}

\* The goroutine x still has the connections of todo to serve, and comes to one:
\* the order of a Go map is any.
Serve(x, todo) ==
    /\ job' = [job EXCEPT ![x] = todo]
    /\ \E c \in IF todo = {} THEN {NoSub} ELSE {t[1] : t \in todo} : at' = [at EXCEPT ![x] = c]

\* deliverLocal takes the read lock.
Deliver(x, e, n, r) == Serve(x, byUser[n][r.user] \X {e})

\* Redis hands the event to every live subscription of the user on any node; a
\* full channel drops it.
Publish(e, r) ==
    /\ chan' = [s \in Subs |->
                  IF sub[s] = "live" /\ s[2] = r.user /\ Cardinality(chan[s]) < ChanSize
                  THEN chan[s] \cup {e} ELSE chan[s]]
    /\ UNCHANGED <<job, at>>

\* routeToUser, by goroutine x on node n.  If Publish fails, or there is no
\* Redis, only the connections of this node get the event.
RouteToUser(x, e, n, r) ==
    /\ route[e] = <<>>
    /\ route' = [route EXCEPT ![e] = r]
    /\ \/ Publish(e, r)
       \/ Deliver(x, e, n, r) /\ UNCHANGED chan

-----------------------------------------------------------------------------
(* Connecting and authenticating *)

Register(c) ==
    /\ pc[c] = "new"
    /\ Lockable(Node(c))
    /\ Goto(c, "open")
    /\ UNCHANGED <<dev, left, tableVars, subVars, jobVars, sendVars, online>>

\* handleAuth with a valid token: SetIdentity.  A connection that is authenticated
\* may do so again; nothing is undone of what it was.
Authenticate(c, d) ==
    /\ pc[c] = "open" \/ (pc[c] = "ready" /\ c \in Again)
    /\ Unlocked(c)
    /\ dev' = [dev EXCEPT ![c] = d]
    /\ left' = [left EXCEPT ![c] = @ \cup ({dev[c]} \ {NoDevice})]
    /\ Goto(c, "bind")
    /\ UNCHANGED <<tableVars, subVars, jobVars, sendVars, online>>

BindUser(c) ==
    /\ pc[c] = "bind"
    /\ Lockable(Node(c))
    /\ byUser' = [byUser EXCEPT ![Node(c)][UserOf(c)] = @ \cup {c}]
    /\ Goto(c, "reserve")
    /\ UNCHANGED <<dev, left, userSubs, subVars, jobVars, sendVars, online>>

\* The user has an entry in userSubs already.
Reserved(c) == userSubs[Node(c)][UserOf(c)] # NoSub

\* ensureUserSubscription, under the lock: leave, or put the placeholder.
Reserve(c) ==
    /\ pc[c] = "reserve"
    /\ Lockable(Node(c))
    /\ IF Reserved(c)
       THEN Goto(c, "online") /\ UNCHANGED userSubs
       ELSE /\ userSubs' = [userSubs EXCEPT ![Node(c)][UserOf(c)] = c]
            /\ Goto(c, "subscribe")
    /\ UNCHANGED <<dev, left, byUser, subVars, jobVars, sendVars, online>>

\* SubscribeUserTopic: go-redis sends SUBSCRIBE and does not wait.
Subscribe(c) ==
    /\ pc[c] = "subscribe"
    /\ sub' = [sub EXCEPT ![OwnSub(c)] = "requested"]
    /\ Goto(c, "fill")
    /\ UNCHANGED <<dev, left, tableVars, filled, chan, closing, jobVars, sendVars, online>>

\* Redis carries the SUBSCRIBE out.
Confirm(s) ==
    /\ sub[s] = "requested"
    /\ sub' = [sub EXCEPT ![s] = "live"]
    /\ UNCHANGED <<connVars, tableVars, filled, chan, closing, jobVars, sendVars, online>>

\* Under the lock again: install the controllers and start the dispatcher, or
\* undo the subscription if the placeholder is gone.
Fill(c) ==
    /\ pc[c] = "fill"
    /\ Lockable(Node(c))
    /\ IF userSubs[Node(c)][UserOf(c)] = c
       THEN filled' = filled \cup {OwnSub(c)} /\ UNCHANGED <<sub, chan>>
       ELSE /\ sub' = [sub EXCEPT ![OwnSub(c)] = "closed"]
            /\ chan' = [chan EXCEPT ![OwnSub(c)] = {}]
            /\ UNCHANGED filled
    /\ Goto(c, "online")
    /\ UNCHANGED <<dev, left, tableVars, closing, jobVars, sendVars, online>>

SetOnline(c) ==
    /\ pc[c] = "online"
    /\ online' = online \cup {dev[c]}
    /\ Goto(c, "announce")
    /\ UNCHANGED <<dev, left, tableVars, subVars, jobVars, sendVars>>

\* broadcastPresence, after SetOnline and after SetOffline.  When the bound on
\* events is reached there is none left to announce with.
Announce(c) ==
    /\ pc[c] \in {"announce", "farewell"}
    /\ \/ \E e \in Events :
            RouteToUser(Announcer(c), e, Node(c), [user |-> UserOf(c), except |-> NoDevice])
       \/ (\A e \in Events : route[e] # <<>>) /\ UNCHANGED <<chan, jobVars>>
    /\ Goto(c, IF pc[c] = "announce" THEN "reply" ELSE "close")
    /\ UNCHANGED <<dev, left, tableVars, sub, filled, closing, sendVars, online>>

\* The "authenticated" envelope.
SendReply(c) ==
    /\ pc[c] = "reply"
    /\ job[Announcer(c)] = {}
    /\ Unlocked(c)
    /\ queue' = Sent(c)
    /\ Goto(c, "ready")
    /\ UNCHANGED <<dev, left, tableVars, subVars, jobVars, writer, offered, online>>

-----------------------------------------------------------------------------
(* Disconnecting *)

\* ReadMessage fails: the peer left or the read deadline passed.
ReadError(c) ==
    /\ pc[c] \in {"open", "ready"}
    /\ Goto(c, "unbind")
    /\ UNCHANGED <<dev, left, tableVars, subVars, jobVars, sendVars, online>>

\* Mutant: the first connection that leaves closes the subscription.
LastOfUser_Any(c) == TRUE

\* c is the last connection of its user on this node.
LastOfUser(c) == byUser[Node(c)][UserOf(c)] = {c}

\* Mutant: only the last connection is deleted from the map.
Remaining_IfLast(c) == IF LastOfUser(c) THEN {} ELSE byUser[Node(c)][UserOf(c)]

Remaining(c) == byUser[Node(c)][UserOf(c)] \ {c}

\* unregister, under the lock.
Unbind(c) ==
    LET n == Node(c)
        u == UserOf(c)
    IN
    /\ pc[c] = "unbind"
    /\ Lockable(n)
    /\ IF dev[c] = NoDevice
       THEN Goto(c, "close") /\ UNCHANGED <<tableVars, closing>>
       ELSE /\ byUser' = [byUser EXCEPT ![n][u] = Remaining(c)]
            /\ IF LastOfUser(c) /\ userSubs[n][u] # NoSub
               THEN /\ closing' = [closing EXCEPT ![c] = userSubs[n][u]]
                    /\ userSubs' = [userSubs EXCEPT ![n][u] = NoSub]
                    /\ Goto(c, "unsub")
               ELSE Goto(c, "offline") /\ UNCHANGED <<userSubs, closing>>
    /\ UNCHANGED <<dev, left, sub, filled, chan, jobVars, sendVars, online>>

\* After the unlock: cancel and cleanup, unless the placeholder is empty.
CloseSub(c) ==
    /\ pc[c] = "unsub"
    /\ LET s == <<closing[c], UserOf(c)>>
       IN  sub' = IF s \in filled THEN [sub EXCEPT ![s] = "closed"] ELSE sub
    /\ closing' = [closing EXCEPT ![c] = NoSub]
    /\ Goto(c, "offline")
    /\ UNCHANGED <<dev, left, tableVars, filled, chan, jobVars, sendVars, online>>

\* Mutant: a device stays online if another connection has, or had, its name.
Offline_OnlyLast(c) == {d \in online : \E b \in Conns \ {c} : dev[b] = d}

\* SetOffline looks at the device alone.
Offline(c) == online \ {dev[c]}

SetOffline(c) ==
    /\ pc[c] = "offline"
    /\ Unlocked(c)
    /\ online' = Offline(c)
    /\ Goto(c, "farewell")
    /\ UNCHANGED <<dev, left, tableVars, subVars, jobVars, sendVars>>

\* The socket is closed: writePump fails at its next write.
Close(c) ==
    /\ pc[c] = "close"
    /\ job[Announcer(c)] = {}
    /\ Unlocked(c)
    /\ Goto(c, "closed")
    /\ writer' = [writer EXCEPT ![c] = "gone"]
    /\ queue' = [queue EXCEPT ![c] = 0]
    /\ UNCHANGED <<dev, left, tableVars, subVars, jobVars, offered, online>>

\* The TTL of the Redis presence store runs out: nothing renews it.
ExpirePresence(d) ==
    /\ PresenceExpires
    /\ d \in online
    /\ online' = online \ {d}
    /\ UNCHANGED <<connVars, tableVars, subVars, jobVars, sendVars>>

-----------------------------------------------------------------------------
(* Delivery *)

\* The hub routes an event of a call to one of its users.
SendToUser(e, n, r) ==
    /\ RouteToUser(e, e, n, r)
    /\ UNCHANGED <<connVars, tableVars, sub, filled, closing, sendVars, online>>

\* dispatchUserEvents takes an event from its channel.  Go's select may choose
\* the channel even after the context is cancelled.
Dispatch(s, e) ==
    /\ s \in filled
    /\ job[s] = {}
    /\ e \in chan[s]
    /\ chan' = [chan EXCEPT ![s] = @ \ {e}]
    /\ Deliver(s, e, Node(s[1]), route[e])
    /\ UNCHANGED <<connVars, tableVars, sub, filled, closing, route, sendVars, online>>

\* The dispatcher sees that its context is cancelled.
StopDispatch(s) ==
    /\ s \in filled
    /\ sub[s] = "closed"
    /\ job[s] = {}
    /\ filled' = filled \ {s}
    /\ chan' = [chan EXCEPT ![s] = {}]
    /\ UNCHANGED <<connVars, tableVars, sub, closing, jobVars, sendVars, online>>

\* The connection is the device that the event is not for.
Excepted(c, e) == dev[c] = route[e].except

\* Mutant: the send waits for room.
SendTo_Blocking(x, c, e) ==
    /\ at[x] = c
    /\ <<c, e>> \in job[x]
    /\ IF Excepted(c, e) THEN UNCHANGED <<queue, offered>>
       ELSE /\ Unlocked(c)
            /\ queue[c] < SendBuf
            /\ queue' = Sent(c)
            /\ offered' = [offered EXCEPT ![c] = @ \cup {e}]
    /\ Serve(x, job[x] \ {<<c, e>>})
    /\ UNCHANGED <<connVars, tableVars, subVars, route, writer, online>>

\* deliverLocal sends to the connection it has come to, once it has that
\* connection's mutex, and goes on; the read lock is released after the last.
SendTo(x, c, e) ==
    /\ at[x] = c
    /\ <<c, e>> \in job[x]
    /\ IF Excepted(c, e) THEN UNCHANGED <<queue, offered>>
       ELSE /\ Unlocked(c)
            /\ queue' = Sent(c)
            /\ offered' = [offered EXCEPT ![c] = @ \cup {e}]
    /\ Serve(x, job[x] \ {<<c, e>>})
    /\ UNCHANGED <<connVars, tableVars, subVars, route, writer, online>>

-----------------------------------------------------------------------------
(* writePump *)

\* WriteMessage locks c.mu and writes, without a deadline.
WriteBegin(c) ==
    /\ writer[c] = "wait"
    /\ queue[c] > 0
    /\ writer' = [writer EXCEPT ![c] = "writing"]
    /\ queue' = [queue EXCEPT ![c] = @ - 1]
    /\ UNCHANGED <<connVars, tableVars, subVars, jobVars, offered, online>>

\* The peer has taken the data.
WriteEnd(c) ==
    /\ writer[c] = "writing"
    /\ writer' = [writer EXCEPT ![c] = "wait"]
    /\ UNCHANGED <<connVars, tableVars, subVars, jobVars, queue, offered, online>>

\* A write or a ping fails: writePump ends, readPump does not notice.
WriterExit(c) ==
    /\ pc[c] # "new"
    /\ writer[c] \in {"wait", "writing"}
    /\ writer' = [writer EXCEPT ![c] = "gone"]
    /\ UNCHANGED <<connVars, tableVars, subVars, jobVars, queue, offered, online>>

-----------------------------------------------------------------------------
(* Specification *)

\* The goroutine of connection c goes on by itself.
Handle(c) ==
    \/ BindUser(c) \/ Reserve(c) \/ Subscribe(c) \/ Fill(c) \/ SetOnline(c)
    \/ Announce(c) \/ SendReply(c) \/ Unbind(c) \/ CloseSub(c) \/ SetOffline(c) \/ Close(c)

ConnNext(c) ==
    \/ Register(c)
    \/ \E d \in Devices : Authenticate(c, d)
    \/ ReadError(c)
    \/ Handle(c)
    \/ WriteBegin(c) \/ WriteEnd(c) \/ WriterExit(c)

Next ==
    \/ \E c \in Conns : ConnNext(c)
    \/ \E d \in Devices : ExpirePresence(d)
    \/ \E e \in Events, n \in Nodes, r \in Routes : SendToUser(e, n, r)
    \/ \E s \in Subs : Confirm(s) \/ StopDispatch(s) \/ \E e \in Events : Dispatch(s, e)
    \/ \E x \in Deliverers, c \in Conns, e \in Events : SendTo(x, c, e)

Spec == Init /\ [][Next]_vars

\* Goroutines that can run do; peers need not do anything, not even read.
Fairness ==
    /\ \A c \in Conns : WF_vars(Handle(c)) /\ WF_vars(WriteBegin(c))
    /\ \A s \in Subs : WF_vars(\E e \in Events : Dispatch(s, e))
    /\ \A x \in Deliverers : WF_vars(\E c \in Conns, e \in Events : SendTo(x, c, e))

FairSpec == Spec /\ Fairness

-----------------------------------------------------------------------------
(* Safety *)

\* The users under whom c stays in byUser, because it has authenticated again.
LeftUsers(c) == {u \in UserIDs : \E d \in left[c] : Owner[d] = u /\ UserOf(c) # u}

\* A user with a connection on a node has a subscription there, or a connection
\* that is about to make one; a user without has none.
SubscribedWhileConnected ==
    \A n \in Nodes, u \in UserIDs :
        /\ userSubs[n][u] # NoSub => byUser[n][u] # {}
        /\ byUser[n][u] # {} => \/ userSubs[n][u] # NoSub
                                \/ \E c \in byUser[n][u] : pc[c] = "reserve" /\ UserOf(c) = u

\* A placeholder stays until it is filled: its connection is bound, so no other
\* is the last of the user.  The rollback of ensureUserSubscription never runs.
Placeholders ==
    \A c \in Conns : pc[c] \in {"subscribe", "fill"} => userSubs[Node(c)][UserOf(c)] = c

\* c has authenticated as u and will take itself out of byUser when it ends.
Holds(c, u) ==
    dev[c] # NoDevice /\ UserOf(c) = u /\ pc[c] \in Bound \cup {"bind", "unbind"}

\* No subscription outlives the connections of its user: one that Redis still
\* serves is the current one and a connection on the node that will end it is
\* there, or some connection is closing it.  The exception is a connection that
\* was this user and has authenticated as another.
NoSubscriptionLeak ==
    \A s \in Subs : sub[s] \in {"requested", "live"} =>
        \/ /\ userSubs[Node(s[1])][s[2]] = s[1]
           /\ \E c \in Conns :
                Node(c) = Node(s[1]) /\ (Holds(c, s[2]) \/ s[2] \in LeftUsers(c))
        \/ \E c \in Conns : pc[c] = "unsub" /\ closing[c] = s[1] /\ UserOf(c) = s[2]

\* Nobody stays online who is not connected: a device that is online has a
\* connection that will set it offline, unless a connection that was this device
\* has authenticated as another.
NoGhostOnline ==
    \A d \in online : \E c \in Conns :
        IF dev[c] = d THEN pc[c] \notin {"farewell", "close", "closed"} ELSE d \in left[c]

-----------------------------------------------------------------------------
(* The inductive invariant behind them *)

\* A connection has an identity from its authentication on.
Identities ==
    \A c \in Conns :
        /\ pc[c] \in {"new", "open"} => dev[c] = NoDevice
        /\ pc[c] \in {"bind", "unsub", "offline", "farewell"} \cup Bound => dev[c] # NoDevice
        /\ dev[c] = NoDevice => left[c] = {}

\* Positions of a connection that has been taken out of byUser.
Done == {"unsub", "offline", "farewell", "close", "closed"}

\* The routing table has the connections that are authenticated and not yet
\* removed, and those that were the user before they authenticated again.
RoutingTable ==
    \A c \in Conns, n \in Nodes, u \in UserIDs :
        c \in byUser[n][u] <=>
            /\ n = Node(c) /\ dev[c] # NoDevice
            /\ \/ u = UserOf(c) /\ pc[c] \in Bound \cup {"unbind"}
               \/ u \in LeftUsers(c)
               \/ u = UserOf(c) /\ pc[c] = "bind" /\ \E d \in left[c] : Owner[d] = u

\* The entry of userSubs was made by a connection of that node that is the user's
\* or has been, and is a placeholder that is being filled, or has its dispatcher.
Entries ==
    \A n \in Nodes, u \in UserIDs, s \in Conns : userSubs[n][u] = s =>
        /\ n = Node(s) /\ dev[s] # NoDevice
        /\ s \in byUser[n][u] \/ (UserOf(s) = u /\ pc[s] \in Done)
        /\ (UserOf(s) = u /\ pc[s] \in {"subscribe", "fill"}) \/ <<s, u>> \in filled
        /\ sub[<<s, u>>] # "closed"

\* A connection makes one subscription for a user: it is the user's current one
\* until the connection is done.
Once ==
    \A s \in Conns, u \in UserIDs : sub[<<s, u>>] # "none" \/ <<s, u>> \in filled =>
        \/ userSubs[Node(s)][u] = s
        \/ dev[s] # NoDevice /\ UserOf(s) = u /\ pc[s] \in Done

\* A subscription that Redis serves is the current one, or is being closed.
Accounted ==
    \A s \in Conns, u \in UserIDs : sub[<<s, u>>] \in {"requested", "live"} =>
        \/ userSubs[Node(s)][u] = s
        \/ \E c \in Conns : pc[c] = "unsub" /\ closing[c] = s /\ UserOf(c) = u

\* What is to be closed has its controllers, is not closed, is nobody's current
\* subscription, and is closed by one connection.
Closings ==
    \A c \in Conns : pc[c] = "unsub" =>
        LET s == <<closing[c], UserOf(c)>> IN
        /\ s \in filled
        /\ sub[s] # "closed"
        /\ userSubs[Node(closing[c])][UserOf(c)] # closing[c]
        /\ \A b \in Conns : pc[b] = "unsub" /\ <<closing[b], UserOf(b)>> = s => b = c

\* The connection that will set an online device offline has set it online.
OnlineHeld ==
    \A d \in online : \E c \in Conns :
        \/ dev[c] = d /\ pc[c] \in {"announce", "reply", "ready", "unbind", "unsub", "offline"}
        \/ d \in left[c] /\ (dev[c] # d \/ pc[c] \in {"bind", "reserve", "subscribe", "fill", "online"})

\* What is in a channel has been routed.
Routed == \A s \in Subs : \A e \in chan[s] : route[e] \in Routes

Inv ==
    /\ TypeOK
    /\ Routed
    /\ Identities
    /\ RoutingTable
    /\ SubscribedWhileConnected
    /\ Entries
    /\ Placeholders
    /\ Closings
    /\ Once
    /\ Accounted
    /\ OnlineHeld

-----------------------------------------------------------------------------
(* Liveness *)

\* No peer stops reading for ever with a write under way.
PeersRead == \A c \in Conns : []<>(writer[c] # "writing")

\* c is one of the connections that e is for.
Due(c, e) == route[e] # <<>> /\ c \in Recipients(Node(c), route[e])

\* An event in the channel of a user's current subscription is offered to every
\* connection of the user on that node, unless the connection leaves first or has
\* authenticated as the device that the event excepts.  A peer that reads no more
\* stops deliverLocal on its node, so the others must read.
EventsArrive ==
    PeersRead =>
        \A c \in Conns, e \in Events :
            (Due(c, e) /\ \E s \in Subs : e \in chan[s] /\ userSubs[Node(c)][s[2]] = s[1])
                ~> (e \in offered[c] \/ ~Due(c, e))

\* An authentication is answered, unless the peer itself reads no more.
\* (hub.go:214: "lock contention does not stall all Hub operations on network
\* I/O".)
AuthCompletes ==
    \A c \in Conns : pc[c] = "bind" ~> (pc[c] = "ready" \/ writer[c] = "writing")

=============================================================================
