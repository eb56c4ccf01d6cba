----------------------------- MODULE HubProofs -----------------------------
(* Proofs about Hub for any number of nodes, connections, users, devices   *)
(* and events, and any sizes of the buffers, and about the call commands   *)
(* that the hub and the HTTP API run: CallBridge, for any users and calls. *)
EXTENDS Hub, CallBridge, TLAPS

USE FunctionAssumption, NullAssumption, BufferAssumption

-----------------------------------------------------------------------------
(* Type correctness *)

\* A connection with an identity has a user, and every connection a node.
LEMMA Homes ==
    ASSUME TypeOK, NEW c \in Conns
    PROVE  Node(c) \in Nodes /\ (dev[c] # NoDevice => UserOf(c) \in UserIDs)
BY DEF TypeOK, Node, UserOf

\* deliverLocal is at a connection, or has done.
LEMMA ServeType ==
    ASSUME TypeOK, NEW x \in Deliverers, NEW todo \in SUBSET (Conns \X Events), Serve(x, todo)
    PROVE  /\ job' \in [Deliverers -> SUBSET (Conns \X Events)]
           /\ at' \in [Deliverers -> Conns \cup {NoSub}]
<1>1. \A t \in todo : t[1] \in Conns
    OBVIOUS
<1>2. PICK c \in IF todo = {} THEN {NoSub} ELSE {t[1] : t \in todo} :
          at' = [at EXCEPT ![x] = c]
    BY DEF Serve
<1>3. c \in Conns \cup {NoSub}
    BY <1>1, <1>2
<1> QED BY <1>2, <1>3 DEF Serve, TypeOK

\* What deliverLocal has to do is of its type.
LEMMA JobType ==
    ASSUME TypeOK, NEW x \in Deliverers, NEW e \in Events, NEW n \in Nodes, NEW r \in Routes,
           Deliver(x, e, n, r)
    PROVE  /\ job' \in [Deliverers -> SUBSET (Conns \X Events)]
           /\ at' \in [Deliverers -> Conns \cup {NoSub}]
<1>1. byUser[n][r.user] \in SUBSET Conns
    BY DEF TypeOK, Routes
<1>2. byUser[n][r.user] \X {e} \in SUBSET (Conns \X Events)
    BY <1>1
<1> QED BY <1>2, ServeType DEF Deliver

\* Routing an event keeps the types of what it touches.
LEMMA RouteType ==
    ASSUME TypeOK, NEW x \in Deliverers, NEW e \in Events, NEW n \in Nodes, NEW r \in Routes,
           RouteToUser(x, e, n, r)
    PROVE  /\ route' \in [Events -> Routes \cup {<<>>}]
           /\ chan' \in [Subs -> SUBSET Events]
           /\ job' \in [Deliverers -> SUBSET (Conns \X Events)]
           /\ at' \in [Deliverers -> Conns \cup {NoSub}]
<1>1. route' \in [Events -> Routes \cup {<<>>}]
    BY DEF TypeOK, RouteToUser
<1>2. CASE Publish(e, r)
    BY <1>1, <1>2 DEF TypeOK, Publish
<1>3. CASE Deliver(x, e, n, r) /\ UNCHANGED chan
    BY <1>1, <1>3, JobType DEF TypeOK
<1> QED BY <1>2, <1>3 DEF RouteToUser

\* A send leaves the channel within its buffer.
LEMMA SentType ==
    ASSUME TypeOK, NEW c \in Conns
    PROVE  Sent(c) \in [Conns -> 0..SendBuf]
BY DEF TypeOK, Sent

\* Every step keeps every variable in its type.
LEMMA TypeStep == Inv /\ [Next]_vars => TypeOK'
<1> SUFFICES ASSUME Inv, [Next]_vars PROVE TypeOK'
    OBVIOUS
<1> USE DEF connVars, tableVars, subVars, jobVars, sendVars
<1>t. TypeOK
    BY DEF Inv
<1>1. ASSUME NEW c \in Conns, ConnNext(c) PROVE TypeOK'
    <2>n. Node(c) \in Nodes /\ (dev[c] # NoDevice => UserOf(c) \in UserIDs)
        BY <1>t, Homes
    <2>1. CASE Register(c)
        BY <1>t, <2>1 DEF TypeOK, Register, Goto, Positions, Bound
    <2>2. ASSUME NEW d \in Devices, Authenticate(c, d) PROVE TypeOK'
        BY <1>t, <2>2 DEF TypeOK, Authenticate, Goto, Positions, Bound
    <2>3. CASE ReadError(c)
        BY <1>t, <2>3 DEF TypeOK, ReadError, Goto, Positions, Bound
    <2>4. CASE BindUser(c)
        <3>1. UserOf(c) \in UserIDs
            BY <2>n, <2>4 DEF BindUser, Inv, Identities
        <3> QED BY <1>t, <2>n, <2>4, <3>1 DEF TypeOK, BindUser, Goto, Positions, Bound
    <2>5. CASE Reserve(c)
        <3>1. UserOf(c) \in UserIDs
            BY <2>n, <2>5 DEF Reserve, Inv, Identities, Bound
        <3>2. userSubs' \in [Nodes -> [UserIDs -> Conns \cup {NoSub}]]
            <4>1. [userSubs EXCEPT ![Node(c)][UserOf(c)] = c]
                      \in [Nodes -> [UserIDs -> Conns \cup {NoSub}]]
                BY <1>t, <2>n, <3>1 DEF TypeOK
            <4> QED BY ZenonT(60), <1>t, <2>5, <4>1 DEF TypeOK, Reserve
        <3> QED BY <1>t, <2>5, <3>2 DEF TypeOK, Reserve, Goto, Positions, Bound
    <2>6. CASE Subscribe(c)
        <3>1. OwnSub(c) \in Subs
            BY <2>n, <2>6 DEF Subscribe, Inv, Identities, Bound, Subs, OwnSub
        <3> QED BY <1>t, <2>6, <3>1 DEF TypeOK, Subscribe, Goto, Positions, Bound
    <2>7. CASE Fill(c)
        <3>1. OwnSub(c) \in Subs
            BY <2>n, <2>7 DEF Fill, Inv, Identities, Bound, Subs, OwnSub
        <3>2. pc' \in [Conns -> Positions]
            BY <1>t, <2>7 DEF TypeOK, Fill, Goto, Positions, Bound
        <3>3. /\ filled' \in SUBSET Subs
              /\ sub' \in [Subs -> {"none", "requested", "live", "closed"}]
              /\ chan' \in [Subs -> SUBSET Events]
            BY ZenonT(60), <1>t, <2>7, <3>1 DEF TypeOK, Fill
        <3> QED BY <1>t, <2>7, <3>2, <3>3 DEF TypeOK, Fill
    <2>8. CASE SetOnline(c)
        <3>1. dev[c] \in Devices
            BY <1>t, <2>8 DEF TypeOK, SetOnline, Inv, Identities, Bound
        <3> QED BY <1>t, <2>8, <3>1 DEF TypeOK, SetOnline, Goto, Positions, Bound
    <2>9. CASE Announce(c)
        <3>1. pc' \in [Conns -> Positions]
            BY <1>t, <2>9 DEF TypeOK, Announce, Goto, Positions, Bound
        <3>2. [user |-> UserOf(c), except |-> NoDevice] \in Routes
            BY <1>t, <2>n, <2>9 DEF Announce, Inv, Identities, Bound, Routes
        <3>3. Announcer(c) \in Deliverers
            BY DEF Deliverers
        <3>4. CASE UNCHANGED <<chan, route, job, at>>
            BY <1>t, <2>9, <3>1, <3>4 DEF TypeOK, Announce
        <3>5. ASSUME NEW e \in Events,
                     RouteToUser(Announcer(c), e, Node(c), [user |-> UserOf(c), except |-> NoDevice])
              PROVE  TypeOK'
            <4>1. /\ route' \in [Events -> Routes \cup {<<>>}]
                  /\ chan' \in [Subs -> SUBSET Events]
                  /\ job' \in [Deliverers -> SUBSET (Conns \X Events)]
                  /\ at' \in [Deliverers -> Conns \cup {NoSub}]
                BY <1>t, <2>n, <3>2, <3>3, <3>5, RouteType
            <4> QED BY <1>t, <2>9, <3>1, <4>1 DEF TypeOK, Announce
        <3> QED BY <2>9, <3>4, <3>5 DEF Announce
    <2>10. CASE SendReply(c)
        BY <1>t, <2>10, SentType DEF TypeOK, SendReply, Goto, Positions, Bound
    <2>11. CASE Unbind(c)
        <3>1. CASE dev[c] = NoDevice
            BY <1>t, <2>11, <3>1 DEF TypeOK, Unbind, Goto, Positions, Bound
        <3>2. CASE dev[c] # NoDevice
            <4>1. UserOf(c) \in UserIDs
                BY <2>n, <3>2
            <4>2. /\ Remaining(c) \in SUBSET Conns
                  /\ userSubs[Node(c)][UserOf(c)] \in Conns \cup {NoSub}
                BY <1>t, <2>n, <4>1 DEF TypeOK, Remaining
            <4>3. /\ byUser' \in [Nodes -> [UserIDs -> SUBSET Conns]]
                  /\ userSubs' \in [Nodes -> [UserIDs -> Conns \cup {NoSub}]]
                <5>1. [byUser EXCEPT ![Node(c)][UserOf(c)] = Remaining(c)]
                          \in [Nodes -> [UserIDs -> SUBSET Conns]]
                    BY <1>t, <2>n, <4>1, <4>2 DEF TypeOK
                <5>2. [userSubs EXCEPT ![Node(c)][UserOf(c)] = NoSub]
                          \in [Nodes -> [UserIDs -> Conns \cup {NoSub}]]
                    BY <1>t, <2>n, <4>1 DEF TypeOK
                <5> QED BY <1>t, <2>11, <3>2, <5>1, <5>2 DEF TypeOK, Unbind
            <4>4. pc' \in [Conns -> Positions] /\ closing' \in [Conns -> Conns \cup {NoSub}]
                BY <1>t, <2>11, <3>2, <4>2 DEF TypeOK, Unbind, Goto, Positions, Bound
            <4> QED BY <1>t, <2>11, <4>3, <4>4 DEF TypeOK, Unbind
        <3> QED BY <3>1, <3>2
    <2>12. CASE CloseSub(c)
        BY <1>t, <2>12 DEF TypeOK, CloseSub, Goto, Positions, Bound
    <2>13. CASE SetOffline(c)
        BY <1>t, <2>13 DEF TypeOK, SetOffline, Offline, Goto, Positions, Bound
    <2>14. CASE Close(c)
        BY <1>t, <2>14 DEF TypeOK, Close, Goto, Positions, Bound
    <2>16. CASE WriteBegin(c)
        BY <1>t, <2>16 DEF TypeOK, WriteBegin
    <2>17. CASE WriteEnd(c) \/ WriterExit(c)
        BY <1>t, <2>17 DEF TypeOK, WriteEnd, WriterExit
    <2> QED BY <1>1, <2>1, <2>2, <2>3, <2>4, <2>5, <2>6, <2>7, <2>8, <2>9, <2>10, <2>11, <2>12,
               <2>13, <2>14, <2>16, <2>17 DEF ConnNext, Handle
<1>2. ASSUME NEW d \in Devices, ExpirePresence(d) PROVE TypeOK'
    BY <1>t, <1>2 DEF TypeOK, ExpirePresence
<1>3. ASSUME NEW e \in Events, NEW n \in Nodes, NEW r \in Routes, SendToUser(e, n, r)
      PROVE  TypeOK'
    <2>1. /\ route' \in [Events -> Routes \cup {<<>>}]
          /\ chan' \in [Subs -> SUBSET Events]
          /\ job' \in [Deliverers -> SUBSET (Conns \X Events)]
          /\ at' \in [Deliverers -> Conns \cup {NoSub}]
        BY <1>t, <1>3, RouteType DEF SendToUser, Deliverers
    <2> QED BY <1>t, <1>3, <2>1 DEF TypeOK, SendToUser
<1>4. ASSUME NEW s \in Subs, NEW e \in Events, Dispatch(s, e) PROVE TypeOK'
    <2>1. route[e] \in Routes
        BY <1>4 DEF Dispatch, Inv, Routed
    <2>2. /\ job' \in [Deliverers -> SUBSET (Conns \X Events)]
          /\ at' \in [Deliverers -> Conns \cup {NoSub}]
        <3>1. s[1] \in Conns
            BY DEF Subs
        <3> QED BY <1>t, <1>4, <2>1, <3>1, Homes, JobType DEF Dispatch, Deliverers
    <2> QED BY <1>t, <1>4, <2>2 DEF TypeOK, Dispatch
<1>5. ASSUME NEW s \in Subs, StopDispatch(s) PROVE TypeOK'
    BY <1>t, <1>5 DEF TypeOK, StopDispatch
<1>6. ASSUME NEW x \in Deliverers, NEW c \in Conns, NEW e \in Events, SendTo(x, c, e)
      PROVE  TypeOK'
    <2>1. /\ job' \in [Deliverers -> SUBSET (Conns \X Events)]
          /\ at' \in [Deliverers -> Conns \cup {NoSub}]
        <3>1. job[x] \ {<<c, e>>} \in SUBSET (Conns \X Events)
            BY <1>t DEF TypeOK
        <3> QED BY <1>t, <1>6, <3>1, ServeType DEF SendTo
    <2>2. queue' \in [Conns -> 0..SendBuf] /\ offered' \in [Conns -> SUBSET Events]
        <3>1. CASE Excepted(c, e)
            BY <1>t, <1>6, <3>1 DEF TypeOK, SendTo
        <3>2. CASE ~Excepted(c, e)
            <4>1. queue' = Sent(c) /\ offered' = [offered EXCEPT ![c] = @ \cup {e}]
                BY <1>6, <3>2 DEF SendTo
            <4> QED BY <1>t, <4>1, SentType DEF TypeOK
        <3> QED BY <3>1, <3>2
    <2> QED BY <1>t, <1>6, <2>1, <2>2 DEF TypeOK, SendTo
<1>7. CASE UNCHANGED vars
    BY <1>t, <1>7 DEF TypeOK, vars
<1>8. ASSUME NEW s \in Subs, Confirm(s) PROVE TypeOK'
    BY <1>t, <1>8 DEF TypeOK, Confirm
<1> QED BY <1>1, <1>2, <1>3, <1>4, <1>5, <1>6, <1>7, <1>8 DEF Next

-----------------------------------------------------------------------------
(* The inductive invariant *)

\* The parts of the invariant about connections, tables and subscriptions.
Rest ==
    /\ Identities
    /\ RoutingTable
    /\ SubscribedWhileConnected
    /\ Entries
    /\ Placeholders
    /\ Closings
    /\ Once
    /\ Accounted
    /\ OnlineHeld

\* Events are routed before they are in a channel, and stay routed.
LEMMA RoutedStep == Inv /\ [Next]_vars => Routed'
<1> SUFFICES ASSUME Inv, [Next]_vars PROVE Routed'
    OBVIOUS
<1> USE DEF connVars, tableVars, subVars, jobVars, sendVars
<1>t. TypeOK /\ Routed
    BY DEF Inv
<1>1. ASSUME NEW x \in Deliverers, NEW e \in Events, NEW n \in Nodes, NEW r \in Routes,
             RouteToUser(x, e, n, r)
      PROVE  Routed'
    <2>1. route' = [route EXCEPT ![e] = r]
        BY <1>1 DEF RouteToUser
    <2>2. \A s \in Subs : chan'[s] \subseteq chan[s] \cup {e}
        BY <1>t, <1>1 DEF TypeOK, RouteToUser, Publish
    <2> QED BY <1>t, <2>1, <2>2 DEF TypeOK, Routed
<1>2. ASSUME NEW c \in Conns, Announce(c) PROVE Routed'
    <2>1. [user |-> UserOf(c), except |-> NoDevice] \in Routes /\ Node(c) \in Nodes
        BY <1>t, <1>2, Homes DEF Announce, Inv, Identities, Bound, Routes
    <2> QED BY <1>t, <1>1, <1>2, <2>1 DEF Announce, Routed, Deliverers
<1>3. ASSUME NEW e \in Events, NEW n \in Nodes, NEW r \in Routes, SendToUser(e, n, r)
      PROVE  Routed'
    BY <1>1, <1>3 DEF SendToUser, Deliverers
<1>4. ASSUME UNCHANGED route, \A s \in Subs : chan'[s] \subseteq chan[s] PROVE Routed'
    BY <1>t, <1>4 DEF Routed
<1>5. ASSUME NEW c \in Conns, ConnNext(c) PROVE Routed'
    <2>1. CASE Fill(c)
        BY <1>t, <1>4, <2>1 DEF Fill, TypeOK
    <2> QED BY <1>2, <1>4, <1>5, <2>1 DEF ConnNext, Handle, Register, Authenticate, ReadError,
               BindUser, Reserve, Subscribe, SetOnline, SendReply, Unbind, CloseSub, SetOffline, Close,
               WriteBegin, WriteEnd, WriterExit
<1>6. ASSUME NEW s \in Subs, NEW e \in Events, Dispatch(s, e) PROVE Routed'
    BY <1>t, <1>4, <1>6 DEF Dispatch, TypeOK
<1>7. ASSUME NEW s \in Subs, StopDispatch(s) PROVE Routed'
    BY <1>t, <1>4, <1>7 DEF StopDispatch, TypeOK
<1> QED BY <1>3, <1>4, <1>5, <1>6, <1>7 DEF Next, vars, ExpirePresence, Confirm, SendTo

\* The routing table holds connections.
LEMMA OnlyConns == ASSUME Inv PROVE \A n \in Nodes, u \in UserIDs : byUser[n][u] \subseteq Conns
BY DEF Inv, TypeOK

\* A subscription that is to be closed has a connection and a user.
LEMMA Closers ==
    ASSUME Inv, NEW c \in Conns, pc[c] = "unsub"
    PROVE  /\ closing[c] \in Conns /\ UserOf(c) \in UserIDs /\ dev[c] # NoDevice
           /\ Node(closing[c]) \in Nodes
<1>1. <<closing[c], UserOf(c)>> \in Conns \X UserIDs
    BY DEF Inv, TypeOK, Closings, Subs
<1>2. closing[c] \in Conns /\ UserOf(c) \in UserIDs
    BY <1>1
<1> QED BY <1>2, Homes DEF Inv, Identities

\* Steps that leave connections, tables, subscriptions and presence alone.
LEMMA Frame ==
    ASSUME Inv, UNCHANGED <<pc, dev, left, byUser, userSubs, sub, filled, closing, online>>
    PROVE  Rest'
BY DEF Inv, Rest, Identities, RoutingTable, SubscribedWhileConnected, Entries, Placeholders,
       Closings, Once, Accounted, OnlineHeld, UserOf, Done, LeftUsers

\* Steps of a connection that change no more than its position, and leave the
\* positions that mean something to the others.
LEMMA MoveStep ==
    ASSUME Inv, NEW c \in Conns, NEW p, Goto(c, p),
           UNCHANGED <<dev, left, byUser, userSubs, sub, filled, closing, online>>,
           <<pc[c], p>> \in {<<"new", "open">>, <<"open", "unbind">>, <<"ready", "unbind">>,
                             <<"announce", "reply">>, <<"farewell", "close">>,
                             <<"reply", "ready">>, <<"close", "closed">>}
    PROVE  Rest'
<1>1. \A b \in Conns : pc'[b] = IF b = c THEN p ELSE pc[b]
    BY DEF Inv, TypeOK, Goto
<1>2. Identities' /\ Placeholders' /\ Closings' /\ Once' /\ Entries'
    BY <1>1 DEF Inv, Identities, Placeholders, Closings, Once, Entries, UserOf, Bound, Done
<1>3. RoutingTable'
    BY <1>1 DEF Inv, Identities, RoutingTable, UserOf, Bound, LeftUsers
<1>4. SubscribedWhileConnected'
    BY <1>1, OnlyConns DEF Inv, SubscribedWhileConnected, UserOf
<1>5. Accounted'
    BY <1>1 DEF Inv, Accounted, UserOf
<1>6. OnlineHeld'
    BY <1>1 DEF Inv, OnlineHeld
<1> QED BY <1>2, <1>3, <1>4, <1>5, <1>6 DEF Rest

\* SetIdentity, also of a connection that is somebody already: under its old users
\* it stays in the table, and its old devices are left online.
LEMMA AuthenticateStep ==
    ASSUME Inv, NEW c \in Conns, NEW d \in Devices, Authenticate(c, d)
    PROVE  Rest'
<1>1. /\ pc[c] \in {"open", "ready"} /\ d # NoDevice
      /\ pc[c] = "open" => dev[c] = NoDevice /\ left[c] = {}
      /\ pc[c] = "ready" => dev[c] # NoDevice
    BY DEF Authenticate, Inv, Identities, Bound
<1>2. /\ \A b \in Conns : pc'[b] = IF b = c THEN "bind" ELSE pc[b]
      /\ \A b \in Conns : dev'[b] = IF b = c THEN d ELSE dev[b]
      /\ \A b \in Conns : left'[b] = IF b = c THEN left[b] \cup ({dev[c]} \ {NoDevice}) ELSE left[b]
      /\ UNCHANGED <<byUser, userSubs, sub, filled, closing, online>>
    BY DEF Authenticate, Goto, Inv, TypeOK, tableVars, subVars
<1>3. Identities' /\ Closings' /\ Once'
    <2>1. Identities'
        BY <1>1, <1>2 DEF Inv, Identities, Bound
    <2>2. Closings'
        BY <1>1, <1>2 DEF Inv, Closings, UserOf
    <2>3. Once'
        BY <1>1, <1>2 DEF Inv, Once, UserOf, Done
    <2> QED BY <2>1, <2>2, <2>3
<1>4. RoutingTable'
    <2> SUFFICES ASSUME NEW b \in Conns, NEW n \in Nodes, NEW u \in UserIDs
                 PROVE  b \in byUser[n][u] <=>
                            /\ n = Node(b) /\ dev'[b] # NoDevice
                            /\ \/ u = Owner[dev'[b]] /\ pc'[b] \in Bound \cup {"unbind"}
                               \/ \E e \in left'[b] : Owner[e] = u /\ Owner[dev'[b]] # u
                               \/ /\ u = Owner[dev'[b]] /\ pc'[b] = "bind"
                                  /\ \E e \in left'[b] : Owner[e] = u
        BY <1>2 DEF RoutingTable, LeftUsers, UserOf
    <2>1. b \in byUser[n][u] <=>
              /\ n = Node(b) /\ dev[b] # NoDevice
              /\ \/ u = Owner[dev[b]] /\ pc[b] \in Bound \cup {"unbind"}
                 \/ \E e \in left[b] : Owner[e] = u /\ Owner[dev[b]] # u
                 \/ u = Owner[dev[b]] /\ pc[b] = "bind" /\ \E e \in left[b] : Owner[e] = u
        BY DEF Inv, RoutingTable, LeftUsers, UserOf
    <2>2. CASE b # c
        BY <1>2, <2>1, <2>2
    <2>3. CASE b = c
        <3>1. c \in byUser[n][u] <=> n = Node(c) /\ \E e \in left'[c] : Owner[e] = u
            <4>1. CASE pc[c] = "open"
                BY <1>1, <1>2, <2>1, <2>3, <4>1 DEF Bound
            <4>2. CASE pc[c] = "ready"
                <5>1. left'[c] = left[c] \cup {dev[c]} /\ dev[c] # NoDevice
                    BY <1>1, <1>2, <4>2
                <5>2. (\E e \in left'[c] : Owner[e] = u) <=>
                          (u = Owner[dev[c]] \/ \E e \in left[c] : Owner[e] = u)
                    BY <5>1
                <5>3. "ready" \in Bound
                    BY DEF Bound
                <5> QED BY <2>1, <2>3, <4>2, <5>1, <5>2, <5>3
            <4> QED BY <1>1, <4>1, <4>2
        <3>2. pc'[c] = "bind" /\ dev'[c] = d
            BY <1>2
        <3> QED BY <1>1, <2>3, <3>1, <3>2 DEF Bound
    <2> QED BY <2>2, <2>3
<1>5. SubscribedWhileConnected'
    BY <1>1, <1>2, OnlyConns DEF Inv, SubscribedWhileConnected, UserOf
<1>6. Entries' /\ Placeholders'
    BY <1>1, <1>2 DEF Inv, Entries, Placeholders, UserOf, Done
<1>7. Accounted'
    BY <1>1, <1>2 DEF Inv, Accounted, UserOf
<1>8. OnlineHeld'
    <2> SUFFICES ASSUME NEW o \in online
                 PROVE  \E b \in Conns :
                            \/ /\ dev'[b] = o
                               /\ pc'[b] \in {"announce", "reply", "ready", "unbind", "unsub", "offline"}
                            \/ /\ o \in left'[b]
                               /\ \/ dev'[b] # o
                                  \/ pc'[b] \in {"bind", "reserve", "subscribe", "fill", "online"}
        BY <1>2 DEF OnlineHeld
    <2>1. PICK b \in Conns :
              \/ dev[b] = o /\ pc[b] \in {"announce", "reply", "ready", "unbind", "unsub", "offline"}
              \/ /\ o \in left[b]
                 /\ \/ dev[b] # o
                    \/ pc[b] \in {"bind", "reserve", "subscribe", "fill", "online"}
        BY DEF Inv, OnlineHeld
    <2>2. o # NoDevice
        BY DEF Inv, TypeOK
    <2> QED BY <1>1, <1>2, <2>1, <2>2
<1> QED BY <1>3, <1>4, <1>5, <1>6, <1>7, <1>8 DEF Rest

\* bindUser adds the connection, which will reserve the subscription.
LEMMA BindUserStep ==
    ASSUME Inv, NEW c \in Conns, BindUser(c)
    PROVE  Rest'
<1>1. /\ pc[c] = "bind" /\ dev[c] # NoDevice /\ Node(c) \in Nodes /\ UserOf(c) \in UserIDs
    BY Homes DEF BindUser, Inv, Identities
<1>2. /\ \A b \in Conns : pc'[b] = IF b = c THEN "reserve" ELSE pc[b]
      /\ \A n \in Nodes, u \in UserIDs :
            byUser'[n][u] = IF n = Node(c) /\ u = UserOf(c) THEN byUser[n][u] \cup {c}
                            ELSE byUser[n][u]
      /\ UNCHANGED <<dev, left, userSubs, sub, filled, closing, online>>
    BY ZenonT(60), <1>1 DEF BindUser, Goto, Inv, TypeOK, subVars
<1>3. Identities' /\ Closings' /\ Once' /\ Placeholders'
    BY <1>1, <1>2 DEF Inv, Identities, Closings, Once, Placeholders, UserOf, Bound, Done
<1>e. Entries'
    <2>1. \A n \in Nodes, u \in UserIDs : byUser[n][u] \subseteq byUser'[n][u]
        BY <1>2
    <2> QED BY <1>1, <1>2, <2>1 DEF Inv, Entries, UserOf, Done
<1>4. RoutingTable'
    <2> SUFFICES ASSUME NEW b \in Conns, NEW n \in Nodes, NEW u \in UserIDs
                 PROVE  b \in byUser'[n][u] <=>
                            /\ n = Node(b) /\ dev[b] # NoDevice
                            /\ \/ u = UserOf(b) /\ pc'[b] \in Bound \cup {"unbind"}
                               \/ u \in LeftUsers(b)
                               \/ /\ u = UserOf(b) /\ pc'[b] = "bind"
                                  /\ \E d \in left[b] : Owner[d] = u
        BY <1>2 DEF RoutingTable, UserOf, LeftUsers
    <2>1. b \in byUser'[n][u] <=> \/ b \in byUser[n][u]
                                  \/ b = c /\ n = Node(c) /\ u = UserOf(c)
        BY ZenonT(60), <1>2
    <2> QED BY <1>1, <1>2, <2>1 DEF Inv, RoutingTable, LeftUsers, Bound
<1>5. SubscribedWhileConnected'
    <2> SUFFICES ASSUME NEW n \in Nodes, NEW u \in UserIDs
                 PROVE  /\ userSubs[n][u] # NoSub => byUser'[n][u] # {}
                        /\ byUser'[n][u] # {} => \/ userSubs[n][u] # NoSub
                                                 \/ \E b \in byUser'[n][u] : pc'[b] = "reserve" /\ UserOf(b) = u
        BY <1>2 DEF SubscribedWhileConnected, UserOf
    <2>1. CASE n = Node(c) /\ u = UserOf(c)
        BY <1>1, <1>2, <2>1
    <2>2. CASE ~(n = Node(c) /\ u = UserOf(c))
        <3>1. byUser'[n][u] = byUser[n][u]
            BY <1>2, <2>2
        <3> QED BY <1>1, <1>2, <3>1, OnlyConns DEF Inv, SubscribedWhileConnected, UserOf
    <2> QED BY <2>1, <2>2
<1>6. Accounted'
    BY <1>1, <1>2 DEF Inv, Accounted, UserOf
<1>7. OnlineHeld'
    BY <1>1, <1>2 DEF Inv, OnlineHeld
<1> QED BY <1>3, <1>e, <1>4, <1>5, <1>6, <1>7 DEF Rest

\* Under the lock, a connection finds an entry or puts its own.
LEMMA ReserveStep ==
    ASSUME Inv, NEW c \in Conns, Reserve(c)
    PROVE  Rest'
<1>1. /\ pc[c] = "reserve" /\ dev[c] # NoDevice /\ Node(c) \in Nodes /\ UserOf(c) \in UserIDs
      /\ c \in byUser[Node(c)][UserOf(c)]
    BY Homes DEF Reserve, Inv, Identities, RoutingTable, Bound
<1>2. UNCHANGED <<dev, left, byUser, sub, filled, closing, online>>
    BY DEF Reserve, subVars
<1>3. CASE Reserved(c)
    <2>1. /\ \A b \in Conns : pc'[b] = IF b = c THEN "online" ELSE pc[b]
          /\ UNCHANGED userSubs
          /\ userSubs[Node(c)][UserOf(c)] # NoSub
        BY <1>3 DEF Reserve, Reserved, Goto, Inv, TypeOK
    <2>2. Identities' /\ Closings' /\ Once' /\ Entries' /\ Placeholders'
        BY <1>1, <1>2, <2>1 DEF Inv, Identities, Closings, Once, Entries,
                                Placeholders, UserOf, Bound, Done
    <2>3. RoutingTable'
        BY <1>1, <1>2, <2>1 DEF Inv, RoutingTable, LeftUsers, UserOf, Bound
    <2>4. SubscribedWhileConnected'
        <3> SUFFICES ASSUME NEW n \in Nodes, NEW u \in UserIDs
                     PROVE  /\ userSubs[n][u] # NoSub => byUser[n][u] # {}
                            /\ byUser[n][u] # {} => \/ userSubs[n][u] # NoSub
                                                    \/ \E b \in byUser[n][u] : pc'[b] = "reserve" /\ UserOf(b) = u
            BY <1>2, <2>1 DEF SubscribedWhileConnected, UserOf
        <3>1. c \in byUser[n][u] /\ UserOf(c) = u => userSubs[n][u] # NoSub
            BY <2>1 DEF Inv, RoutingTable
        <3> QED BY <2>1, <3>1, OnlyConns DEF Inv, SubscribedWhileConnected, UserOf
    <2>5. Accounted' /\ OnlineHeld'
        BY <1>1, <1>2, <2>1 DEF Inv, Accounted, OnlineHeld, UserOf
    <2> QED BY <2>2, <2>3, <2>4, <2>5 DEF Rest
<1>4. CASE ~Reserved(c)
    <2>1. /\ \A b \in Conns : pc'[b] = IF b = c THEN "subscribe" ELSE pc[b]
          /\ \A n \in Nodes, u \in UserIDs :
                userSubs'[n][u] = IF n = Node(c) /\ u = UserOf(c) THEN c ELSE userSubs[n][u]
          /\ userSubs[Node(c)][UserOf(c)] = NoSub
        BY <1>1, <1>4 DEF Reserve, Reserved, Goto, Inv, TypeOK
    <2>s. sub[<<c, UserOf(c)>>] = "none" /\ <<c, UserOf(c)>> \notin filled
        BY <1>1, <2>1 DEF Inv, Once, Done
    <2>2. Identities' /\ Closings' /\ Once'
        <3>1. Identities'
            BY <1>1, <1>2, <2>1 DEF Inv, Identities, Bound
        <3>2. Once'
            BY <1>1, <1>2, <2>1, Homes DEF Inv, Once, UserOf, Done
        <3>3. Closings'
            <4> SUFFICES ASSUME NEW b \in Conns, pc'[b] = "unsub"
                         PROVE  /\ <<closing[b], UserOf(b)>> \in filled
                                /\ sub[<<closing[b], UserOf(b)>>] # "closed"
                                /\ userSubs'[Node(closing[b])][UserOf(b)] # closing[b]
                                /\ \A a \in Conns :
                                      /\ pc'[a] = "unsub"
                                      /\ <<closing[a], UserOf(a)>> = <<closing[b], UserOf(b)>>
                                      => a = b
                BY <1>2 DEF Closings, UserOf
            <4>1. /\ pc[b] = "unsub" /\ <<closing[b], UserOf(b)>> \in filled
                  /\ closing[b] \in Conns /\ UserOf(b) \in UserIDs
                BY <1>1, <2>1 DEF Inv, TypeOK, Closings, Subs
            <4>2. <<closing[b], UserOf(b)>> # <<c, UserOf(c)>>
                BY <2>s, <4>1
            <4> QED BY <1>1, <2>1, <4>1, <4>2, Homes DEF Inv, Closings
        <3> QED BY <3>1, <3>2, <3>3
    <2>3. RoutingTable'
        BY <1>1, <1>2, <2>1 DEF Inv, RoutingTable, LeftUsers, UserOf, Bound
    <2>4. SubscribedWhileConnected'
        <3> SUFFICES ASSUME NEW n \in Nodes, NEW u \in UserIDs
                     PROVE  /\ userSubs'[n][u] # NoSub => byUser[n][u] # {}
                            /\ byUser[n][u] # {} => \/ userSubs'[n][u] # NoSub
                                                    \/ \E b \in byUser[n][u] : pc'[b] = "reserve" /\ UserOf(b) = u
            BY <1>2 DEF SubscribedWhileConnected, UserOf
        <3>1. c \in byUser[n][u] /\ UserOf(c) = u => userSubs'[n][u] # NoSub
            BY <2>1 DEF Inv, RoutingTable
        <3>2. userSubs'[n][u] # NoSub => byUser[n][u] # {}
            BY <1>1, <2>1 DEF Inv, SubscribedWhileConnected, UserOf
        <3> QED BY <2>1, <3>1, <3>2, OnlyConns DEF Inv, SubscribedWhileConnected, UserOf
    <2>5. Entries'
        BY <1>1, <1>2, <2>1, <2>s DEF Inv, Entries, UserOf, Done
    <2>6. Placeholders'
        BY <1>1, <1>2, <2>1, Homes DEF Inv, Placeholders, Identities, Bound, UserOf
    <2>7. Accounted'
        BY <1>1, <1>2, <2>1, Homes DEF Inv, Accounted, UserOf
    <2>8. OnlineHeld'
        BY <1>1, <1>2, <2>1 DEF Inv, OnlineHeld
    <2> QED BY <2>2, <2>3, <2>4, <2>5, <2>6, <2>7, <2>8 DEF Rest
<1> QED BY <1>3, <1>4

\* SubscribeUserTopic makes the subscription that the placeholder stands for.
LEMMA SubscribeStep ==
    ASSUME Inv, NEW c \in Conns, Subscribe(c)
    PROVE  Rest'
<1>1. /\ pc[c] = "subscribe" /\ dev[c] # NoDevice /\ UserOf(c) \in UserIDs
      /\ userSubs[Node(c)][UserOf(c)] = c
    BY Homes DEF Subscribe, Inv, Identities, Placeholders, Bound
<1>2. /\ \A b \in Conns : pc'[b] = IF b = c THEN "fill" ELSE pc[b]
      /\ \A b \in Conns, u \in UserIDs :
            sub'[<<b, u>>] = IF b = c /\ u = UserOf(c) THEN "requested" ELSE sub[<<b, u>>]
      /\ UNCHANGED <<dev, left, byUser, userSubs, filled, closing, online>>
    BY <1>1 DEF Subscribe, Goto, Inv, TypeOK, tableVars, Subs, OwnSub
<1>3. Identities' /\ Closings' /\ Once'
    <2>1. Identities' /\ Once'
        BY <1>1, <1>2 DEF Inv, Identities, Once, Bound, UserOf, Done
    <2>2. Closings'
        BY <1>1, <1>2, Closers DEF Inv, Closings, UserOf
    <2> QED BY <2>1, <2>2
<1>4. RoutingTable'
    BY <1>1, <1>2 DEF Inv, RoutingTable, LeftUsers, UserOf, Bound
<1>5. SubscribedWhileConnected'
    BY <1>1, <1>2, OnlyConns DEF Inv, SubscribedWhileConnected, UserOf
<1>6. Entries' /\ Placeholders'
    BY <1>1, <1>2 DEF Inv, Entries, Placeholders, UserOf, Done
<1>7. Accounted'
    BY <1>1, <1>2 DEF Inv, Accounted, UserOf
<1>8. OnlineHeld'
    BY <1>1, <1>2 DEF Inv, OnlineHeld
<1> QED BY <1>3, <1>4, <1>5, <1>6, <1>7, <1>8 DEF Rest

\* Redis carries a SUBSCRIBE out.
LEMMA ConfirmStep ==
    ASSUME Inv, NEW s \in Subs, Confirm(s)
    PROVE  Rest'
<1>1. /\ sub[s] = "requested"
      /\ \A b \in Conns, u \in UserIDs :
            sub'[<<b, u>>] = IF <<b, u>> = s THEN "live" ELSE sub[<<b, u>>]
      /\ UNCHANGED <<pc, dev, left, byUser, userSubs, filled, closing, online>>
    BY DEF Confirm, Inv, TypeOK, connVars, tableVars, Subs
<1>2. Identities' /\ Closings' /\ Once' /\ Entries' /\ Placeholders'
    <2>1. Identities' /\ Once' /\ Entries' /\ Placeholders'
        BY <1>1 DEF Inv, Identities, Once, Entries, Placeholders, UserOf, Done
    <2>2. Closings'
        BY <1>1, Closers DEF Inv, Closings, UserOf
    <2> QED BY <2>1, <2>2
<1>3. RoutingTable' /\ SubscribedWhileConnected' /\ OnlineHeld'
    BY <1>1 DEF Inv, RoutingTable, LeftUsers, SubscribedWhileConnected, OnlineHeld, UserOf
<1>4. Accounted'
    BY <1>1 DEF Inv, Accounted, UserOf
<1> QED BY <1>2, <1>3, <1>4 DEF Rest

\* The placeholder is still there, so it gets its controllers.
LEMMA FillStep ==
    ASSUME Inv, NEW c \in Conns, Fill(c)
    PROVE  Rest'
<1>1. /\ pc[c] = "fill" /\ dev[c] # NoDevice /\ UserOf(c) \in UserIDs
      /\ userSubs[Node(c)][UserOf(c)] = c
    BY Homes DEF Fill, Inv, Identities, Placeholders, Bound
<1>2. /\ \A b \in Conns : pc'[b] = IF b = c THEN "online" ELSE pc[b]
      /\ filled' = filled \cup {<<c, UserOf(c)>>}
      /\ UNCHANGED <<dev, left, byUser, userSubs, sub, closing, online>>
    BY <1>1 DEF Fill, OwnSub, Goto, Inv, TypeOK, tableVars
<1>3. Identities' /\ Closings' /\ Once'
    BY <1>1, <1>2 DEF Inv, Identities, Closings, Once, Bound, UserOf, Done
<1>4. RoutingTable'
    BY <1>1, <1>2 DEF Inv, RoutingTable, LeftUsers, UserOf, Bound
<1>5. SubscribedWhileConnected'
    BY <1>1, <1>2, OnlyConns DEF Inv, SubscribedWhileConnected, UserOf
<1>6. Entries' /\ Placeholders'
    BY <1>1, <1>2 DEF Inv, Entries, Placeholders, UserOf, Done
<1>7. Accounted'
    BY <1>1, <1>2 DEF Inv, Accounted, UserOf
<1>8. OnlineHeld'
    BY <1>1, <1>2 DEF Inv, OnlineHeld
<1> QED BY <1>3, <1>4, <1>5, <1>6, <1>7, <1>8 DEF Rest

\* SetOnline, by a connection that will set the device offline.
LEMMA SetOnlineStep ==
    ASSUME Inv, NEW c \in Conns, SetOnline(c)
    PROVE  Rest'
<1>1. pc[c] = "online"
    BY DEF SetOnline
<1>2. /\ \A b \in Conns : pc'[b] = IF b = c THEN "announce" ELSE pc[b]
      /\ online' = online \cup {dev[c]}
      /\ UNCHANGED <<dev, left, byUser, userSubs, sub, filled, closing>>
    BY DEF SetOnline, Goto, Inv, TypeOK, tableVars, subVars
<1>3. Identities' /\ Closings' /\ Once' /\ Entries' /\ Placeholders'
    BY <1>1, <1>2 DEF Inv, Identities, Closings, Once, Entries, Placeholders,
                      UserOf, Bound, Done
<1>4. RoutingTable'
    BY <1>1, <1>2 DEF Inv, RoutingTable, LeftUsers, UserOf, Bound
<1>5. SubscribedWhileConnected'
    BY <1>1, <1>2, OnlyConns DEF Inv, SubscribedWhileConnected, UserOf
<1>6. Accounted'
    BY <1>1, <1>2 DEF Inv, Accounted, UserOf
<1>7. OnlineHeld'
    BY <1>1, <1>2 DEF Inv, OnlineHeld
<1> QED BY <1>3, <1>4, <1>5, <1>6, <1>7 DEF Rest

\* SetOffline takes the device out, so nobody needs to do it again.
LEMMA SetOfflineStep ==
    ASSUME Inv, NEW c \in Conns, SetOffline(c)
    PROVE  Rest'
<1>1. pc[c] = "offline" /\ dev[c] # NoDevice
    BY DEF SetOffline, Inv, Identities
<1>2. /\ \A b \in Conns : pc'[b] = IF b = c THEN "farewell" ELSE pc[b]
      /\ online' = online \ {dev[c]}
      /\ UNCHANGED <<dev, left, byUser, userSubs, sub, filled, closing>>
    BY DEF SetOffline, Offline, Goto, Inv, TypeOK, tableVars, subVars
<1>3. Identities' /\ Closings' /\ Once' /\ Entries' /\ Placeholders'
    BY <1>1, <1>2 DEF Inv, Identities, Closings, Once, Entries, Placeholders,
                      UserOf, Bound, Done
<1>4. RoutingTable'
    BY <1>1, <1>2 DEF Inv, RoutingTable, LeftUsers, UserOf, Bound
<1>5. SubscribedWhileConnected'
    BY <1>1, <1>2, OnlyConns DEF Inv, SubscribedWhileConnected, UserOf
<1>6. Accounted'
    BY <1>1, <1>2 DEF Inv, Accounted, UserOf
<1>7. OnlineHeld'
    BY <1>1, <1>2 DEF Inv, OnlineHeld
<1> QED BY <1>3, <1>4, <1>5, <1>6, <1>7 DEF Rest

\* The last connection of a user closes the subscription it took out of the table.
LEMMA CloseSubStep ==
    ASSUME Inv, NEW c \in Conns, CloseSub(c)
    PROVE  Rest'
<1>1. /\ pc[c] = "unsub" /\ dev[c] # NoDevice
      /\ closing[c] \in Conns /\ UserOf(c) \in UserIDs
      /\ <<closing[c], UserOf(c)>> \in filled
      /\ userSubs[Node(closing[c])][UserOf(c)] # closing[c]
    BY DEF CloseSub, Inv, TypeOK, Identities, Closings, Subs
<1>2. /\ \A b \in Conns : pc'[b] = IF b = c THEN "offline" ELSE pc[b]
      /\ \A b \in Conns, u \in UserIDs :
            sub'[<<b, u>>] = IF b = closing[c] /\ u = UserOf(c) THEN "closed" ELSE sub[<<b, u>>]
      /\ \A b \in Conns : closing'[b] = IF b = c THEN NoSub ELSE closing[b]
      /\ UNCHANGED <<dev, left, byUser, userSubs, filled, online>>
    BY <1>1 DEF CloseSub, Goto, Inv, TypeOK, tableVars, Subs
<1>3. Identities' /\ Once' /\ Placeholders'
    BY <1>1, <1>2 DEF Inv, Identities, Once, Placeholders, UserOf, Bound, Done
<1>c. Closings'
    <2> SUFFICES ASSUME NEW b \in Conns, pc'[b] = "unsub"
                 PROVE  /\ <<closing'[b], UserOf(b)>> \in filled
                        /\ sub'[<<closing'[b], UserOf(b)>>] # "closed"
                        /\ userSubs[Node(closing'[b])][UserOf(b)] # closing'[b]
                        /\ \A a \in Conns :
                              /\ pc'[a] = "unsub"
                              /\ <<closing'[a], UserOf(a)>> = <<closing'[b], UserOf(b)>>
                              => a = b
        BY <1>2 DEF Closings, UserOf
    <2>1. \A a \in Conns : pc'[a] = "unsub" => pc[a] = "unsub" /\ a # c /\ closing'[a] = closing[a]
        BY <1>2
    <2>2. <<closing[b], UserOf(b)>> # <<closing[c], UserOf(c)>>
        BY <1>1, <2>1 DEF Inv, Closings
    <2>3. sub'[<<closing[b], UserOf(b)>>] = sub[<<closing[b], UserOf(b)>>]
        BY <1>2, <2>1, <2>2, Closers
    <2> QED BY <2>1, <2>3 DEF Inv, Closings
<1>4. RoutingTable'
    BY <1>1, <1>2 DEF Inv, RoutingTable, LeftUsers, UserOf, Bound
<1>5. SubscribedWhileConnected'
    BY <1>1, <1>2, OnlyConns DEF Inv, SubscribedWhileConnected, UserOf
<1>6. Entries'
    BY <1>1, <1>2 DEF Inv, Entries, UserOf, Done
<1>7. Accounted'
    BY <1>1, <1>2 DEF Inv, Accounted, UserOf
<1>8. OnlineHeld'
    BY <1>1, <1>2 DEF Inv, OnlineHeld
<1> QED BY <1>3, <1>c, <1>4, <1>5, <1>6, <1>7, <1>8 DEF Rest

\* unregister under the lock: whoever is the last takes the subscription along.
LEMMA UnbindStep ==
    ASSUME Inv, NEW c \in Conns, Unbind(c)
    PROVE  Rest'
<1>1. /\ pc[c] = "unbind" /\ UNCHANGED <<dev, left, sub, filled, online>>
    BY DEF Unbind
<1>2. CASE dev[c] = NoDevice
    <2>1. /\ \A b \in Conns : pc'[b] = IF b = c THEN "close" ELSE pc[b]
          /\ UNCHANGED <<byUser, userSubs, closing>>
        BY <1>2 DEF Unbind, Goto, Inv, TypeOK, tableVars
    <2>2. Identities' /\ Closings' /\ Once' /\ Entries' /\ Placeholders'
        BY <1>1, <1>2, <2>1 DEF Inv, Identities, Closings, Once, Entries,
                                Placeholders, UserOf, Bound, Done
    <2>3. RoutingTable'
        BY <1>1, <1>2, <2>1 DEF Inv, RoutingTable, LeftUsers, UserOf, Bound
    <2>4. SubscribedWhileConnected'
        BY <1>1, <2>1, OnlyConns DEF Inv, SubscribedWhileConnected, UserOf
    <2>5. Accounted'
        BY <1>1, <2>1 DEF Inv, Accounted, UserOf
    <2>6. OnlineHeld'
        <3>1. NoDevice \notin online
            BY DEF Inv, TypeOK
        <3> QED BY <1>1, <1>2, <2>1, <3>1 DEF Inv, OnlineHeld
    <2> QED BY <2>2, <2>3, <2>4, <2>5, <2>6 DEF Rest
<1>3. CASE dev[c] # NoDevice
    <2> DEFINE n0 == Node(c)
               u0 == UserOf(c)
    <2>1. n0 \in Nodes /\ u0 \in UserIDs /\ c \in byUser[n0][u0]
        BY <1>1, <1>3, Homes DEF Inv, RoutingTable, LeftUsers
    <2>2. \A n \in Nodes, u \in UserIDs :
              byUser'[n][u] = IF n = n0 /\ u = u0 THEN byUser[n][u] \ {c} ELSE byUser[n][u]
        <3>1. byUser' = [byUser EXCEPT ![n0][u0] = byUser[n0][u0] \ {c}]
            BY <1>3 DEF Unbind, Remaining
        <3>2. byUser \in [Nodes -> [UserIDs -> SUBSET Conns]]
            BY DEF Inv, TypeOK
        <3>3. n0 \in Nodes /\ u0 \in UserIDs
            BY <2>1
        <3> HIDE DEF n0, u0
        <3> QED BY ZenonT(60), <3>1, <3>2, <3>3
    <2>3. RoutingTable'
        <3> SUFFICES ASSUME NEW b \in Conns, NEW n \in Nodes, NEW u \in UserIDs
                     PROVE  b \in byUser'[n][u] <=>
                                /\ n = Node(b) /\ dev[b] # NoDevice
                                /\ \/ u = UserOf(b) /\ pc'[b] \in Bound \cup {"unbind"}
                                   \/ u \in LeftUsers(b)
                                   \/ /\ u = UserOf(b) /\ pc'[b] = "bind"
                                      /\ \E d \in left[b] : Owner[d] = u
            BY <1>1 DEF RoutingTable, UserOf, LeftUsers
        <3>1. /\ b # c => pc'[b] = pc[b]
              /\ pc'[c] \in {"unsub", "offline"}
            BY <1>3 DEF Unbind, Goto, Inv, TypeOK
        <3>2. b \in byUser'[n][u] <=> b \in byUser[n][u] /\ ~(b = c /\ n = n0 /\ u = u0)
            BY <2>2
        <3> QED BY <1>3, <3>1, <3>2 DEF Inv, RoutingTable, LeftUsers, Bound
    <2>4. CASE LastOfUser(c) /\ userSubs[n0][u0] # NoSub
        <3> DEFINE s0 == userSubs[n0][u0]
        <3>1. /\ \A b \in Conns : pc'[b] = IF b = c THEN "unsub" ELSE pc[b]
              /\ \A b \in Conns : closing'[b] = IF b = c THEN s0 ELSE closing[b]
              /\ \A n \in Nodes, u \in UserIDs :
                    userSubs'[n][u] = IF n = n0 /\ u = u0 THEN NoSub ELSE userSubs[n][u]
            BY <1>3, <2>1, <2>4 DEF Unbind, Goto, Inv, TypeOK
        <3>2. byUser[n0][u0] = {c}
            BY <2>4 DEF LastOfUser
        <3>3. /\ s0 \in Conns /\ n0 = Node(s0) /\ dev[s0] # NoDevice
              /\ s0 = c \/ (UserOf(s0) = u0 /\ pc[s0] \in Done)
              /\ (UserOf(s0) = u0 /\ pc[s0] \in {"subscribe", "fill"}) \/ <<s0, u0>> \in filled
              /\ sub[<<s0, u0>>] # "closed"
            BY <2>1, <2>4, <3>2 DEF Inv, TypeOK, Entries
        <3>4. \A b \in Conns : pc[b] \in {"subscribe", "fill"} => ~(Node(b) = n0 /\ UserOf(b) = u0)
            <4> SUFFICES ASSUME NEW b \in Conns, pc[b] \in {"subscribe", "fill"},
                                Node(b) = n0, UserOf(b) = u0
                         PROVE  FALSE
                OBVIOUS
            <4>1. b \in byUser[n0][u0]
                BY <2>1 DEF Inv, RoutingTable, Identities, Bound
            <4> QED BY <1>1, <3>2, <4>1
        <3>5. <<s0, u0>> \in filled
            BY <3>3, <3>4
        <3>6. Identities' /\ Once'
            <4>1. Identities'
                BY <1>1, <1>3, <3>1 DEF Inv, Identities, Bound
            <4>2. Once'
                <5> SUFFICES ASSUME NEW b \in Conns, NEW u \in UserIDs,
                                    sub[<<b, u>>] # "none" \/ <<b, u>> \in filled
                             PROVE  \/ userSubs'[Node(b)][u] = b
                                    \/ dev[b] # NoDevice /\ UserOf(b) = u /\ pc'[b] \in Done
                    BY <1>1 DEF Once, UserOf
                <5>1. \/ userSubs[Node(b)][u] = b
                      \/ dev[b] # NoDevice /\ UserOf(b) = u /\ pc[b] \in Done
                    BY DEF Inv, Once
                <5>2. CASE userSubs[Node(b)][u] = b
                    BY <1>1, <1>3, <3>1, <3>3, <5>2, Homes DEF Inv, Done
                <5>3. CASE dev[b] # NoDevice /\ UserOf(b) = u /\ pc[b] \in Done
                    BY <3>1, <5>3 DEF Done
                <5> QED BY <5>1, <5>2, <5>3
            <4> QED BY <4>1, <4>2
        <3>7. Closings'
            <4>1. \A b \in Conns : pc[b] = "unsub" => <<closing[b], UserOf(b)>> # <<s0, u0>>
                BY <2>1, <3>3 DEF Inv, Closings
            <4>2. \A n \in Nodes, u \in UserIDs : userSubs'[n][u] \in {userSubs[n][u], NoSub}
                BY <3>1
            <4>3. \A b \in Conns : pc[b] = "unsub" =>
                      /\ closing[b] \in Conns /\ UserOf(b) \in UserIDs
                      /\ Node(closing[b]) \in Nodes
                BY Closers
            <4>4. \A b \in Conns : pc[b] = "unsub" =>
                      userSubs'[Node(closing[b])][UserOf(b)] # closing[b]
                BY <4>2, <4>3, Homes DEF Inv, Closings
            <4> SUFFICES ASSUME NEW b \in Conns, pc'[b] = "unsub"
                         PROVE  /\ <<closing'[b], UserOf(b)>> \in filled
                                /\ sub[<<closing'[b], UserOf(b)>>] # "closed"
                                /\ userSubs'[Node(closing'[b])][UserOf(b)] # closing'[b]
                                /\ \A a \in Conns :
                                      /\ pc'[a] = "unsub"
                                      /\ <<closing'[a], UserOf(a)>> = <<closing'[b], UserOf(b)>>
                                      => a = b
                BY <1>1 DEF Closings, UserOf
            <4>5. CASE b = c
                <5>1. closing'[b] = s0 /\ UserOf(b) = u0 /\ userSubs'[Node(s0)][u0] = NoSub
                    BY <2>1, <3>1, <3>3, <4>5
                <5>2. \A a \in Conns : a # c /\ pc'[a] = "unsub" =>
                          <<closing'[a], UserOf(a)>> # <<s0, u0>>
                    BY <3>1, <4>1
                <5> QED BY <3>3, <3>5, <4>5, <5>1, <5>2
            <4>6. CASE b # c
                <5>1. pc[b] = "unsub" /\ closing'[b] = closing[b]
                    BY <3>1, <4>6
                <5>2. \A a \in Conns : pc'[a] = "unsub" /\ a # c =>
                          pc[a] = "unsub" /\ closing'[a] = closing[a]
                    BY <3>1
                <5>3. <<closing'[c], UserOf(c)>> # <<closing'[b], UserOf(b)>>
                    BY <3>1, <4>1, <5>1
                <5> QED BY <4>4, <5>1, <5>2, <5>3 DEF Inv, Closings
            <4> QED BY <4>5, <4>6
        <3>8. SubscribedWhileConnected'
            <4> SUFFICES ASSUME NEW n \in Nodes, NEW u \in UserIDs
                         PROVE  /\ userSubs'[n][u] # NoSub => byUser'[n][u] # {}
                                /\ byUser'[n][u] # {} => \/ userSubs'[n][u] # NoSub
                                                         \/ \E b \in byUser'[n][u] : pc'[b] = "reserve" /\ UserOf(b) = u
                BY <1>1 DEF SubscribedWhileConnected, UserOf
            <4>1. CASE n = n0 /\ u = u0
                BY <2>1, <2>2, <3>1, <3>2, <4>1
            <4>2. CASE ~(n = n0 /\ u = u0)
                <5>1. byUser'[n][u] = byUser[n][u] /\ userSubs'[n][u] = userSubs[n][u]
                    BY <2>2, <3>1, <4>2
                <5> QED BY <1>1, <3>1, <5>1, OnlyConns DEF Inv, SubscribedWhileConnected, UserOf
            <4> QED BY <4>1, <4>2
        <3>9. Entries'
            <4> SUFFICES ASSUME NEW n \in Nodes, NEW u \in UserIDs, NEW b \in Conns,
                                userSubs'[n][u] = b
                         PROVE  /\ n = Node(b) /\ dev[b] # NoDevice
                                /\ b \in byUser'[n][u] \/ (UserOf(b) = u /\ pc'[b] \in Done)
                                /\ \/ UserOf(b) = u /\ pc'[b] \in {"subscribe", "fill"}
                                   \/ <<b, u>> \in filled
                                /\ sub[<<b, u>>] # "closed"
                BY <1>1 DEF Entries, UserOf
            <4>1. /\ n = Node(b) /\ dev[b] # NoDevice
                  /\ b \in byUser[n][u] \/ (UserOf(b) = u /\ pc[b] \in Done)
                  /\ (UserOf(b) = u /\ pc[b] \in {"subscribe", "fill"}) \/ <<b, u>> \in filled
                  /\ sub[<<b, u>>] # "closed"
                BY <3>1 DEF Inv, Entries
            <4>2. CASE b # c
                <5>1. pc'[b] = pc[b] /\ (b \in byUser[n][u] => b \in byUser'[n][u])
                    BY <2>2, <3>1, <4>2
                <5> QED BY <4>1, <5>1
            <4>3. CASE b = c
                <5>1. c \in byUser'[n][u] \/ (UserOf(c) = u /\ pc'[c] \in Done)
                    BY <1>1, <2>2, <3>1, <4>1, <4>3 DEF Done
                <5> QED BY <1>1, <4>1, <4>3, <5>1
            <4> QED BY <4>2, <4>3
        <3>10. Placeholders'
            BY <1>1, <3>1, <3>4, Homes DEF Inv, Placeholders, Identities, Bound, UserOf
        <3>11. Accounted'
            <4> SUFFICES ASSUME NEW s \in Conns, NEW u \in UserIDs,
                                sub[<<s, u>>] \in {"requested", "live"}
                         PROVE  \/ userSubs'[Node(s)][u] = s
                                \/ \E b \in Conns : /\ pc'[b] = "unsub" /\ closing'[b] = s
                                                     /\ UserOf(b) = u
                BY <1>1 DEF Accounted, UserOf
            <4>1. CASE userSubs[Node(s)][u] = s
                <5>1. CASE Node(s) = n0 /\ u = u0
                    BY <3>1, <4>1, <5>1
                <5>2. CASE ~(Node(s) = n0 /\ u = u0)
                    BY <3>1, <4>1, <5>2, Homes DEF Inv
                <5> QED BY <5>1, <5>2
            <4>2. CASE userSubs[Node(s)][u] # s
                <5>1. PICK b \in Conns : pc[b] = "unsub" /\ closing[b] = s /\ UserOf(b) = u
                    BY <4>2 DEF Inv, Accounted
                <5> QED BY <1>1, <3>1, <5>1
            <4> QED BY <4>1, <4>2
        <3>12. OnlineHeld'
            BY <1>1, <3>1 DEF Inv, OnlineHeld
        <3> QED BY <2>3, <3>6, <3>7, <3>8, <3>9, <3>10, <3>11, <3>12 DEF Rest
    <2>5. CASE ~(LastOfUser(c) /\ userSubs[n0][u0] # NoSub)
        <3>1. /\ \A b \in Conns : pc'[b] = IF b = c THEN "offline" ELSE pc[b]
              /\ UNCHANGED <<userSubs, closing>>
            BY <1>3, <2>5 DEF Unbind, Goto, Inv, TypeOK
        <3>2. byUser[n0][u0] = {c} => userSubs[n0][u0] = NoSub
            BY <2>5 DEF LastOfUser
        <3>3. Identities' /\ Closings' /\ Once' /\ Placeholders'
            BY <1>1, <1>3, <3>1 DEF Inv, Identities, Closings, Once,
                                    Placeholders, UserOf, Bound, Done
        <3>e. Entries'
            <4> SUFFICES ASSUME NEW n \in Nodes, NEW u \in UserIDs, NEW b \in Conns,
                                userSubs[n][u] = b
                         PROVE  /\ n = Node(b) /\ dev[b] # NoDevice
                                /\ b \in byUser'[n][u] \/ (UserOf(b) = u /\ pc'[b] \in Done)
                                /\ \/ UserOf(b) = u /\ pc'[b] \in {"subscribe", "fill"}
                                   \/ <<b, u>> \in filled
                                /\ sub[<<b, u>>] # "closed"
                BY <1>1, <3>1 DEF Entries, UserOf
            <4>1. /\ n = Node(b) /\ dev[b] # NoDevice
                  /\ b \in byUser[n][u] \/ (UserOf(b) = u /\ pc[b] \in Done)
                  /\ (UserOf(b) = u /\ pc[b] \in {"subscribe", "fill"}) \/ <<b, u>> \in filled
                  /\ sub[<<b, u>>] # "closed"
                BY DEF Inv, Entries
            <4>2. CASE b # c
                <5>1. pc'[b] = pc[b] /\ (b \in byUser[n][u] => b \in byUser'[n][u])
                    BY <2>2, <3>1, <4>2
                <5> QED BY <4>1, <5>1
            <4>3. CASE b = c
                <5>1. c \in byUser'[n][u] \/ (UserOf(c) = u /\ pc'[c] \in Done)
                    BY <1>1, <2>2, <3>1, <4>1, <4>3 DEF Done
                <5> QED BY <1>1, <4>1, <4>3, <5>1
            <4> QED BY <4>2, <4>3
        <3>4. SubscribedWhileConnected'
            <4> SUFFICES ASSUME NEW n \in Nodes, NEW u \in UserIDs
                         PROVE  /\ userSubs[n][u] # NoSub => byUser'[n][u] # {}
                                /\ byUser'[n][u] # {} => \/ userSubs[n][u] # NoSub
                                                         \/ \E b \in byUser'[n][u] : pc'[b] = "reserve" /\ UserOf(b) = u
                BY <1>1, <3>1 DEF SubscribedWhileConnected, UserOf
            <4>1. userSubs[n][u] # NoSub => byUser'[n][u] # {}
                <5>1. CASE n = n0 /\ u = u0
                    BY <2>1, <2>2, <3>2, <5>1
                <5>2. CASE ~(n = n0 /\ u = u0)
                    <6>1. byUser'[n][u] = byUser[n][u]
                        BY <2>2, <5>2
                    <6> QED BY <6>1 DEF Inv, SubscribedWhileConnected
                <5> QED BY <5>1, <5>2
            <4>2. byUser'[n][u] \subseteq byUser[n][u] /\ byUser[n][u] \ {c} \subseteq byUser'[n][u]
                BY <2>2
            <4> QED BY <1>1, <3>1, <4>1, <4>2, OnlyConns DEF Inv, SubscribedWhileConnected, UserOf
        <3>5. Accounted'
            BY <1>1, <3>1 DEF Inv, Accounted, UserOf
        <3>6. OnlineHeld'
            BY <1>1, <3>1 DEF Inv, OnlineHeld
        <3> QED BY <2>3, <3>3, <3>e, <3>4, <3>5, <3>6 DEF Rest
    <2> QED BY <2>4, <2>5
<1> QED BY <1>2, <1>3

\* A dispatcher ends after its subscription was closed.
LEMMA StopDispatchStep ==
    ASSUME Inv, NEW s \in Subs, StopDispatch(s)
    PROVE  Rest'
<1>1. /\ sub[s] = "closed" /\ filled' = filled \ {s}
      /\ UNCHANGED <<pc, dev, left, byUser, userSubs, sub, closing, online>>
    BY DEF StopDispatch, connVars, tableVars
<1>2. Identities' /\ Closings' /\ Once' /\ Entries' /\ Placeholders'
    BY <1>1 DEF Inv, Identities, Closings, Once, Entries, Placeholders, UserOf, Done
<1>3. RoutingTable' /\ SubscribedWhileConnected' /\ OnlineHeld' /\ Accounted'
    BY <1>1 DEF Inv, RoutingTable, LeftUsers, SubscribedWhileConnected, OnlineHeld, Accounted, UserOf
<1> QED BY <1>2, <1>3 DEF Rest

\* Every step keeps the invariant.
LEMMA InvStep == Inv /\ [Next]_vars => Inv'
<1> SUFFICES ASSUME Inv, [Next]_vars PROVE Inv'
    OBVIOUS
<1> USE DEF connVars, tableVars, subVars, jobVars, sendVars
<1>1. ASSUME NEW c \in Conns, ConnNext(c) PROVE Rest'
    <2>1. CASE Register(c)
        BY <2>1, MoveStep DEF Register
    <2>2. CASE ReadError(c)
        BY <2>2, MoveStep DEF ReadError
    <2>3. CASE Announce(c)
        BY <2>3, MoveStep DEF Announce
    <2>4. CASE SendReply(c)
        BY <2>4, MoveStep DEF SendReply
    <2>5. CASE Close(c)
        BY <2>5, MoveStep DEF Close
    <2>6. CASE WriteBegin(c) \/ WriteEnd(c) \/ WriterExit(c)
        BY <2>6, Frame DEF WriteBegin, WriteEnd, WriterExit
    <2> QED BY <1>1, <2>1, <2>2, <2>3, <2>4, <2>5, <2>6, AuthenticateStep, BindUserStep,
               ReserveStep, SubscribeStep, FillStep, SetOnlineStep, UnbindStep,
               CloseSubStep, SetOfflineStep DEF ConnNext, Handle
<1>2. ASSUME NEW d \in Devices, ExpirePresence(d) PROVE Rest'
    BY <1>2 DEF ExpirePresence, Inv, Rest, Identities, RoutingTable, SubscribedWhileConnected,
                Entries, Placeholders, Closings, Once, Accounted,
                OnlineHeld, UserOf, Done, LeftUsers
<1>3. ASSUME UNCHANGED vars PROVE Rest'
    <2>1. UNCHANGED <<pc, dev, left, byUser, userSubs, sub, filled, closing, online>>
        BY <1>3 DEF vars
    <2> QED BY <2>1, Frame
<1>4. ASSUME NEW e \in Events, NEW n \in Nodes, NEW r \in Routes, SendToUser(e, n, r)
      PROVE  Rest'
    BY <1>4, Frame DEF SendToUser
<1>5. ASSUME NEW s \in Subs, NEW e \in Events, Dispatch(s, e) PROVE Rest'
    BY <1>5, Frame DEF Dispatch
<1>6. ASSUME NEW x \in Deliverers, NEW c \in Conns, NEW e \in Events, SendTo(x, c, e)
      PROVE  Rest'
    BY <1>6, Frame DEF SendTo
<1>7. Rest'
    BY <1>1, <1>2, <1>3, <1>4, <1>5, <1>6, ConfirmStep, StopDispatchStep DEF Next
<1> QED BY <1>7, TypeStep, RoutedStep DEF Inv, Rest

-----------------------------------------------------------------------------
(* Theorems *)

\* The inductive invariant of the hub: in particular, a subscription is closed by
\* one connection only (Closings).
THEOREM Invariance == Spec => []Inv
<1>1. Init => Inv
    <2> SUFFICES ASSUME Init PROVE Inv
        OBVIOUS
    <2>1. TypeOK
        BY DEF Init, TypeOK, Positions
    <2>2. Routed /\ Identities /\ Closings /\ Once /\ Accounted /\ Placeholders
        BY DEF Init, Routed, Identities, Closings, Once, Accounted, Placeholders, Bound, Subs
    <2>3. RoutingTable /\ SubscribedWhileConnected /\ Entries /\ OnlineHeld
        BY DEF Init, RoutingTable, SubscribedWhileConnected, Entries, OnlineHeld
    <2> QED BY <2>1, <2>2, <2>3 DEF Inv
<1> QED BY <1>1, InvStep, PTL DEF Spec

\* Every variable of the hub keeps its type; send channels stay in their buffers.
THEOREM TypeCorrect == Spec => []TypeOK
BY Invariance, PTL DEF Inv

\* A user has a subscription on a node exactly while connected there.
THEOREM Subscribed == Spec => []SubscribedWhileConnected
BY Invariance, PTL DEF Inv

\* A placeholder stays until it is filled: the rollback of ensureUserSubscription
\* is never needed.
THEOREM PlaceholdersStay == Spec => []Placeholders
BY Invariance, PTL DEF Inv

\* No race of connections leaks a subscription: one that Redis serves has a
\* connection that will end it, or that is closing it, or is held by a connection
\* that has authenticated as another user.
THEOREM NothingLeaks == Spec => []NoSubscriptionLeak
<1>1. Inv => NoSubscriptionLeak
    <2> SUFFICES ASSUME Inv, NEW s \in Conns, NEW u \in UserIDs,
                        sub[<<s, u>>] \in {"requested", "live"}
                 PROVE  \/ /\ userSubs[Node(s)][u] = s
                           /\ \E c \in Conns :
                                Node(c) = Node(s) /\ (Holds(c, u) \/ u \in LeftUsers(c))
                        \/ \E c \in Conns : pc[c] = "unsub" /\ closing[c] = s /\ UserOf(c) = u
        BY DEF NoSubscriptionLeak, Subs
    <2>1. CASE userSubs[Node(s)][u] = s
        <3>1. Node(s) \in Nodes /\ byUser[Node(s)][u] # {} /\ byUser[Node(s)][u] \subseteq Conns
            BY <2>1, Homes, OnlyConns DEF Inv, SubscribedWhileConnected
        <3>2. PICK c \in Conns : c \in byUser[Node(s)][u]
            BY <3>1
        <3>3. Node(c) = Node(s) /\ (Holds(c, u) \/ u \in LeftUsers(c))
            BY <3>1, <3>2 DEF Inv, RoutingTable, Holds
        <3> QED BY <2>1, <3>3
    <2>2. CASE userSubs[Node(s)][u] # s
        BY <2>2 DEF Inv, Accounted
    <2> QED BY <2>1, <2>2
<1> QED BY <1>1, Invariance, PTL

\* A device that is online has a connection that will set it offline, or one that
\* was this device and has authenticated as another.
THEOREM NoGhosts == Spec => []NoGhostOnline
<1>1. Inv => NoGhostOnline
    BY DEF Inv, OnlineHeld, NoGhostOnline
<1> QED BY <1>1, Invariance, PTL

-----------------------------------------------------------------------------
(* The call commands: what a handler has to do *)

HIDE FunctionAssumption
HIDE NullAssumption
HIDE BufferAssumption

\* Two steps in a row are a plan of two.
LEMMA Joined == ASSUME NEW x, NEW y PROVE <<x>> \o <<y>> = <<x, y>>
<1> DEFINE s == <<x>> \o <<y>>
<1>1. s \in Seq({x, y}) /\ Len(s) = 2 /\ s[1] = x /\ s[2] = y
    OBVIOUS
<1> HIDE DEF s
<1>2. s = <<s[1], s[2]>>
    BY <1>1
<1> QED BY <1>1, <1>2 DEF s

\* What a command has to do, operation by operation.
LEMMA TodoValues ==
    /\ \A via \in Vias : Todo("create", via) = <<"ring">>
    /\ Todo("accept", "ws") = <<"broadcast", "stop">> /\ Todo("accept", "http") = <<"stop">>
    /\ Todo("end", "ws") = <<"broadcast">> /\ Todo("end", "http") = <<>>
    /\ Todo("cancel", "ws") = <<"cancel", "broadcast">> /\ Todo("cancel", "http") = <<"cancel">>
    /\ Todo("timeout", "timer") = <<"cancel">>
<1>1. /\ \A via : Pushes("create", via) = <<"ring">> /\ Pushes("accept", via) = <<"stop">>
      /\ \A via : Pushes("end", via) = <<>> /\ Pushes("cancel", via) = <<"cancel">>
      /\ \A via : Pushes("timeout", via) = <<"cancel">>
    BY DEF Pushes
<1>2. /\ \A via : Todo("create", via) = Pushes("create", via)
      /\ \A op \in Ops :
            Todo(op, "http") = Pushes(op, "http") /\ Todo(op, "timer") = Pushes(op, "timer")
      /\ Todo("cancel", "ws") = Pushes("cancel", "ws") \o <<"broadcast">>
      /\ Todo("accept", "ws") = <<"broadcast">> \o Pushes("accept", "ws")
      /\ Todo("end", "ws") = <<"broadcast">> \o Pushes("end", "ws")
    BY DEF Todo
<1>3. /\ <<"cancel">> \o <<"broadcast">> = <<"cancel", "broadcast">>
      /\ <<"broadcast">> \o <<"stop">> = <<"broadcast", "stop">>
      /\ <<"broadcast">> \o <<>> = <<"broadcast">>
    BY Joined
<1> QED BY <1>1, <1>2, <1>3 DEF Ops, Vias

\* The plans, operation by operation.
LEMMA PlanValues ==
    /\ Plans("create") = {<<"ring">>}
    /\ Plans("accept") = {<<"broadcast", "stop">>, <<"stop">>}
    /\ Plans("end") = {<<"broadcast">>}
    /\ Plans("cancel") = {<<"cancel", "broadcast">>, <<"cancel">>, <<"broadcast">>}
    /\ Plans("timeout") = {<<"cancel">>}
BY DEF Plans

\* A plan of one step.
LEMMA ShortPlan ==
    ASSUME NEW x \in Steps
    PROVE  Len(<<x>>) = 1 /\ Head(<<x>>) = x /\ <<x>> # <<>> /\ <<x>> \in Seq(Steps)
OBVIOUS

\* A plan of two steps.
LEMMA LongPlan ==
    ASSUME NEW x \in Steps, NEW y \in Steps
    PROVE  /\ Len(<<x, y>>) = 2 /\ Head(<<x, y>>) = x /\ Tail(<<x, y>>) = <<y>>
           /\ <<x, y>> # <<>> /\ <<x, y>> \in Seq(Steps)
OBVIOUS

\* A plan is a sequence of steps that is not empty.
LEMMA Planned ==
    ASSUME NEW op \in Ops, NEW t \in Plans(op)
    PROVE  t \in Seq(Steps) \ {<<>>}
<1>1. "ring" \in Steps /\ "stop" \in Steps /\ "cancel" \in Steps /\ "broadcast" \in Steps
    BY DEF Steps
<1>2. PICK x \in Steps, y \in Steps : t = <<x>> \/ t = <<x, y>>
    <2>1. t \in {<<"ring">>, <<"stop">>, <<"cancel">>, <<"broadcast">>}
              \cup {<<"broadcast", "stop">>, <<"cancel", "broadcast">>}
        BY PlanValues DEF Ops
    <2> QED BY <1>1, <2>1
<1> QED BY <1>2, ShortPlan, LongPlan

\* Plans of one and of two steps are different, and so are those of different steps.
LEMMA Different ==
    ASSUME NEW x, NEW y, NEW z
    PROVE <<x, y>> # <<z>> /\ (<<x>> = <<y>> => x = y)
OBVIOUS

\* A command that starts a handler adds one with the plan of its operation.
LEMMA Starts ==
    ASSUME NEW op \in Ops, NEW c \in Calls, NEW u \in Users, NEW via, NEW to \in SUBSET Users,
           Start(Handler(op, c, u, via, to)), Todo(op, via) \in Plans(op)
    PROVE  \E g \in Handlers :
               /\ g.op = op /\ g.call = c /\ g.user = u /\ g.to = to /\ g.todo = Todo(op, via)
               /\ handlers' = handlers \cup {g}
<1> DEFINE g == Handler(op, c, u, via, to)
<1>1. g.op = op /\ g.call = c /\ g.user = u /\ g.to = to /\ g.todo = Todo(op, via)
    BY DEF Handler
<1>2. Todo(op, via) \in Seq(Steps) \ {<<>>}
    BY Planned
<1>3. g \in Handlers
    BY <1>2 DEF Handler, Handlers
<1>4. handlers' = handlers \cup {g}
    BY <1>1, <1>2 DEF Start
<1> QED BY <1>1, <1>3, <1>4

\* A handler with one step ends, one with two goes on with the second.
LEMMA Advances ==
    ASSUME NEW h \in Handlers, Advance(h)
    PROVE  /\ \A x \in Steps : h.todo = <<x>> => handlers' = handlers \ {h}
           /\ \A x, y \in Steps : h.todo = <<x, y>> =>
                 \E g \in Handlers :
                     /\ g.op = h.op /\ g.call = h.call /\ g.user = h.user
                     /\ g.to = h.to /\ g.todo = <<y>>
                     /\ handlers' = (handlers \ {h}) \cup {g}
<1>1. ASSUME NEW x \in Steps, h.todo = <<x>> PROVE handlers' = handlers \ {h}
    BY <1>1, ShortPlan DEF Advance
<1>2. ASSUME NEW x \in Steps, NEW y \in Steps, h.todo = <<x, y>>
      PROVE  \E g \in Handlers :
                     /\ g.op = h.op /\ g.call = h.call /\ g.user = h.user
                     /\ g.to = h.to /\ g.todo = <<y>>
                     /\ handlers' = (handlers \ {h}) \cup {g}
    <2> DEFINE g == [h EXCEPT !.todo = Tail(@)]
    <2>1. Tail(h.todo) = <<y>> /\ Len(h.todo) = 2 /\ <<y>> \in Seq(Steps) \ {<<>>}
        BY <1>2, LongPlan, ShortPlan
    <2>2. /\ g.op = h.op /\ g.call = h.call /\ g.user = h.user /\ g.to = h.to /\ g.todo = <<y>>
          /\ g \in Handlers
        BY <2>1 DEF Handlers
    <2>3. handlers' = (handlers \ {h}) \cup {g}
        BY <2>1 DEF Advance
    <2> QED BY <2>2, <2>3
<1> QED BY <1>1, <1>2


-----------------------------------------------------------------------------
(* The commands *)

\* The invariant without its part on overtaking.
BridgeRest ==
    /\ BridgeTypeOK
    /\ AnsweredElsewhere
    /\ NoFalseNotice
    /\ Created
    /\ Snapshots
    /\ Rung
    /\ Withdrawn
    /\ Told

\* A created call is new: nothing refers to it yet.
LEMMA CreateCallStep ==
    ASSUME BridgeInv, NEW c \in Calls, NEW u \in Users, NEW callees \in SUBSET Users,
           NEW group \in BOOLEAN, NEW via \in Vias, CreateCall(c, u, callees, group, via)
    PROVE  BridgeRest'
<1>1. /\ phase[c] = "none"
      /\ phase' \in [Calls -> {"none"} \cup Open \cup Over] /\ phase'[c] = "ringing"
      /\ caller' \in [Calls -> Users \cup {NoUser}] /\ caller'[c] = u
      /\ members' \in [Calls -> SUBSET Users] /\ members'[c] = callees \cup {u}
      /\ invited' \in [Calls -> SUBSET Users] /\ invited'[c] = callees \ {u}
      /\ \A d \in Calls \ {c} : /\ phase'[d] = phase[d] /\ caller'[d] = caller[d]
                                /\ members'[d] = members[d] /\ invited'[d] = invited[d]
    BY DEF CreateCall, Begin, Enter, BridgeInv, BridgeTypeOK, OutcomeTypeOK, Open
<1>2. /\ waiting' = IF group THEN waiting \cup {c} ELSE waiting
      /\ UNCHANGED <<fired, answered, heard, pushes, overtook, late, quiet, faults>>
    BY DEF CreateCall, Begin
<1>3. /\ handlers \subseteq handlers' /\ handlers' \in SUBSET Handlers
      /\ \A h \in handlers' \ handlers :
            h.op = "create" /\ h.call = c /\ h.to = callees \ {u} /\ h.todo = <<"ring">>
      /\ ~group => \E h \in handlers' : h.op = "create" /\ h.call = c /\ h.to = callees \ {u}
    <2>1. CASE group
        BY <2>1 DEF CreateCall, BridgeInv, BridgeTypeOK
    <2>2. CASE ~group
        <3>1. /\ Start(Handler("create", c, u, via, callees \ {u}))
              /\ Todo("create", via) \in Plans("create")
            BY <2>2, TodoValues, PlanValues DEF CreateCall
        <3>2. PICK g \in Handlers :
                  /\ g.op = "create" /\ g.call = c /\ g.to = callees \ {u} /\ g.todo = Todo("create", via)
                  /\ handlers' = handlers \cup {g}
            BY <3>1, Starts DEF Ops
        <3> QED BY <3>2, TodoValues DEF BridgeInv, BridgeTypeOK
    <2> QED BY <2>1, <2>2
<1>4. BridgeTypeOK'
    BY <1>1, <1>2, <1>3 DEF BridgeInv, BridgeTypeOK, OutcomeTypeOK
<1>5. AnsweredElsewhere'
    BY <1>2, <1>3 DEF BridgeInv, AnsweredElsewhere, HandlersOf
<1>6. NoFalseNotice'
    BY <1>1, <1>2 DEF BridgeInv, NoFalseNotice, Created
<1>7. Created'
    BY <1>1, <1>2 DEF BridgeInv, Created, BridgeTypeOK, OutcomeTypeOK
<1>8. Snapshots'
    <2> SUFFICES ASSUME NEW h \in handlers'
                 PROVE  /\ h.todo \in Plans(h.op)
                        /\ h.op = "create" => phase'[h.call] # "none" /\ h.to \subseteq invited'[h.call]
                        /\ h.op = "accept" => h.user \in answered[h.call]
                        /\ h.op = "end" => phase'[h.call] = "ended" /\ h.to = members'[h.call]
                        /\ h.op = "cancel" => phase'[h.call] = "cancelled" /\ h.to = members'[h.call]
                        /\ h.op = "timeout" => phase'[h.call] = "timeout" /\ h.to = members'[h.call]
        BY <1>2 DEF Snapshots
    <2>1. CASE h \in handlers
        <3>1. h.call \in Calls
            BY <2>1 DEF BridgeInv, BridgeTypeOK, Handlers
        <3> QED BY <1>1, <2>1, <3>1 DEF BridgeInv, Snapshots, Created
    <2>2. CASE h \notin handlers
        BY <1>1, <1>3, <2>2, PlanValues
    <2> QED BY <2>1, <2>2
<1>9. Rung'
    BY <1>1, <1>2, <1>3 DEF BridgeInv, Rung, BridgeTypeOK
<1>10. Withdrawn' /\ Told'
    BY <1>1, <1>2, <1>3 DEF BridgeInv, Withdrawn, Told
<1> QED BY <1>4, <1>5, <1>6, <1>7, <1>8, <1>9, <1>10 DEF BridgeRest


\* A step that keeps the calls and adds a handler keeps what others were told.
LEMMA CreateReturnsStep ==
    ASSUME BridgeInv, NEW c \in Calls, NEW via \in Vias, CreateReturns(c, via)
    PROVE  BridgeRest'
<1>1. /\ c \in waiting /\ waiting' = waiting \ {c} /\ phase[c] # "none"
      /\ UNCHANGED <<phase, caller, members, fired, invited, answered, heard, pushes, overtook, late, quiet, faults>>
    BY DEF CreateReturns, RoomDone, BridgeInv, Created
<1>2. PICK g \in Handlers :
          /\ g.op = "create" /\ g.call = c /\ g.to = invited[c] /\ g.todo = <<"ring">>
          /\ handlers' = handlers \cup {g}
    <2>1. caller[c] \in Users /\ invited[c] \in SUBSET Users
        BY <1>1 DEF BridgeInv, Created, BridgeTypeOK
    <2>2. /\ Start(Handler("create", c, caller[c], via, invited[c]))
          /\ Todo("create", via) \in Plans("create")
        BY TodoValues, PlanValues DEF CreateReturns
    <2> QED BY <2>1, <2>2, Starts, TodoValues DEF Ops
<1>3. BridgeTypeOK'
    BY <1>1, <1>2 DEF BridgeInv, BridgeTypeOK, OutcomeTypeOK
<1>4. AnsweredElsewhere' /\ NoFalseNotice'
    <2>1. AnsweredElsewhere'
        BY <1>1, <1>2 DEF BridgeInv, AnsweredElsewhere, HandlersOf
    <2>2. NoFalseNotice'
        BY <1>1 DEF BridgeInv, NoFalseNotice
    <2> QED BY <2>1, <2>2
<1>5. Created'
    BY <1>1 DEF BridgeInv, Created
<1>6. Snapshots'
    BY <1>1, <1>2, PlanValues DEF BridgeInv, Snapshots
<1>7. Rung'
    BY <1>1, <1>2 DEF BridgeInv, Rung
<1>8. Withdrawn' /\ Told'
    BY <1>1, <1>2 DEF BridgeInv, Withdrawn, Told
<1> QED BY <1>3, <1>4, <1>5, <1>6, <1>7, <1>8 DEF BridgeRest

\* A room that does not come fails a call that is open; no one has to be told.
LEMMA CreateFailsStep ==
    ASSUME BridgeInv, NEW c \in Calls, CreateFails(c)
    PROVE  BridgeRest'
<1>1. /\ RoomMayFail /\ c \in waiting /\ waiting' = waiting \ {c} /\ phase[c] # "none"
      /\ UNCHANGED <<caller, members, fired, handlers, invited, answered, heard, pushes, overtook, late, quiet, faults>>
      /\ phase' \in [Calls -> {"none"} \cup Open \cup Over]
      /\ \A d \in Calls : phase'[d] = phase[d] \/ (d = c /\ phase[d] \in Open /\ phase'[d] = "failed")
    BY DEF CreateFails, RoomFailed, RoomDone, Enter, bridgeVars, BridgeInv, Created, BridgeTypeOK,
           OutcomeTypeOK, Over
<1>2. BridgeTypeOK'
    BY <1>1 DEF BridgeInv, BridgeTypeOK, OutcomeTypeOK
<1>3. AnsweredElsewhere' /\ Rung'
    BY <1>1 DEF BridgeInv, AnsweredElsewhere, HandlersOf, Rung
<1>4. NoFalseNotice'
    BY <1>1 DEF BridgeInv, NoFalseNotice, Open
<1>5. Created'
    BY <1>1 DEF BridgeInv, Created, Open
<1>6. Snapshots'
    BY <1>1 DEF BridgeInv, Snapshots, Open, BridgeTypeOK, Handlers
<1>7. Withdrawn' /\ Told'
    BY <1>1 DEF BridgeInv, Withdrawn, Told
<1> QED BY <1>2, <1>3, <1>4, <1>5, <1>6, <1>7 DEF BridgeRest

\* Accept owes its user the push that stops his other devices.
LEMMA AcceptCallStep ==
    ASSUME BridgeInv, NEW c \in Calls, NEW u \in Users, NEW via \in Vias,
           AcceptCall(c, u, via)
    PROVE  BridgeRest'
<1>1. /\ phase[c] \in Open /\ phase' \in [Calls -> {"none"} \cup Open \cup Over]
      /\ phase'[c] = "answered" /\ \A d \in Calls \ {c} : phase'[d] = phase[d]
      /\ answered' \in [Calls -> SUBSET Users] /\ answered'[c] = answered[c] \cup {u}
      /\ \A d \in Calls \ {c} : answered'[d] = answered[d]
      /\ UNCHANGED <<caller, members, waiting, fired, invited, heard, pushes, overtook, late, quiet, faults>>
    BY DEF AcceptCall, Answer, Enter, BridgeInv, BridgeTypeOK, OutcomeTypeOK, Open
<1>2. PICK g \in Handlers :
          /\ g.op = "accept" /\ g.call = c /\ g.user = u /\ g.todo \in Plans("accept")
          /\ handlers' = handlers \cup {g}
    <2>1. Start(Handler("accept", c, u, via, {})) /\ Todo("accept", via) \in Plans("accept")
        BY TodoValues, PlanValues DEF AcceptCall, Vias
    <2> QED BY <2>1, Starts DEF Ops
<1>3. BridgeTypeOK'
    BY <1>1, <1>2 DEF BridgeInv, BridgeTypeOK, OutcomeTypeOK
<1>4. AnsweredElsewhere'
    <2> SUFFICES ASSUME NEW d \in Calls, NEW v \in answered'[d] \cap Reachable, faults = 0,
                        HandlersOf(d, "accept", v)' = {}
                 PROVE  <<"stop", d, v>> \in pushes
        BY <1>1 DEF AnsweredElsewhere
    <2>1. d # c \/ v # u
        BY <1>2 DEF HandlersOf
    <2>2. v \in answered[d]
        BY <1>1, <2>1
    <2>3. HandlersOf(d, "accept", v) = {}
        BY <1>2 DEF HandlersOf
    <2> QED BY <2>2, <2>3 DEF BridgeInv, AnsweredElsewhere
<1>5. NoFalseNotice'
    BY <1>1 DEF BridgeInv, NoFalseNotice, Open
<1>6. Created'
    BY <1>1 DEF BridgeInv, Created, Open
<1>7. Snapshots'
    <2>1. \A h \in handlers : h.call \in Calls
        BY DEF BridgeInv, BridgeTypeOK, Handlers
    <2> QED BY <1>1, <1>2, <2>1 DEF BridgeInv, Snapshots, Open
<1>8. Rung'
    BY <1>1, <1>2 DEF BridgeInv, Rung
<1>9. Withdrawn' /\ Told'
    BY <1>1, <1>2 DEF BridgeInv, Withdrawn, Told
<1> QED BY <1>3, <1>4, <1>5, <1>6, <1>7, <1>8, <1>9 DEF BridgeRest

\* Nobody joins a call that is over.
LEMMA JoinCallStep ==
    ASSUME BridgeInv, NEW c \in Calls, NEW u \in Users, JoinCall(c, u)
    PROVE  BridgeRest'
<1>1. /\ phase[c] \in Open /\ phase' \in [Calls -> {"none"} \cup Open \cup Over]
      /\ phase'[c] = "answered" /\ \A d \in Calls \ {c} : phase'[d] = phase[d]
      /\ members' \in [Calls -> SUBSET Users] /\ members'[c] = members[c] \cup {u}
      /\ \A d \in Calls \ {c} : members'[d] = members[d]
      /\ UNCHANGED <<caller, waiting, fired, handlers, invited, answered, heard, pushes, overtook, late, quiet, faults>>
    BY DEF JoinCall, Enroll, Enter, bridgeVars, BridgeInv, BridgeTypeOK, OutcomeTypeOK, Open
<1>2. BridgeTypeOK'
    BY <1>1 DEF BridgeInv, BridgeTypeOK, OutcomeTypeOK
<1>3. AnsweredElsewhere' /\ Rung'
    BY <1>1 DEF BridgeInv, AnsweredElsewhere, HandlersOf, Rung
<1>4. NoFalseNotice'
    BY <1>1 DEF BridgeInv, NoFalseNotice, Open
<1>5. Created'
    BY <1>1 DEF BridgeInv, Created, Open
<1>6. Snapshots'
    BY <1>1 DEF BridgeInv, Snapshots, Open, BridgeTypeOK, Handlers
<1>7. Withdrawn' /\ Told'
    BY <1>1 DEF BridgeInv, Withdrawn, Told
<1> QED BY <1>2, <1>3, <1>4, <1>5, <1>6, <1>7 DEF BridgeRest


\* An end over a socket is told to everyone in the call, one over HTTP is quiet.
LEMMA EndCallStep ==
    ASSUME BridgeInv, NEW c \in Calls, NEW u \in Users, NEW via \in Vias,
           EndCall(c, u, via)
    PROVE  BridgeRest'
<1>1. /\ phase[c] \in Open /\ phase' \in [Calls -> {"none"} \cup Open \cup Over]
      /\ phase'[c] = "ended" /\ \A d \in Calls \ {c} : phase'[d] = phase[d]
      /\ quiet' = IF via = "http" THEN quiet \cup {c} ELSE quiet
      /\ UNCHANGED <<caller, members, waiting, fired, invited, answered, heard, pushes, overtook, late, faults>>
    BY DEF EndCall, End, Enter, BridgeInv, BridgeTypeOK, OutcomeTypeOK, Over
<1>2. /\ handlers \subseteq handlers' /\ handlers' \in SUBSET Handlers
      /\ \A h \in handlers' \ handlers :
            h.op = "end" /\ h.call = c /\ h.to = members[c] /\ h.todo = <<"broadcast">>
      /\ via = "ws" => \E h \in handlers' : h.op = "end" /\ h.call = c /\ h.todo = <<"broadcast">>
    <2>1. CASE via = "http"
        BY <2>1, TodoValues DEF EndCall, Start, Handler, BridgeInv, BridgeTypeOK
    <2>2. CASE via = "ws"
        <3>1. Start(Handler("end", c, u, via, members[c])) /\ Todo("end", via) \in Plans("end")
            BY <2>2, TodoValues, PlanValues DEF EndCall
        <3>2. members[c] \in SUBSET Users
            BY DEF BridgeInv, BridgeTypeOK, OutcomeTypeOK
        <3>3. PICK g \in Handlers :
                  /\ g.op = "end" /\ g.call = c /\ g.to = members[c] /\ g.todo = Todo("end", via)
                  /\ handlers' = handlers \cup {g}
            BY <3>1, <3>2, Starts DEF Ops
        <3> QED BY <2>2, <3>3, TodoValues DEF BridgeInv, BridgeTypeOK
    <2> QED BY <2>1, <2>2 DEF Vias
<1>3. BridgeTypeOK'
    BY <1>1, <1>2 DEF BridgeInv, BridgeTypeOK, OutcomeTypeOK
<1>4. AnsweredElsewhere'
    BY <1>1, <1>2 DEF BridgeInv, AnsweredElsewhere, HandlersOf
<1>5. NoFalseNotice'
    BY <1>1 DEF BridgeInv, NoFalseNotice, Open
<1>6. Created'
    BY <1>1 DEF BridgeInv, Created, Open
<1>7. Snapshots'
    <2>1. \A h \in handlers : h.call \in Calls
        BY DEF BridgeInv, BridgeTypeOK, Handlers
    <2>2. \A h \in handlers' \ handlers : h.todo \in Plans(h.op)
        BY <1>2, PlanValues
    <2> QED BY <1>1, <1>2, <2>1, <2>2 DEF BridgeInv, Snapshots, Open
<1>8. Rung'
    BY <1>1, <1>2 DEF BridgeInv, Rung
<1>9. Withdrawn'
    BY <1>1, <1>2 DEF BridgeInv, Withdrawn
<1>10. Told'
    <2> SUFFICES ASSUME faults = 0, NEW d \in Calls, phase'[d] \in {"ended", "cancelled"}, d \notin quiet',
                        ~\A v \in members[d] : <<"over", d, v>> \in heard
                 PROVE  \E k \in handlers' : /\ k.call = d /\ k.op \in {"end", "cancel"}
                                             /\ k.todo \in {<<"cancel", "broadcast">>, <<"broadcast">>}
        BY <1>1 DEF Told
    <2>1. CASE d = c
        BY <1>1, <1>2, <2>1 DEF Vias
    <2>2. CASE d # c
        BY <1>1, <1>2, <2>2 DEF BridgeInv, Told
    <2> QED BY <2>1, <2>2
<1> QED BY <1>3, <1>4, <1>5, <1>6, <1>7, <1>8, <1>9, <1>10 DEF BridgeRest

\* A cancel owes a push to the callees and, over a socket, a broadcast.
LEMMA CancelCallStep ==
    ASSUME BridgeInv, NEW c \in Calls, NEW u \in Users, NEW via \in Vias,
           CancelCall(c, u, via)
    PROVE  BridgeRest'
<1>1. /\ phase[c] \in Open /\ phase' \in [Calls -> {"none"} \cup Open \cup Over]
      /\ phase'[c] = "cancelled" /\ \A d \in Calls \ {c} : phase'[d] = phase[d]
      /\ quiet' = IF via = "http" THEN quiet \cup {c} ELSE quiet
      /\ UNCHANGED <<caller, members, waiting, fired, invited, answered, heard, pushes, overtook, late, faults>>
    BY DEF CancelCall, Withdraw, Enter, BridgeInv, BridgeTypeOK, OutcomeTypeOK, Over
<1>2. PICK g \in Handlers :
          /\ g.op = "cancel" /\ g.call = c /\ g.to = members[c] /\ g.todo \in Plans("cancel")
          /\ g.todo = IF via = "ws" THEN <<"cancel", "broadcast">> ELSE <<"cancel">>
          /\ handlers' = handlers \cup {g}
    <2>1. /\ Start(Handler("cancel", c, u, via, members[c])) /\ Todo("cancel", via) \in Plans("cancel")
          /\ Todo("cancel", via) = IF via = "ws" THEN <<"cancel", "broadcast">> ELSE <<"cancel">>
        BY TodoValues, PlanValues DEF CancelCall, Vias
    <2>2. members[c] \in SUBSET Users
        BY DEF BridgeInv, BridgeTypeOK, OutcomeTypeOK
    <2> QED BY <2>1, <2>2, Starts DEF Ops
<1>3. BridgeTypeOK'
    BY <1>1, <1>2 DEF BridgeInv, BridgeTypeOK, OutcomeTypeOK
<1>4. AnsweredElsewhere'
    BY <1>1, <1>2 DEF BridgeInv, AnsweredElsewhere, HandlersOf
<1>5. NoFalseNotice'
    BY <1>1 DEF BridgeInv, NoFalseNotice, Open
<1>6. Created'
    BY <1>1 DEF BridgeInv, Created, Open
<1>7. Snapshots'
    <2>1. \A h \in handlers : h.call \in Calls
        BY DEF BridgeInv, BridgeTypeOK, Handlers
    <2> QED BY <1>1, <1>2, <2>1 DEF BridgeInv, Snapshots, Open
<1>8. Rung'
    BY <1>1, <1>2 DEF BridgeInv, Rung
<1>9. Withdrawn'
    BY <1>1, <1>2 DEF BridgeInv, Withdrawn
<1>10. Told'
    BY <1>1, <1>2 DEF BridgeInv, Told, Vias
<1> QED BY <1>3, <1>4, <1>5, <1>6, <1>7, <1>8, <1>9, <1>10 DEF BridgeRest

\* The timer leaves the push to its handler.
LEMMA RingTimeoutStep ==
    ASSUME BridgeInv, NEW c \in Calls, RingTimeout(c)
    PROVE  BridgeRest'
<1>1. /\ phase[c] = "ringing" /\ phase' \in [Calls -> {"none"} \cup Open \cup Over]
      /\ phase'[c] = "timeout" /\ \A d \in Calls \ {c} : phase'[d] = phase[d]
      /\ fired' = fired \cup {c}
      /\ UNCHANGED <<caller, members, waiting, handlers, invited, answered, heard, pushes, overtook, late, quiet, faults>>
    BY DEF RingTimeout, Expire, Enter, bridgeVars, BridgeInv, BridgeTypeOK, OutcomeTypeOK, Over
<1>2. BridgeTypeOK'
    BY <1>1 DEF BridgeInv, BridgeTypeOK, OutcomeTypeOK
<1>3. AnsweredElsewhere' /\ Rung'
    BY <1>1 DEF BridgeInv, AnsweredElsewhere, HandlersOf, Rung
<1>4. NoFalseNotice'
    BY <1>1 DEF BridgeInv, NoFalseNotice
<1>5. Created'
    BY <1>1 DEF BridgeInv, Created
<1>6. Snapshots'
    BY <1>1 DEF BridgeInv, Snapshots, BridgeTypeOK, Handlers
<1>7. Withdrawn' /\ Told'
    BY <1>1 DEF BridgeInv, Withdrawn, Told
<1> QED BY <1>2, <1>3, <1>4, <1>5, <1>6, <1>7 DEF BridgeRest

\* The timeout handler takes over from the timer, with the participants of a call
\* that nobody can enter any more.
LEMMA TimeoutHandlerStep ==
    ASSUME BridgeInv, NEW c \in Calls, TimeoutHandler(c)
    PROVE  BridgeRest'
<1>1. /\ c \in fired /\ fired' = fired \ {c} /\ phase[c] = "timeout"
      /\ UNCHANGED <<phase, caller, members, waiting, invited, answered, heard, pushes, overtook, late, quiet, faults>>
    BY DEF TimeoutHandler, Handled, BridgeInv, Created
<1>2. PICK g \in Handlers :
          /\ g.op = "timeout" /\ g.call = c /\ g.to = members[c] /\ g.todo = <<"cancel">>
          /\ handlers' = handlers \cup {g}
    <2>1. caller[c] \in Users /\ members[c] \in SUBSET Users
        BY <1>1 DEF BridgeInv, Created, BridgeTypeOK, OutcomeTypeOK
    <2>2. /\ Start(Handler("timeout", c, caller[c], "timer", members[c]))
          /\ Todo("timeout", "timer") \in Plans("timeout")
        BY TodoValues, PlanValues DEF TimeoutHandler
    <2> QED BY <2>1, <2>2, Starts, TodoValues DEF Ops
<1>3. BridgeTypeOK'
    BY <1>1, <1>2 DEF BridgeInv, BridgeTypeOK, OutcomeTypeOK
<1>4. AnsweredElsewhere' /\ NoFalseNotice'
    <2>1. AnsweredElsewhere'
        BY <1>1, <1>2 DEF BridgeInv, AnsweredElsewhere, HandlersOf
    <2>2. NoFalseNotice'
        BY <1>1 DEF BridgeInv, NoFalseNotice
    <2> QED BY <2>1, <2>2
<1>5. Created'
    BY <1>1 DEF BridgeInv, Created
<1>6. Snapshots'
    BY <1>1, <1>2, PlanValues DEF BridgeInv, Snapshots
<1>7. Rung'
    BY <1>1, <1>2 DEF BridgeInv, Rung
<1>8. Withdrawn' /\ Told'
    BY <1>1, <1>2 DEF BridgeInv, Withdrawn, Told
<1> QED BY <1>3, <1>4, <1>5, <1>6, <1>7, <1>8 DEF BridgeRest

-----------------------------------------------------------------------------
(* Faults *)

\* After a fault only what was said counts, not what is still to be said.
LEMMA ReplyLostStep ==
    ASSUME BridgeInv, NEW c \in Calls, ReplyLost(c)
    PROVE  BridgeRest'
<1>1. /\ faults' \in 0..MaxFaults /\ faults' # 0 /\ handlers' \subseteq handlers /\ fired' \subseteq fired
      /\ UNCHANGED <<phase, caller, members, waiting, invited, answered, heard, pushes, overtook, late, quiet>>
    BY BridgeAssumption DEF ReplyLost, Fault, Handled, outcomeVars, BridgeInv, BridgeTypeOK
<1>2. BridgeTypeOK'
    BY <1>1 DEF BridgeInv, BridgeTypeOK, OutcomeTypeOK
<1>3. NoFalseNotice' /\ Created' /\ Snapshots'
    BY <1>1 DEF BridgeInv, NoFalseNotice, Created, Snapshots
<1>4. AnsweredElsewhere' /\ Rung' /\ Withdrawn' /\ Told'
    BY <1>1 DEF BridgeInv, AnsweredElsewhere, Rung, Withdrawn, Told
<1> QED BY <1>2, <1>3, <1>4 DEF BridgeRest

\* A crash takes every handler with it.
LEMMA CrashStep ==
    ASSUME BridgeInv, Crash
    PROVE  BridgeRest'
<1>1. /\ faults' \in 0..MaxFaults /\ faults' # 0 /\ handlers' = {} /\ fired' = {} /\ waiting' = {}
      /\ UNCHANGED <<phase, caller, members, invited, answered, heard, pushes, overtook, late, quiet>>
    BY BridgeAssumption DEF Crash, Die, Fault, BridgeInv, BridgeTypeOK
<1>2. BridgeTypeOK'
    BY <1>1 DEF BridgeInv, BridgeTypeOK, OutcomeTypeOK
<1>3. NoFalseNotice' /\ Created' /\ Snapshots'
    BY <1>1 DEF BridgeInv, NoFalseNotice, Created, Snapshots
<1>4. AnsweredElsewhere' /\ Rung' /\ Withdrawn' /\ Told'
    BY <1>1 DEF BridgeInv, AnsweredElsewhere, Rung, Withdrawn, Told
<1> QED BY <1>2, <1>3, <1>4 DEF BridgeRest


-----------------------------------------------------------------------------
(* The handlers *)

\* Which operation a handler belongs to, by its next step.
LEMMA Heads ==
    ASSUME NEW op \in Ops, NEW t \in Plans(op)
    PROVE  /\ Head(t) = "ring" => op = "create" /\ t = <<"ring">>
           /\ Head(t) = "stop" => op = "accept" /\ t = <<"stop">>
           /\ Head(t) = "cancel" => \/ op \in {"cancel", "timeout"} /\ t = <<"cancel">>
                                    \/ op = "cancel" /\ t = <<"cancel", "broadcast">>
           /\ Head(t) = "broadcast" => \/ op = "accept" /\ t = <<"broadcast", "stop">>
                                       \/ op \in {"end", "cancel"} /\ t = <<"broadcast">>
<1>1. /\ Head(<<"ring">>) = "ring" /\ Head(<<"stop">>) = "stop" /\ Head(<<"cancel">>) = "cancel"
      /\ Head(<<"broadcast">>) = "broadcast" /\ Head(<<"broadcast", "stop">>) = "broadcast"
      /\ Head(<<"cancel", "broadcast">>) = "cancel"
    BY ShortPlan, LongPlan DEF Steps
<1>2. CASE op = "create"
    BY <1>1, <1>2, PlanValues
<1>3. CASE op = "accept"
    BY <1>1, <1>3, PlanValues
<1>4. CASE op = "end"
    BY <1>1, <1>4, PlanValues
<1>5. CASE op = "cancel"
    BY <1>1, <1>5, PlanValues
<1>6. CASE op = "timeout"
    BY <1>1, <1>6, PlanValues
<1> QED BY <1>2, <1>3, <1>4, <1>5, <1>6 DEF Ops

\* What the handlers leave alone.
Calm == UNCHANGED <<phase, caller, members, waiting, fired, invited, answered, quiet>>

\* The socket of the user who accepted is told; the push is still to come.
LEMMA StopBroadcastStep ==
    ASSUME BridgeInv, NEW h \in handlers, Calm, h.op = "accept", h.todo = <<"broadcast", "stop">>,
           Broadcast(h)
    PROVE  BridgeRest'
<1>1. h \in Handlers /\ h.call \in Calls /\ h.user \in Users /\ h.user \in answered[h.call]
    BY DEF BridgeInv, BridgeTypeOK, Handlers, Snapshots
<1>2. /\ heard' = heard \cup {<<"stop_ringing", h.call, h.user>>}
      /\ UNCHANGED <<pushes, overtook, late, faults>>
    BY DEF Broadcast
<1>3. PICK g \in Handlers :
          /\ g.op = "accept" /\ g.call = h.call /\ g.user = h.user /\ g.todo = <<"stop">>
          /\ handlers' = (handlers \ {h}) \cup {g}
    <2>1. Advance(h) /\ "broadcast" \in Steps /\ "stop" \in Steps
        BY DEF Broadcast, Steps
    <2> QED BY <1>1, <2>1, Advances
<1>4. BridgeTypeOK'
    BY <1>1, <1>2, <1>3 DEF Calm, BridgeInv, BridgeTypeOK, OutcomeTypeOK
<1>5. AnsweredElsewhere'
    <2> SUFFICES ASSUME NEW d \in Calls, NEW v \in answered[d] \cap Reachable, faults = 0,
                        HandlersOf(d, "accept", v)' = {}
                 PROVE  <<"stop", d, v>> \in pushes
        BY <1>2 DEF AnsweredElsewhere, Calm
    <2>1. d # h.call \/ v # h.user
        BY <1>3 DEF HandlersOf
    <2>2. HandlersOf(d, "accept", v) = {}
        BY <1>3, <2>1 DEF HandlersOf
    <2> QED BY <2>2 DEF BridgeInv, AnsweredElsewhere
<1>6. NoFalseNotice'
    BY <1>1, <1>2 DEF Calm, BridgeInv, NoFalseNotice
<1>7. Created'
    BY DEF Calm, BridgeInv, Created
<1>8. Snapshots'
    BY <1>1, <1>3, PlanValues DEF Calm, BridgeInv, Snapshots
<1>9. Rung'
    BY <1>2, <1>3 DEF Calm, BridgeInv, Rung
<1>10. Withdrawn'
    BY <1>2, <1>3, Different DEF Calm, BridgeInv, Withdrawn
<1>11. Told'
    <2>1. \A d \in Calls :
              (\E k \in handlers : /\ k.call = d /\ k.op \in {"end", "cancel"}
                                   /\ k.todo \in {<<"cancel", "broadcast">>, <<"broadcast">>})
              => \E k \in handlers' : /\ k.call = d /\ k.op \in {"end", "cancel"}
                                      /\ k.todo \in {<<"cancel", "broadcast">>, <<"broadcast">>}
        BY <1>3
    <2> QED BY <1>2, <2>1 DEF Calm, BridgeInv, Told
<1> QED BY <1>4, <1>5, <1>6, <1>7, <1>8, <1>9, <1>10, <1>11 DEF BridgeRest

\* Everyone in the call is told that it is over, and nobody has entered it since.
LEMMA OverBroadcastStep ==
    ASSUME BridgeInv, NEW h \in handlers, Calm, h.op \in {"end", "cancel"}, h.todo = <<"broadcast">>,
           Broadcast(h)
    PROVE  BridgeRest'
<1>1. /\ h \in Handlers /\ h.call \in Calls /\ h.to = members[h.call] /\ h.to \subseteq Users
      /\ phase[h.call] \in {"ended", "cancelled"}
    BY DEF BridgeInv, BridgeTypeOK, Handlers, Snapshots
<1>2. /\ heard' = heard \cup {<<"over", h.call, u>> : u \in h.to}
      /\ UNCHANGED <<pushes, overtook, late, faults>>
    BY DEF Broadcast, Audience
<1>3. handlers' = handlers \ {h}
    BY <1>1, Advances DEF Broadcast, Steps
<1>4. BridgeTypeOK'
    BY <1>1, <1>2, <1>3 DEF Calm, BridgeInv, BridgeTypeOK, OutcomeTypeOK
<1>5. AnsweredElsewhere'
    BY <1>2, <1>3 DEF Calm, BridgeInv, AnsweredElsewhere, HandlersOf
<1>6. NoFalseNotice'
    <2>1. \A what, d, v : <<what, d, v>> \in heard' =>
              <<what, d, v>> \in heard \/ (what = "over" /\ d = h.call /\ v \in h.to)
        BY <1>2
    <2> QED BY <1>1, <1>2, <2>1 DEF Calm, BridgeInv, NoFalseNotice
<1>7. Created' /\ Snapshots'
    BY <1>3 DEF Calm, BridgeInv, Created, Snapshots
<1>8. Rung'
    BY <1>2, <1>3 DEF Calm, BridgeInv, Rung
<1>9. Withdrawn'
    BY <1>2, <1>3, Different DEF Calm, BridgeInv, Withdrawn
<1>10. Told'
    BY <1>1, <1>2, <1>3 DEF Calm, BridgeInv, Told
<1> QED BY <1>4, <1>5, <1>6, <1>7, <1>8, <1>9, <1>10 DEF BridgeRest

\* A push is taken for those who have a device, or a fault is counted.
LEMMA Requests ==
    ASSUME faults \in 0..MaxFaults, NEW kind, NEW c, NEW us, Request(kind, c, us)
    PROVE  /\ faults' \in 0..MaxFaults
           /\ pushes \subseteq pushes'
           /\ \A p \in pushes' \ pushes : \E u \in us \cap Reachable : p = <<kind, c, u>>
           /\ faults' = 0 => faults = 0 /\ \A u \in us \cap Reachable : <<kind, c, u>> \in pushes'
BY BridgeAssumption DEF Request, Fault


\* The push that stops the user's devices is requested.
LEMMA StopPushStep ==
    ASSUME BridgeInv, NEW h \in handlers, Calm, h.op = "accept", h.todo = <<"stop">>,
           NotifyStopRinging(h)
    PROVE  BridgeRest'
<1>1. h \in Handlers /\ h.call \in Calls /\ h.user \in Users /\ h.user \in answered[h.call]
    BY DEF BridgeInv, BridgeTypeOK, Handlers, Snapshots
<1>2. UNCHANGED <<heard, overtook, late>> /\ handlers' = handlers \ {h}
    BY <1>1, Advances DEF NotifyStopRinging, Steps
<1>3. /\ faults' \in 0..MaxFaults /\ pushes \subseteq pushes'
      /\ \A p \in pushes' \ pushes : p = <<"stop", h.call, h.user>>
      /\ faults' = 0 => faults = 0 /\ (h.user \in Reachable => <<"stop", h.call, h.user>> \in pushes')
    BY Requests DEF NotifyStopRinging, BridgeInv, BridgeTypeOK
<1>4. BridgeTypeOK'
    BY <1>1, <1>2, <1>3 DEF Calm, BridgeInv, BridgeTypeOK, OutcomeTypeOK
<1>5. AnsweredElsewhere'
    <2> SUFFICES ASSUME NEW d \in Calls, NEW v \in answered[d] \cap Reachable, faults' = 0,
                        HandlersOf(d, "accept", v)' = {}
                 PROVE  <<"stop", d, v>> \in pushes'
        BY DEF AnsweredElsewhere, Calm
    <2>1. CASE d = h.call /\ v = h.user
        BY <1>3, <2>1
    <2>2. CASE d # h.call \/ v # h.user
        <3>1. HandlersOf(d, "accept", v) = {}
            BY <1>2, <2>2 DEF HandlersOf
        <3> QED BY <1>3, <3>1 DEF BridgeInv, AnsweredElsewhere
    <2> QED BY <2>1, <2>2
<1>6. NoFalseNotice'
    BY <1>1, <1>2, <1>3 DEF Calm, BridgeInv, NoFalseNotice
<1>7. Created' /\ Snapshots'
    BY <1>2 DEF Calm, BridgeInv, Created, Snapshots
<1>8. Rung'
    BY <1>2, <1>3 DEF Calm, BridgeInv, Rung
<1>9. Withdrawn'
    BY <1>2, <1>3, Different DEF Calm, BridgeInv, Withdrawn
<1>10. Told'
    BY <1>2, <1>3 DEF Calm, BridgeInv, Told
<1> QED BY <1>4, <1>5, <1>6, <1>7, <1>8, <1>9, <1>10 DEF BridgeRest

\* The push that withdraws the call is requested for everyone but the caller; a
\* cancel over a socket goes on to its broadcast.
LEMMA CancelPushStep ==
    ASSUME BridgeInv, NEW h \in handlers, Calm, NotifyCancelled(h),
           \/ h.op \in {"cancel", "timeout"} /\ h.todo = <<"cancel">>
           \/ h.op = "cancel" /\ h.todo = <<"cancel", "broadcast">>
    PROVE  BridgeRest'
<1>1. /\ h \in Handlers /\ h.call \in Calls /\ h.to = members[h.call] /\ h.to \subseteq Users
      /\ phase[h.call] \in {"cancelled", "timeout"}
    BY DEF BridgeInv, BridgeTypeOK, Handlers, Snapshots
<1>2. /\ heard' = heard /\ handlers \ {h} \subseteq handlers' /\ handlers' \in SUBSET Handlers
      /\ \A k \in handlers' \ (handlers \ {h}) :
            k.op = "cancel" /\ h.op = "cancel" /\ k.call = h.call /\ k.to = h.to /\ k.todo = <<"broadcast">>
      /\ h.todo = <<"cancel", "broadcast">> =>
            \E k \in handlers' : k.op = "cancel" /\ k.call = h.call /\ k.todo = <<"broadcast">>
    <2>1. CASE h.todo = <<"cancel">>
        <3>1. handlers' = handlers \ {h}
            BY <1>1, <2>1, Advances DEF NotifyCancelled, Steps
        <3> QED BY <2>1, <3>1, Different DEF NotifyCancelled, BridgeInv, BridgeTypeOK
    <2>2. CASE h.op = "cancel" /\ h.todo = <<"cancel", "broadcast">>
        <3>1. PICK g \in Handlers :
                  /\ g.op = h.op /\ g.call = h.call /\ g.to = h.to /\ g.todo = <<"broadcast">>
                  /\ handlers' = (handlers \ {h}) \cup {g}
            BY <1>1, <2>2, Advances DEF NotifyCancelled, Steps
        <3> QED BY <2>2, <3>1 DEF NotifyCancelled, BridgeInv, BridgeTypeOK
    <2> QED BY <2>1, <2>2
<1>3. /\ faults' \in 0..MaxFaults /\ pushes \subseteq pushes'
      /\ \A p \in pushes' \ pushes : \E u \in h.to \ {caller[h.call]} : p = <<"cancel", h.call, u>>
      /\ faults' = 0 => /\ faults = 0
                        /\ \A u \in (h.to \ {caller[h.call]}) \cap Reachable :
                               <<"cancel", h.call, u>> \in pushes'
    BY Requests DEF NotifyCancelled, Notified, BridgeInv, BridgeTypeOK
<1>4. BridgeTypeOK'
    <2>1. pushes' \in SUBSET ({"ring", "stop", "cancel"} \X Calls \X Users)
        BY <1>1, <1>3 DEF BridgeInv, BridgeTypeOK
    <2>2. overtook' \in SUBSET (Calls \X Users) /\ late' = late
        BY <1>1 DEF NotifyCancelled, Notified, BridgeInv, BridgeTypeOK
    <2> QED BY <1>2, <1>3, <2>1, <2>2 DEF Calm, BridgeInv, BridgeTypeOK, OutcomeTypeOK
<1>5. AnsweredElsewhere'
    <2> SUFFICES ASSUME NEW d \in Calls, NEW v \in answered[d] \cap Reachable, faults' = 0,
                        HandlersOf(d, "accept", v)' = {}
                 PROVE  <<"stop", d, v>> \in pushes'
        BY DEF AnsweredElsewhere, Calm
    <2>1. HandlersOf(d, "accept", v) = {}
        BY <1>2 DEF HandlersOf
    <2> QED BY <1>3, <2>1 DEF BridgeInv, AnsweredElsewhere
<1>6. NoFalseNotice'
    <2>1. \A kind, d, v : <<kind, d, v>> \in pushes' =>
              <<kind, d, v>> \in pushes \/ (kind = "cancel" /\ d = h.call /\ v \in h.to \ {caller[h.call]})
        BY <1>3
    <2>2. ASSUME NEW d \in Calls, NEW v \in Users
          PROVE  /\ <<"ring", d, v>> \in pushes' => <<"ring", d, v>> \in pushes
                 /\ <<"stop", d, v>> \in pushes' => <<"stop", d, v>> \in pushes
                 /\ <<"cancel", d, v>> \in pushes' =>
                        phase[d] \in {"cancelled", "timeout"} /\ v \in members[d] \ {caller[d]}
        <3>1. <<"cancel", d, v>> \in pushes =>
                  phase[d] \in {"cancelled", "timeout"} /\ v \in members[d] \ {caller[d]}
            BY DEF BridgeInv, NoFalseNotice
        <3>2. /\ <<"ring", d, v>> \in pushes' => <<"ring", d, v>> \in pushes
              /\ <<"stop", d, v>> \in pushes' => <<"stop", d, v>> \in pushes
            BY <2>1
        <3>3. <<"cancel", d, v>> \in pushes' =>
                  <<"cancel", d, v>> \in pushes \/ (d = h.call /\ v \in h.to \ {caller[h.call]})
            BY <2>1
        <3> QED BY <1>1, <3>1, <3>2, <3>3
    <2> QED BY <1>2, <2>2 DEF Calm, BridgeInv, NoFalseNotice
<1>7. Created'
    BY DEF Calm, BridgeInv, Created
<1>8. Snapshots'
    BY <1>1, <1>2, PlanValues DEF Calm, BridgeInv, Snapshots
<1>9. Rung'
    BY <1>2, <1>3 DEF Calm, BridgeInv, Rung
<1>10. Withdrawn'
    BY <1>1, <1>2, <1>3 DEF Calm, BridgeInv, Withdrawn
<1>11. Told'
    <2> SUFFICES ASSUME faults' = 0, NEW d \in Calls, phase[d] \in {"ended", "cancelled"}, d \notin quiet,
                        ~\A u \in members[d] : <<"over", d, u>> \in heard
                 PROVE  \E k \in handlers' : /\ k.call = d /\ k.op \in {"end", "cancel"}
                                             /\ k.todo \in {<<"cancel", "broadcast">>, <<"broadcast">>}
        BY <1>2 DEF Told, Calm
    <2>1. PICK k \in handlers : /\ k.call = d /\ k.op \in {"end", "cancel"}
                                /\ k.todo \in {<<"cancel", "broadcast">>, <<"broadcast">>}
        BY <1>3 DEF BridgeInv, Told
    <2>2. CASE k # h
        BY <1>2, <2>1, <2>2
    <2>3. CASE k = h
        <3>1. h.todo # <<"cancel">>
            BY <2>1, <2>3, Different
        <3> QED BY <1>2, <2>1, <2>3, <3>1
    <2> QED BY <2>2, <2>3
<1> QED BY <1>4, <1>5, <1>6, <1>7, <1>8, <1>9, <1>10, <1>11 DEF BridgeRest

\* NotifyRinging goes on with those who are left, or ends.
LEMMA RingStep ==
    ASSUME BridgeInv, NEW h \in handlers, Calm, h.op = "create", h.todo = <<"ring">>,
           RingNobody(h) \/ \E u \in Users : Ring(h, u)
    PROVE  BridgeRest'
<1>1. h \in Handlers /\ h.call \in Calls /\ h.to \subseteq invited[h.call] /\ phase[h.call] # "none"
    BY DEF BridgeInv, BridgeTypeOK, Handlers, Snapshots
<1>2. /\ heard' = heard /\ handlers \ {h} \subseteq handlers' /\ handlers' \in SUBSET Handlers
      /\ \A k \in handlers' \ (handlers \ {h}) :
            k.op = "create" /\ k.call = h.call /\ k.to \subseteq h.to /\ k.todo = <<"ring">>
      /\ faults' \in 0..MaxFaults /\ pushes \subseteq pushes'
      /\ \A p \in pushes' \ pushes : \E u \in h.to \cap Reachable : p = <<"ring", h.call, u>>
      /\ faults' = 0 => /\ faults = 0
                        /\ \A u \in h.to \cap Reachable :
                               \/ <<"ring", h.call, u>> \in pushes'
                               \/ \E k \in handlers' : k.op = "create" /\ k.call = h.call /\ u \in k.to
    <2>1. CASE RingNobody(h)
        <3>1. handlers' = handlers \ {h}
            BY <1>1, <2>1, Advances DEF RingNobody, Steps
        <3> QED BY <2>1, <3>1 DEF RingNobody, BridgeInv, BridgeTypeOK
    <2>2. CASE \E u \in Users : Ring(h, u)
        <3>1. PICK u \in Users : Ring(h, u)
            BY <2>2
        <3>2. /\ faults' \in 0..MaxFaults /\ pushes \subseteq pushes'
              /\ \A p \in pushes' \ pushes : u \in Reachable /\ p = <<"ring", h.call, u>>
              /\ faults' = 0 => faults = 0 /\ (u \in Reachable => <<"ring", h.call, u>> \in pushes')
            BY <3>1, Requests DEF Ring, BridgeInv, BridgeTypeOK
        <3>3. CASE h.to = {u}
            <4>1. handlers' = handlers \ {h}
                BY <1>1, <3>1, <3>3, Advances DEF Ring, Steps
            <4> QED BY <3>1, <3>2, <3>3, <4>1 DEF Ring, BridgeInv, BridgeTypeOK
        <3>4. CASE h.to # {u}
            <4>1. PICK g \in Handlers : /\ g.op = "create" /\ g.call = h.call /\ g.to = h.to \ {u}
                                        /\ g.todo = <<"ring">> /\ handlers' = (handlers \ {h}) \cup {g}
                <5> DEFINE n == [h EXCEPT !.to = @ \ {u}]
                <5>1. n \in Handlers /\ n.op = h.op /\ n.call = h.call /\ n.to = h.to \ {u} /\ n.todo = h.todo
                    BY <1>1 DEF Handlers
                <5>2. handlers' = (handlers \ {h}) \cup {n}
                    BY <3>1, <3>4 DEF Ring
                <5> QED BY <5>1, <5>2
            <4>2. heard' = heard /\ u \in h.to
                BY <3>1 DEF Ring
            <4> QED BY <3>2, <4>1, <4>2 DEF BridgeInv, BridgeTypeOK
        <3> QED BY <3>3, <3>4
    <2> QED BY <2>1, <2>2
<1>3. BridgeTypeOK'
    <2>1. h.to \subseteq Users
        BY <1>1 DEF Handlers
    <2>2. pushes' \in SUBSET ({"ring", "stop", "cancel"} \X Calls \X Users)
        BY <1>1, <1>2, <2>1 DEF BridgeInv, BridgeTypeOK
    <2>3. late' \in SUBSET (Calls \X Users) /\ overtook' = overtook
        <3>1. late \in SUBSET (Calls \X Users)
            BY DEF BridgeInv, BridgeTypeOK
        <3>2. CASE RingNobody(h)
            BY <3>1, <3>2 DEF RingNobody
        <3>3. ASSUME NEW u \in Users, Ring(h, u)
              PROVE  late' \in SUBSET (Calls \X Users) /\ overtook' = overtook
            <4>1. late' = Rings(h.call, u) /\ overtook' = overtook
                BY <3>3 DEF Ring
            <4> QED BY <1>1, <3>1, <4>1 DEF Rings
        <3> QED BY <3>2, <3>3
    <2> QED BY <1>2, <2>2, <2>3 DEF Calm, BridgeInv, BridgeTypeOK, OutcomeTypeOK
<1>4. \A kind, d, v : <<kind, d, v>> \in pushes' =>
          <<kind, d, v>> \in pushes \/ (kind = "ring" /\ d = h.call /\ v \in h.to \cap Reachable)
    BY <1>2
<1>5. AnsweredElsewhere'
    <2> SUFFICES ASSUME NEW d \in Calls, NEW v \in answered[d] \cap Reachable, faults' = 0,
                        HandlersOf(d, "accept", v)' = {}
                 PROVE  <<"stop", d, v>> \in pushes'
        BY DEF AnsweredElsewhere, Calm
    <2>1. HandlersOf(d, "accept", v) = {}
        BY <1>2 DEF HandlersOf
    <2> QED BY <1>2, <2>1 DEF BridgeInv, AnsweredElsewhere
<1>6. NoFalseNotice'
    BY <1>1, <1>2, <1>4 DEF Calm, BridgeInv, NoFalseNotice
<1>7. Created'
    BY DEF Calm, BridgeInv, Created
<1>8. Snapshots'
    BY <1>1, <1>2, PlanValues DEF Calm, BridgeInv, Snapshots
<1>9. Rung'
    <2>1. \A c \in Calls, u \in Users : <<"ring", c, u>> \in pushes' => u \in Reachable
        BY <1>4 DEF BridgeInv, Rung
    <2>2. ASSUME faults' = 0, ~RoomMayFail, NEW c \in Calls, NEW u \in invited[c] \cap Reachable
          PROVE  \/ <<"ring", c, u>> \in pushes' \/ c \in waiting
                 \/ \E k \in handlers' : k.call = c /\ k.op = "create" /\ u \in k.to
        <3>1. \/ <<"ring", c, u>> \in pushes \/ c \in waiting
              \/ \E k \in handlers : k.call = c /\ k.op = "create" /\ u \in k.to
            BY <1>2, <2>2 DEF BridgeInv, Rung
        <3> QED BY <1>2, <2>2, <3>1
    <2> QED BY <2>1, <2>2 DEF Calm, Rung
<1>10. Withdrawn'
    <2>1. \A d \in Calls :
              (\E k \in handlers : k.call = d /\ k.todo \in {<<"cancel", "broadcast">>, <<"cancel">>})
              => \E k \in handlers' : k.call = d /\ k.todo \in {<<"cancel", "broadcast">>, <<"cancel">>}
        BY <1>2, Different
    <2> QED BY <1>2, <2>1 DEF Calm, BridgeInv, Withdrawn
<1>11. Told'
    BY <1>2 DEF Calm, BridgeInv, Told
<1> QED BY <1>3, <1>5, <1>6, <1>7, <1>8, <1>9, <1>10, <1>11 DEF BridgeRest

\* A handler takes the step that its plan has next.
LEMMA HandlerInv ==
    ASSUME BridgeInv, NEW h \in handlers, HandlerStep(h)
    PROVE  BridgeRest'
<1>1. Calm
    BY DEF HandlerStep, outcomeVars, Calm
<1>2. h.op \in Ops /\ h.todo \in Plans(h.op)
    BY DEF BridgeInv, BridgeTypeOK, Handlers, Snapshots
<1>3. CASE Head(h.todo) = "broadcast" /\ Broadcast(h)
    BY <1>1, <1>2, <1>3, Heads, StopBroadcastStep, OverBroadcastStep
<1>4. CASE Head(h.todo) = "ring" /\ (RingNobody(h) \/ \E u \in Users : Ring(h, u))
    BY <1>1, <1>2, <1>4, Heads, RingStep
<1>5. CASE Head(h.todo) = "cancel" /\ NotifyCancelled(h)
    BY <1>1, <1>2, <1>5, Heads, CancelPushStep
<1>6. CASE Head(h.todo) = "stop" /\ NotifyStopRinging(h)
    BY <1>1, <1>2, <1>6, Heads, StopPushStep
<1> QED BY <1>3, <1>4, <1>5, <1>6 DEF HandlerStep

-----------------------------------------------------------------------------
(* The theorems *)

\* Nothing has happened yet.
LEMMA CommandsInit == ASSUME BridgeInit PROVE BridgeInv
<1>1. BridgeTypeOK
    BY BridgeAssumption DEF BridgeInit, OutcomeInit, BridgeTypeOK, OutcomeTypeOK
<1>2. Created /\ Snapshots /\ Rung /\ Withdrawn /\ Overtaken /\ Told /\ AnsweredElsewhere /\ NoFalseNotice
    BY DEF BridgeInit, OutcomeInit, Created, Snapshots, Rung, Withdrawn, Overtaken, Told,
           AnsweredElsewhere, NoFalseNotice
<1> QED BY <1>1, <1>2 DEF BridgeInv

\* Every step keeps the rest of the invariant.
LEMMA RestStep == ASSUME BridgeInv, [BridgeNext]_commandVars PROVE BridgeRest'
<1>1. ASSUME NEW c \in Calls, NEW u \in Callers, NEW callees \in SUBSET Users, NEW group \in BOOLEAN,
             NEW via \in Vias, CreateCall(c, u, callees, group, via)
      PROVE  BridgeRest'
    <2>1. u \in Users
        BY BridgeAssumption
    <2> QED BY <1>1, <2>1, CreateCallStep
<1>2. ASSUME NEW c \in Calls, NEW via \in Vias, CreateReturns(c, via) PROVE BridgeRest'
    BY <1>2, CreateReturnsStep
<1>3. ASSUME NEW c \in Calls, CreateFails(c) \/ RingTimeout(c) \/ TimeoutHandler(c) \/ ReplyLost(c)
      PROVE  BridgeRest'
    BY <1>3, CreateFailsStep, RingTimeoutStep, TimeoutHandlerStep, ReplyLostStep
<1>4. ASSUME NEW c \in Calls, NEW u \in Users, NEW via \in Vias, UserNext(c, u, via) PROVE BridgeRest'
    BY <1>4, AcceptCallStep, JoinCallStep, EndCallStep, CancelCallStep DEF UserNext
<1>5. ASSUME NEW h \in handlers, HandlerStep(h) PROVE BridgeRest'
    BY <1>5, HandlerInv
<1>6. CASE Crash
    BY <1>6, CrashStep
<1>7. CASE UNCHANGED commandVars
    <2>1. BridgeTypeOK' /\ AnsweredElsewhere' /\ NoFalseNotice'
        BY <1>7 DEF commandVars, BridgeInv, BridgeTypeOK, OutcomeTypeOK, AnsweredElsewhere, HandlersOf,
                    NoFalseNotice
    <2>2. Created' /\ Snapshots'
        BY <1>7 DEF commandVars, BridgeInv, Created, Snapshots
    <2>3. Rung' /\ Withdrawn' /\ Told'
        BY <1>7 DEF commandVars, BridgeInv, Rung, Withdrawn, Told
    <2> QED BY <2>1, <2>2, <2>3 DEF BridgeRest
<1> QED BY <1>1, <1>2, <1>3, <1>4, <1>5, <1>6, <1>7 DEF BridgeNext

\* A step that requests no cancel push and starts nothing that rings.
LEMMA OvertakenKept ==
    ASSUME BridgeInv, UNCHANGED <<overtook, late>>,
           \A c \in Calls, u \in Users :
               <<"cancel", c, u>> \in pushes' =>
                   <<"cancel", c, u>> \in pushes /\ (StillToRing(c, u)' => StillToRing(c, u))
    PROVE  Overtaken'
BY DEF BridgeInv, Overtaken

\* Handlers that are added do not ring, and no room is waited for that was not.
LEMMA NobodyToRing ==
    ASSUME BridgeInv, UNCHANGED <<pushes, overtook, late, invited>>, waiting' \subseteq waiting,
           \A g \in handlers' \ handlers : g.op # "create"
    PROVE  Overtaken'
<1>1. \A c \in Calls, u \in Users : StillToRing(c, u)' => StillToRing(c, u)
    BY DEF StillToRing
<1> QED BY <1>1, OvertakenKept

\* A handler that goes on has nobody new to ring.
LEMMA AdvanceRings ==
    ASSUME BridgeInv, NEW h \in handlers, Calm, Advance(h)
    PROVE  \A c \in Calls, u \in Users : StillToRing(c, u)' => StillToRing(c, u)
<1>1. h \in Handlers
    BY DEF BridgeInv, BridgeTypeOK
<1> DEFINE n == [h EXCEPT !.todo = Tail(@)]
<1>2. n.op = h.op /\ n.call = h.call /\ n.to = h.to
    BY <1>1 DEF Handlers
<1>3. handlers' \subseteq handlers \cup {n}
    BY DEF Advance
<1> HIDE DEF n
<1> QED BY <1>2, <1>3 DEF StillToRing, Calm

\* NotifyRinging comes to a user after the cancel push only if he was still to be
\* rung when that push was requested.
LEMMA OvertakenStep == ASSUME BridgeInv, [BridgeNext]_commandVars PROVE Overtaken'
<1>1. ASSUME NEW c \in Calls, NEW u \in Callers, NEW callees \in SUBSET Users, NEW group \in BOOLEAN,
             NEW via \in Vias, CreateCall(c, u, callees, group, via)
      PROVE  Overtaken'
    <2>1. /\ phase[c] = "none" /\ UNCHANGED <<pushes, overtook, late>>
          /\ waiting' \subseteq waiting \cup {c}
          /\ \A d \in Calls \ {c} : invited'[d] = invited[d]
        BY <1>1 DEF CreateCall, Begin, BridgeInv, BridgeTypeOK
    <2>2. \A h \in handlers' \ handlers : h.call = c
        BY <1>1 DEF CreateCall, Start, Handler
    <2>3. \A d \in Calls, v \in Users : <<"cancel", d, v>> \in pushes => d # c
        BY <2>1 DEF BridgeInv, NoFalseNotice
    <2>4. \A d \in Calls \ {c}, v \in Users : StillToRing(d, v)' => StillToRing(d, v)
        BY <2>1, <2>2 DEF StillToRing
    <2> QED BY <2>1, <2>3, <2>4, OvertakenKept
<1>2. ASSUME NEW c \in Calls, NEW via \in Vias, CreateReturns(c, via) PROVE Overtaken'
    <2>1. c \in waiting /\ waiting' \subseteq waiting /\ UNCHANGED <<pushes, overtook, late, invited>>
        BY <1>2 DEF CreateReturns, RoomDone
    <2>2. \A h \in handlers' \ handlers : h.call = c /\ h.to = invited[c]
        BY <1>2 DEF CreateReturns, Start, Handler
    <2>3. \A d \in Calls, v \in Users : StillToRing(d, v)' => StillToRing(d, v)
        BY <2>1, <2>2 DEF StillToRing
    <2> QED BY <2>1, <2>3, OvertakenKept
<1>3. ASSUME NEW c \in Calls, CreateFails(c) \/ RingTimeout(c) \/ TimeoutHandler(c) \/ ReplyLost(c)
      PROVE  Overtaken'
    <2>1. CASE CreateFails(c) \/ RingTimeout(c)
        BY <2>1, NobodyToRing DEF CreateFails, RoomFailed, RoomDone, RingTimeout, Expire, bridgeVars
    <2>2. CASE TimeoutHandler(c)
        <3>1. \A g \in handlers' \ handlers : g.op # "create"
            BY <2>2 DEF TimeoutHandler, Start, Handler
        <3> QED BY <2>2, <3>1, NobodyToRing DEF TimeoutHandler, Handled
    <2>3. CASE ReplyLost(c)
        <3>1. handlers' \subseteq handlers
            BY <2>3 DEF ReplyLost
        <3> QED BY <2>3, <3>1, NobodyToRing DEF ReplyLost, Handled, outcomeVars
    <2> QED BY <1>3, <2>1, <2>2, <2>3
<1>4. ASSUME NEW c \in Calls, NEW u \in Users, NEW via \in Vias, UserNext(c, u, via) PROVE Overtaken'
    <2>1. CASE AcceptCall(c, u, via)
        <3>1. \A g \in handlers' \ handlers : g.op # "create"
            BY <2>1 DEF AcceptCall, Start, Handler
        <3> QED BY <2>1, <3>1, NobodyToRing DEF AcceptCall, Answer
    <2>2. CASE JoinCall(c, u)
        BY <2>2, NobodyToRing DEF JoinCall, Enroll, bridgeVars
    <2>3. CASE EndCall(c, u, via)
        <3>1. \A g \in handlers' \ handlers : g.op # "create"
            BY <2>3 DEF EndCall, Start, Handler
        <3> QED BY <2>3, <3>1, NobodyToRing DEF EndCall, End
    <2>4. CASE CancelCall(c, u, via)
        <3>1. \A g \in handlers' \ handlers : g.op # "create"
            BY <2>4 DEF CancelCall, Start, Handler
        <3> QED BY <2>4, <3>1, NobodyToRing DEF CancelCall, Withdraw
    <2> QED BY <1>4, <2>1, <2>2, <2>3, <2>4 DEF UserNext
<1>5. ASSUME NEW h \in handlers, HandlerStep(h) PROVE Overtaken'
    <2>1. Calm
        BY <1>5 DEF HandlerStep, outcomeVars, Calm
    <2>2. h \in Handlers /\ h.op \in Ops /\ h.todo \in Plans(h.op) /\ h.call \in Calls
        BY DEF BridgeInv, BridgeTypeOK, Handlers, Snapshots
    <2>3. CASE Broadcast(h) \/ RingNobody(h)
        BY <2>1, <2>3, AdvanceRings, OvertakenKept DEF Broadcast, RingNobody
    <2>4. CASE NotifyStopRinging(h)
        <3>1. \A p \in pushes' \ pushes : p = <<"stop", h.call, h.user>>
            BY <2>4, Requests DEF NotifyStopRinging, BridgeInv, BridgeTypeOK
        <3>2. \A d \in Calls, v \in Users : <<"cancel", d, v>> \in pushes' => <<"cancel", d, v>> \in pushes
            BY <3>1
        <3>3. UNCHANGED <<overtook, late>> /\ Advance(h)
            BY <2>4 DEF NotifyStopRinging
        <3> QED BY <2>1, <3>2, <3>3, AdvanceRings, OvertakenKept
    <2>5. CASE NotifyCancelled(h)
        <3>1. \A p \in pushes' \ pushes : \E u \in Notified(h) : p = <<"cancel", h.call, u>>
            BY <2>5, Requests DEF NotifyCancelled, BridgeInv, BridgeTypeOK
        <3>2. /\ overtook \subseteq overtook' /\ late' = late /\ Advance(h)
              /\ \A u \in Notified(h) : StillToRing(h.call, u) => <<h.call, u>> \in overtook'
            BY <2>5 DEF NotifyCancelled
        <3> SUFFICES ASSUME NEW d \in Calls, NEW v \in Users, <<"cancel", d, v>> \in pushes',
                            StillToRing(d, v)'
                     PROVE  <<d, v>> \in overtook'
            BY <3>2 DEF Overtaken, BridgeInv
        <3>3. StillToRing(d, v)
            BY <2>1, <3>2, AdvanceRings
        <3>4. <<"cancel", d, v>> \in pushes \/ (d = h.call /\ v \in Notified(h))
            BY <3>1
        <3> QED BY <3>2, <3>3, <3>4 DEF Overtaken, BridgeInv
    <2>6. ASSUME NEW u \in Users, Head(h.todo) = "ring", Ring(h, u) PROVE Overtaken'
        <3>1. h.op = "create" /\ u \in h.to
            BY <2>2, <2>6, Heads DEF Ring
        <3>2. \A p \in pushes' \ pushes : p = <<"ring", h.call, u>>
            BY <2>6, Requests DEF Ring, BridgeInv, BridgeTypeOK
        <3>3. \A d \in Calls, v \in Users : <<"cancel", d, v>> \in pushes' => <<"cancel", d, v>> \in pushes
            BY <3>2
        <3>4. late' \subseteq overtook /\ overtook' = overtook
            BY <2>2, <2>6, <3>1 DEF Ring, Rings, StillToRing, Overtaken, BridgeInv
        <3>5. \A d \in Calls, v \in Users : StillToRing(d, v)' => StillToRing(d, v)
            <4>1. CASE h.to = {u}
                BY <2>1, <2>6, <4>1, AdvanceRings DEF Ring
            <4>2. CASE h.to # {u}
                <5> DEFINE n == [h EXCEPT !.to = @ \ {u}]
                <5>1. n.op = h.op /\ n.call = h.call /\ n.to \subseteq h.to
                    BY <2>2 DEF Handlers
                <5>2. handlers' = (handlers \ {h}) \cup {n}
                    BY <2>6, <4>2 DEF Ring
                <5> HIDE DEF n
                <5> QED BY <2>1, <5>1, <5>2 DEF StillToRing, Calm
            <4> QED BY <4>1, <4>2
        <3> QED BY <3>3, <3>4, <3>5 DEF Overtaken, BridgeInv
    <2> QED BY <1>5, <2>3, <2>4, <2>5, <2>6 DEF HandlerStep
<1>6. CASE Crash
    BY <1>6, NobodyToRing DEF Crash, Die
<1>7. CASE UNCHANGED commandVars
    BY <1>7, NobodyToRing DEF commandVars
<1> QED BY <1>1, <1>2, <1>3, <1>4, <1>5, <1>6, <1>7 DEF BridgeNext

\* Every step keeps the invariant.
LEMMA CommandsStep == ASSUME BridgeInv, [BridgeNext]_commandVars PROVE BridgeInv'
BY RestStep, OvertakenStep DEF BridgeRest, BridgeInv

\* The inductive invariant of the bridge holds, for any users, calls and number of
\* handlers: snapshots stay right, and what is owed has somebody who will do it.
THEOREM BridgeInvariance == BridgeSpec => []BridgeInv
BY CommandsInit, CommandsStep, PTL DEF BridgeSpec

\* Who accepted, over a socket or HTTP, is sent the push that stops his other
\* devices by the time the goroutine of NotifyStopRinging is done.
THEOREM StopPushes == BridgeSpec => []AnsweredElsewhere
<1>1. BridgeInv => AnsweredElsewhere
    BY DEF BridgeInv
<1> QED BY <1>1, BridgeInvariance, PTL

\* The notices of the hub, the HTTP API and the bridge are true when they are sent,
\* although they are made from snapshots in goroutines that overtake each other.
THEOREM Truthful == BridgeSpec => []NoFalseNotice
<1>1. BridgeInv => NoFalseNotice
    BY DEF BridgeInv
<1> QED BY <1>1, BridgeInvariance, PTL

\* NotifyRinging has rung every callee with a device once the call is at rest.
THEOREM CalleesRung == BridgeSpec => []RungAtRest
<1>1. BridgeInv => RungAtRest
    BY DEF BridgeInv, RungAtRest, Rung, AtRest
<1> QED BY <1>1, BridgeInvariance, PTL

\* At rest NotifyCancelled has reached everyone it is for.
LEMMA AllWithdrawn ==
    ASSUME BridgeInv, NEW c \in Calls, AtRest(c), faults = 0, phase[c] \in {"cancelled", "timeout"},
           NEW u \in (members[c] \ {caller[c]}) \cap Reachable
    PROVE  <<"cancel", c, u>> \in pushes
BY DEF BridgeInv, Withdrawn, AtRest

\* Once a call that was cancelled or timed out is at rest, its cancel push is the last
\* a callee who was rung gets, unless NotifyCancelled overtook NotifyRinging.
THEOREM RingsWithdrawn == BridgeSpec => []WithdrawnAtRest
<1>1. BridgeInv => WithdrawnAtRest
    <2> SUFFICES ASSUME BridgeInv, NEW c \in Calls, NEW u \in Users, AtRest(c), faults = 0,
                        phase[c] \in {"cancelled", "timeout"}, <<"ring", c, u>> \in pushes
                 PROVE  CancelIsLast(c, u) \/ <<c, u>> \in overtook
        BY DEF WithdrawnAtRest
    <2>1. u \in invited[c] /\ u \in Reachable
        BY DEF BridgeInv, NoFalseNotice, Rung
    <2>2. u \in members[c] \ {caller[c]}
        BY <2>1 DEF BridgeInv, Created
    <2>3. <<"cancel", c, u>> \in pushes
        BY <2>1, <2>2, AllWithdrawn
    <2> QED BY <2>3 DEF CancelIsLast, BridgeInv, Overtaken
<1> QED BY <1>1, BridgeInvariance, PTL

\* Once a call that has ended is at rest, broadcastCall or NotifyCancelled has told its
\* participants, except where the HTTP API or the timer tells nobody.
THEOREM EndsTold == BridgeSpec => []ToldAtRest
<1>1. BridgeInv => ToldAtRest
    <2> SUFFICES ASSUME BridgeInv, NEW c \in Calls, NEW u \in members[c], AtRest(c), faults = 0,
                        phase[c] \in Over \ {"failed"}, ~Untold(c, u)
                 PROVE  <<"over", c, u>> \in heard \/ <<"cancel", c, u>> \in pushes
        BY DEF ToldAtRest
    <2>1. CASE phase[c] \in {"ended", "cancelled"}
        BY <2>1 DEF BridgeInv, Told, AtRest, Untold
    <2>2. CASE phase[c] = "timeout"
        BY <2>2, AllWithdrawn DEF Untold
    <2> QED BY <2>1, <2>2 DEF Over
<1> QED BY <1>1, BridgeInvariance, PTL

\* Each step of the bridge is one step of the call, or none.
LEMMA OutcomeStep == [BridgeNext]_commandVars => [OutcomeNext]_outcomeVars
<1> SUFFICES ASSUME [BridgeNext]_commandVars PROVE [OutcomeNext]_outcomeVars
    OBVIOUS
<1>1. ASSUME NEW c \in Calls, NEW u \in Callers, NEW callees \in SUBSET Users, NEW group \in BOOLEAN,
             NEW via \in Vias, CreateCall(c, u, callees, group, via)
      PROVE  OutcomeNext
    <2>1. u \in Users /\ Begin(c, u, callees, group)
        BY <1>1, BridgeAssumption DEF CreateCall
    <2> QED BY <2>1 DEF OutcomeNext
<1>2. ASSUME NEW c \in Calls, NEW via \in Vias, CreateReturns(c, via) PROVE OutcomeNext
    BY <1>2 DEF CreateReturns, OutcomeNext
<1>3. ASSUME NEW c \in Calls, CreateFails(c) \/ RingTimeout(c) \/ TimeoutHandler(c)
      PROVE  OutcomeNext
    BY <1>3 DEF CreateFails, RingTimeout, TimeoutHandler, OutcomeNext
<1>4. ASSUME NEW c \in Calls, ReplyLost(c) PROVE OutcomeNext \/ UNCHANGED outcomeVars
    BY <1>4 DEF ReplyLost, OutcomeNext
<1>5. ASSUME NEW c \in Calls, NEW u \in Users, NEW via \in Vias, UserNext(c, u, via)
      PROVE  OutcomeNext
    BY <1>5 DEF UserNext, AcceptCall, JoinCall, EndCall, CancelCall, OutcomeNext
<1>6. ASSUME NEW h \in handlers, HandlerStep(h) PROVE UNCHANGED outcomeVars
    BY <1>6 DEF HandlerStep
<1>7. CASE Crash
    BY <1>7 DEF Crash, OutcomeNext
<1>8. CASE UNCHANGED commandVars
    BY <1>8 DEF commandVars, outcomeVars
<1> QED BY <1>1, <1>2, <1>3, <1>4, <1>5, <1>6, <1>7, <1>8 DEF BridgeNext

\* The commands and their goroutines do to a call only what CallOutcome, and with it
\* the call runtime, lets them do.
THEOREM OutcomeKept == BridgeSpec => OutcomeSpec
<1>1. BridgeInit => OutcomeInit
    BY DEF BridgeInit
<1> QED BY <1>1, OutcomeStep, PTL DEF BridgeSpec, OutcomeSpec

=============================================================================
