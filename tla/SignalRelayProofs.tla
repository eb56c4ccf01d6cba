------------------------- MODULE SignalRelayProofs -------------------------
(* Proofs about SignalRelay for any number of participants, signals and    *)
(* faults, and any size of the log and of the channels.                    *)
EXTENDS SignalRelay, TLAPS

USE RelayAssumption

LEMMA Numbers ==
    /\ MaxSignals \in Nat /\ MaxFaults \in Nat
    /\ MaxLog \in Nat \ {0} /\ ChanSize \in Nat \ {0} /\ SendBuf \in Nat \ {0}
OBVIOUS

-----------------------------------------------------------------------------
(* Sequences *)

LEMMA AppendFacts ==
    ASSUME NEW S, NEW q \in Seq(S), NEW e \in S
    PROVE  /\ Append(q, e) \in Seq(S)
           /\ Len(Append(q, e)) = Len(q) + 1 /\ Len(q) \in Nat
           /\ DOMAIN q = 1..Len(q) /\ DOMAIN Append(q, e) = DOMAIN q \cup {Len(q) + 1}
           /\ Len(q) + 1 \notin DOMAIN q
           /\ \A i \in DOMAIN q : Append(q, e)[i] = q[i]
           /\ Append(q, e)[Len(q) + 1] = e
OBVIOUS

LEMMA AppendSet ==
    ASSUME NEW S, NEW q \in Seq(S), NEW e \in S
    PROVE  ToSet(Append(q, e)) = ToSet(q) \cup {e}
<1>1. /\ DOMAIN Append(q, e) = DOMAIN q \cup {Len(q) + 1}
      /\ \A i \in DOMAIN q : Append(q, e)[i] = q[i]
      /\ Append(q, e)[Len(q) + 1] = e
  BY AppendFacts
<1> QED  BY <1>1 DEF ToSet

\* What is taken from the front of a queue is all that the rest lacks.
LEMMA TailFacts ==
    ASSUME NEW S, NEW q \in Seq(S), q # <<>>
    PROVE  /\ Head(q) \in S /\ Tail(q) \in Seq(S)
           /\ Len(Tail(q)) = Len(q) - 1 /\ Len(q) \in Nat
           /\ ToSet(q) = {Head(q)} \cup ToSet(Tail(q))
<1>1. /\ Len(q) \in Nat \ {0} /\ DOMAIN q = 1..Len(q)
      /\ Head(q) = q[1] /\ Head(q) \in S
      /\ Tail(q) \in Seq(S) /\ Len(Tail(q)) = Len(q) - 1
      /\ DOMAIN Tail(q) = 1..(Len(q) - 1)
      /\ \A i \in 1..(Len(q) - 1) : Tail(q)[i] = q[i + 1]
  OBVIOUS
<1>2. \A i \in DOMAIN q : i = 1 \/ (i - 1 \in DOMAIN Tail(q) /\ q[i] = Tail(q)[i - 1])
  BY <1>1
<1>3. \A i \in DOMAIN Tail(q) : i + 1 \in DOMAIN q /\ q[i + 1] = Tail(q)[i]
  BY <1>1
<1>4. ToSet(q) \subseteq {Head(q)} \cup ToSet(Tail(q))
  <2> SUFFICES ASSUME NEW i \in DOMAIN q
               PROVE  q[i] \in {Head(q)} \cup ToSet(Tail(q))
    BY DEF ToSet
  <2>1. CASE i = 1
    BY <1>1, <2>1
  <2>2. CASE i # 1
    <3>1. i - 1 \in DOMAIN Tail(q) /\ q[i] = Tail(q)[i - 1]
      BY <1>2, <2>2
    <3> QED  BY <3>1 DEF ToSet
  <2> QED  BY <2>1, <2>2
<1>5. {Head(q)} \cup ToSet(Tail(q)) \subseteq ToSet(q)
  <2>1. Head(q) \in ToSet(q)
    BY <1>1 DEF ToSet
  <2>2. ToSet(Tail(q)) \subseteq ToSet(q)
    BY <1>3 DEF ToSet
  <2> QED  BY <2>1, <2>2
<1> QED  BY <1>1, <1>4, <1>5

LEMMA EmptyFacts ==
    ASSUME NEW S
    PROVE  <<>> \in Seq(S) /\ Len(<<>>) = 0 /\ ToSet(<<>>) = {}
BY DEF ToSet

\* LTRIM keeps entries of the log.
LEMMA TrimmedType ==
    ASSUME NEW S, NEW l \in Seq(S)
    PROVE  Trimmed(l) \in Seq(S)
<1>1. CASE Len(l) <= MaxLog
  BY <1>1 DEF Trimmed
<1>2. CASE ~(Len(l) <= MaxLog)
  <2>1. Len(l) \in Nat /\ Len(l) - MaxLog + 1 \in 1..Len(l)
    BY <1>2, Numbers
  <2>2. \A i \in 1..Len(l) : l[i] \in S
    OBVIOUS
  <2>3. SubSeq(l, Len(l) - MaxLog + 1, Len(l)) \in Seq(S)
    BY <2>1, <2>2, Numbers
  <2> QED  BY <1>2, <2>3 DEF Trimmed
<1> QED  BY <1>1, <1>2

-----------------------------------------------------------------------------
(* Delivery *)

\* What has reached u, is on its way or is known to be lost.
Arrived(u) == seen[u] \cup Underway(u) \cup gaps[u]

LEMMA SentFacts ==
    ASSUME TypeOK
    PROVE  /\ Len(senders) \in Nat /\ Sent = 1..Len(senders) /\ Sent \subseteq Signals
           /\ Notice \notin Sent /\ Notice \notin Signals /\ Signals \subseteq Envelopes
           /\ Notice \in Envelopes
<1>1. Len(senders) \in Nat /\ DOMAIN senders = 1..Len(senders) /\ Len(senders) <= MaxSignals
  BY DEF TypeOK
<1> QED  BY <1>1, Numbers DEF Sent, Signals, Notice, Envelopes

LEMMA LostFacts ==
    ASSUME TypeOK, NEW u \in Users, NEW e \in Envelopes, Lost(u, e)
    PROVE  /\ gaps' \in [Users -> SUBSET Signals]
           /\ gaps[u] \subseteq gaps'[u]
           /\ e # Notice => e \in gaps'[u] \cup seen[u]
           /\ \A w \in Users \ {u} : gaps'[w] = gaps[w]
<1>1. gaps' = [gaps EXCEPT ![u] = gaps[u] \cup ({e} \ (seen[u] \cup {Notice}))]
  BY DEF Lost
<1>2. gaps[u] \cup ({e} \ (seen[u] \cup {Notice})) \in SUBSET Signals
  BY DEF TypeOK, Envelopes
<1> QED  BY <1>1, <1>2 DEF TypeOK

\* Conn.Send: an envelope is queued or known to be lost.
LEMMA SendToFacts ==
    ASSUME TypeOK, NEW u \in Users, NEW e \in Envelopes, SendTo(u, e)
    PROVE  /\ queue' \in [Users -> Seq(Envelopes)]
           /\ \A w \in Users : Len(queue'[w]) <= SendBuf
           /\ gaps' \in [Users -> SUBSET Signals]
           /\ ToSet(queue[u]) \subseteq ToSet(queue'[u]) /\ gaps[u] \subseteq gaps'[u]
           /\ e # Notice => e \in ToSet(queue'[u]) \cup gaps'[u] \cup seen[u]
           /\ \A w \in Users \ {u} : queue'[w] = queue[w] /\ gaps'[w] = gaps[w]
<1>1. PICK q \in Seq(Envelopes) : q = queue[u]
  BY DEF TypeOK
<1>2. CASE Len(q) < SendBuf
  <2>1. queue' = [queue EXCEPT ![u] = Append(q, e)] /\ gaps' = gaps
    BY <1>1, <1>2 DEF SendTo
  <2>2. Append(q, e) \in Seq(Envelopes) /\ Len(Append(q, e)) <= SendBuf
    BY <1>2, AppendFacts, Numbers
  <2>3. ToSet(Append(q, e)) = ToSet(q) \cup {e}
    BY AppendSet
  <2>4. /\ queue' \in [Users -> Seq(Envelopes)] /\ queue'[u] = Append(q, e)
        /\ \A w \in Users \ {u} : queue'[w] = queue[w]
    BY <2>1, <2>2 DEF TypeOK
  <2> QED  BY <1>1, <2>1, <2>2, <2>3, <2>4 DEF TypeOK
<1>3. CASE ~(Len(q) < SendBuf)
  <2>1. Lost(u, e) /\ queue' = queue
    BY <1>1, <1>3 DEF SendTo
  <2> QED  BY <2>1, LostFacts DEF TypeOK
<1> QED  BY <1>2, <1>3

\* PUBLISH: who has a connection and has read the log gets the event, or it is
\* known to be lost.
LEMMA PublishFacts ==
    ASSUME TypeOK, NEW v \in Users, NEW e \in Envelopes, Publish(v, e)
    PROVE  /\ chan' \in [Users -> Seq(Envelopes)]
           /\ \A w \in Users : Len(chan'[w]) <= ChanSize
           /\ gaps' \in [Users -> SUBSET Signals]
           /\ ToSet(chan[v]) \subseteq ToSet(chan'[v]) /\ gaps[v] \subseteq gaps'[v]
           /\ (e # Notice /\ v \in caughtUp /\ link[v] # "off") =>
                  e \in ToSet(chan'[v]) \cup gaps'[v] \cup seen[v]
           /\ \A w \in Users \ {v} : chan'[w] = chan[w] /\ gaps'[w] = gaps[w]
<1>1. PICK q \in Seq(Envelopes) : q = chan[v]
  BY DEF TypeOK
<1>2. CASE link[v] = "live" /\ Len(q) < ChanSize
  <2>1. chan' = [chan EXCEPT ![v] = Append(q, e)] /\ gaps' = gaps
    BY <1>1, <1>2 DEF Publish
  <2>2. Append(q, e) \in Seq(Envelopes) /\ Len(Append(q, e)) <= ChanSize
    BY <1>2, AppendFacts, Numbers
  <2>3. ToSet(Append(q, e)) = ToSet(q) \cup {e}
    BY AppendSet
  <2>4. /\ chan' \in [Users -> Seq(Envelopes)] /\ chan'[v] = Append(q, e)
        /\ \A w \in Users \ {v} : chan'[w] = chan[w]
    BY <2>1, <2>2 DEF TypeOK
  <2> QED  BY <1>1, <2>1, <2>2, <2>3, <2>4 DEF TypeOK
<1>3. CASE ~(link[v] = "live" /\ Len(q) < ChanSize)
  <2>1. chan' = chan
    BY <1>1, <1>3 DEF Publish
  <2>2. CASE link[v] = "live" \/ (link[v] = "pending" /\ v \in caughtUp)
    <3>1. Lost(v, e)
      BY <1>1, <1>3, <2>2 DEF Publish
    <3> QED  BY <2>1, <3>1, LostFacts DEF TypeOK
  <2>3. CASE ~(link[v] = "live" \/ (link[v] = "pending" /\ v \in caughtUp))
    <3>1. gaps' = gaps
      BY <1>1, <1>3, <2>3 DEF Publish
    <3>2. v \in caughtUp => link[v] = "off"
      BY <2>3 DEF TypeOK
    <3> QED  BY <2>1, <3>1, <3>2 DEF TypeOK
  <2> QED  BY <2>2, <2>3
<1> QED  BY <1>2, <1>3

\* A step that routes nothing loses nothing silently, if what has arrived stays.
LEMMA SameRouting ==
    ASSUME NoSilentGap, UNCHANGED <<cur, to, senders>>, caughtUp' \subseteq caughtUp,
           \A w \in caughtUp', s \in Sent : (senders[s] # w /\ s \in Arrived(w)) => s \in Arrived(w)'
    PROVE  NoSilentGap'
<1> SUFFICES ASSUME NEW w \in caughtUp', NEW s \in RoutedTo(w)', senders[s] # w
             PROVE  s \in Arrived(w)'
  BY DEF NoSilentGap, Arrived
<1>1. s \in RoutedTo(w) /\ s \in Sent
  BY DEF RoutedTo, Sent
<1>2. s \in Arrived(w)
  BY <1>1 DEF NoSilentGap, Arrived
<1> QED  BY <1>1, <1>2

LEMMA QuietPath ==
    ASSUME NoSilentGap, UNCHANGED <<cur, to, senders, replay, chan, queue, seen, gaps>>,
           caughtUp' \subseteq caughtUp
    PROVE  NoSilentGap'
<1>1. \A w : Arrived(w)' = Arrived(w)
  BY DEF Arrived, Underway
<1> QED  BY <1>1, SameRouting

LEMMA AfterValues ==
    /\ After("idle") = "push" /\ After("push") = "trim" /\ After("trim") = "expire"
    /\ After("expire") = "route" /\ After("route") = "idle"
BY DEF After

-----------------------------------------------------------------------------
(* Invariance *)

LEMMA InvInit == Init => Inv
<1> SUFFICES ASSUME Init PROVE Inv
  OBVIOUS
<1> USE DEF Init
<1>1. TypeOK
  <2>1. replay \in [Users -> Seq(Signals)] /\ chan \in [Users -> Seq(Envelopes)]
        /\ queue \in [Users -> Seq(Envelopes)] /\ log \in Seq(Signals) /\ senders \in Seq(Talkers)
    BY EmptyFacts
  <2>2. Len(senders) <= MaxSignals /\ (\A u \in Users : Len(chan[u]) <= ChanSize /\ Len(queue[u]) <= SendBuf)
    BY EmptyFacts, Numbers
  <2>3. cur \in [Users -> Envelopes]
    BY DEF Envelopes
  <2>4. /\ link \in [Users -> {"off", "pending", "live"}]
        /\ pc \in [Users -> {"idle", "push", "trim", "expire", "route", "read", "replay"}]
        /\ to \in [Users -> SUBSET Users] /\ caughtUp \in SUBSET Users
        /\ seen \in [Users -> SUBSET Signals] /\ gaps \in [Users -> SUBSET Signals]
    OBVIOUS
  <2>5. past \in SUBSET Sent /\ faults \in 0..MaxFaults
    BY Numbers
  <2>6. ttl \in BOOLEAN
    OBVIOUS
  <2> QED  BY <2>1, <2>2, <2>3, <2>4, <2>5, <2>6 DEF TypeOK
<1>2. Sent = {}
  BY DEF Sent
<1>3. NoSilentGap /\ Unlogged
  BY <1>2 DEF NoSilentGap, RoutedTo, Unlogged
<1>4. NoOrphanLog /\ Connected /\ Handling
  BY DEF NoOrphanLog, Connected, Handling, Appending
<1> QED  BY <1>1, <1>3, <1>4 DEF Inv

\* A step that leaves the handlers and the log alone.
LEMMA QuietHandlers ==
    ASSUME Inv, UNCHANGED <<pc, cur, to, replay, log, ttl, senders, past, faults>>,
           \A u \in Users : (u \in caughtUp' => u \in caughtUp) /\ (link[u] # "off" => link'[u] # "off")
    PROVE  NoOrphanLog' /\ Connected' /\ Handling' /\ Unlogged'
<1>1. NoOrphanLog'
  BY DEF Inv, NoOrphanLog
<1>2. Connected'
  BY DEF Inv, Connected
<1>3. Handling' /\ Unlogged'
  BY DEF Inv, Handling, Unlogged, Appending, Sent
<1> QED  BY <1>1, <1>2, <1>3

LEMMA LinkStep ==
    ASSUME Inv, NEW u \in Users, Connect(u) \/ Subscribed(u)
    PROVE  Inv'
<1> USE DEF Connect, Subscribed, handlerVars, pathVars, logVars
<1>1. TypeOK /\ NoSilentGap
  BY DEF Inv
<1>2. TypeOK'
  BY <1>1 DEF TypeOK, Sent
<1>3. NoSilentGap'
  BY <1>1, QuietPath
<1>4. \A w \in Users : link[w] # "off" => link'[w] # "off"
  BY <1>1 DEF TypeOK
<1>5. NoOrphanLog' /\ Connected' /\ Handling' /\ Unlogged'
  BY <1>4, QuietHandlers
<1> QED  BY <1>2, <1>3, <1>5 DEF Inv

LEMMA DisconnectStep ==
    ASSUME Inv, NEW u \in Users, Disconnect(u)
    PROVE  Inv'
<1> USE DEF Disconnect, handlerVars, logVars
<1>1. TypeOK /\ NoSilentGap
  BY DEF Inv
<1>2. TypeOK'
  <2>1. <<>> \in Seq(Envelopes) /\ Len(<<>>) = 0
    BY EmptyFacts
  <2>2. chan' \in [Users -> Seq(Envelopes)] /\ queue' \in [Users -> Seq(Envelopes)]
    BY <1>1, <2>1 DEF TypeOK
  <2>3. \A w \in Users : Len(chan'[w]) <= ChanSize /\ Len(queue'[w]) <= SendBuf
    BY <1>1, <2>1, Numbers DEF TypeOK
  <2>4. link' \in [Users -> {"off", "pending", "live"}] /\ gaps' \in [Users -> SUBSET Signals]
        /\ caughtUp' \in SUBSET Users
    BY <1>1 DEF TypeOK
  <2> QED  BY <1>1, <2>2, <2>3, <2>4 DEF TypeOK, Sent
<1>3. \A w \in caughtUp' : w \in caughtUp /\ Arrived(w)' = Arrived(w)
  BY <1>1 DEF Arrived, Underway, TypeOK
<1>4. NoSilentGap'
  BY <1>1, <1>3, SameRouting
<1>5. Connected'
  BY <1>1 DEF Inv, Connected, TypeOK
<1>6. NoOrphanLog' /\ Handling' /\ Unlogged'
  BY DEF Inv, NoOrphanLog, Handling, Unlogged, Appending, Sent
<1> QED  BY <1>2, <1>4, <1>5, <1>6 DEF Inv

LEMMA DispatchStep ==
    ASSUME Inv, NEW u \in Users, Dispatch(u)
    PROVE  Inv'
<1> USE DEF Dispatch, linkVars, handlerVars, logVars
<1>1. TypeOK /\ NoSilentGap
  BY DEF Inv
<1>2. PICK q \in Seq(Envelopes) : q = chan[u] /\ q # <<>>
  BY <1>1 DEF TypeOK
<1>3. PICK e \in Envelopes : e = Head(q)
  BY <1>2, TailFacts
<1>4. /\ Tail(q) \in Seq(Envelopes) /\ Len(Tail(q)) = Len(q) - 1 /\ Len(q) \in Nat
      /\ ToSet(q) = {e} \cup ToSet(Tail(q))
  BY <1>2, <1>3, TailFacts
<1>5. SendTo(u, e)
  BY <1>2, <1>3
<1>6. /\ queue' \in [Users -> Seq(Envelopes)]
      /\ \A w \in Users : Len(queue'[w]) <= SendBuf
      /\ gaps' \in [Users -> SUBSET Signals]
      /\ ToSet(queue[u]) \subseteq ToSet(queue'[u]) /\ gaps[u] \subseteq gaps'[u]
      /\ e # Notice => e \in ToSet(queue'[u]) \cup gaps'[u] \cup seen[u]
      /\ \A w \in Users \ {u} : queue'[w] = queue[w] /\ gaps'[w] = gaps[w]
  BY <1>1, <1>5, SendToFacts
<1>7. /\ chan' = [chan EXCEPT ![u] = Tail(q)]
      /\ chan'[u] = Tail(q) /\ \A w \in Users \ {u} : chan'[w] = chan[w]
  BY <1>1, <1>2 DEF TypeOK
<1>8. TypeOK'
  <2>1. chan' \in [Users -> Seq(Envelopes)]
    BY <1>1, <1>4, <1>7 DEF TypeOK
  <2>2. Len(chan'[u]) <= ChanSize
    <3>1. Len(q) <= ChanSize
      BY <1>1, <1>2 DEF TypeOK
    <3> QED  BY <1>4, <1>7, <3>1, Numbers
  <2>3. \A w \in Users : Len(chan'[w]) <= ChanSize
    BY <1>1, <1>7, <2>2 DEF TypeOK
  <2> QED  BY <1>1, <1>6, <2>1, <2>3 DEF TypeOK, Sent
<1>9. ASSUME NEW w \in caughtUp, NEW s \in Sent, s \in Arrived(w)
      PROVE  s \in Arrived(w)'
  <2>1. w \in Users /\ s # Notice
    BY <1>1, SentFacts DEF TypeOK
  <2>2. CASE w # u
    BY <1>6, <1>7, <1>9, <2>1, <2>2 DEF Arrived, Underway
  <2>3. CASE w = u
    BY <1>2, <1>4, <1>6, <1>7, <1>9, <2>1, <2>3 DEF Arrived, Underway
  <2> QED  BY <2>2, <2>3
<1>10. NoSilentGap'
  BY <1>1, <1>9, SameRouting
<1>11. NoOrphanLog' /\ Connected' /\ Handling' /\ Unlogged'
  BY QuietHandlers
<1> QED  BY <1>8, <1>10, <1>11 DEF Inv

LEMMA WriteStep ==
    ASSUME Inv, NEW u \in Users, Write(u)
    PROVE  Inv'
<1> USE DEF Write, linkVars, handlerVars, logVars
<1>1. TypeOK /\ NoSilentGap
  BY DEF Inv
<1>2. PICK q \in Seq(Envelopes) : q = queue[u] /\ q # <<>>
  BY <1>1 DEF TypeOK
<1>3. PICK e \in Envelopes : e = Head(q)
  BY <1>2, TailFacts
<1>4. /\ Tail(q) \in Seq(Envelopes) /\ Len(Tail(q)) = Len(q) - 1 /\ Len(q) \in Nat
      /\ ToSet(q) = {e} \cup ToSet(Tail(q))
  BY <1>2, <1>3, TailFacts
<1>5. /\ queue' = [queue EXCEPT ![u] = Tail(q)]
      /\ queue'[u] = Tail(q) /\ \A w \in Users \ {u} : queue'[w] = queue[w]
  BY <1>1, <1>2 DEF TypeOK
<1>6. /\ seen' \in [Users -> SUBSET Signals]
      /\ seen'[u] = seen[u] \cup ({e} \ {Notice}) /\ \A w \in Users \ {u} : seen'[w] = seen[w]
  <2>1. seen' = [seen EXCEPT ![u] = seen[u] \cup ({e} \ {Notice})]
    BY <1>2, <1>3
  <2>2. seen[u] \cup ({e} \ {Notice}) \in SUBSET Signals
    BY <1>1 DEF TypeOK, Envelopes
  <2> QED  BY <1>1, <2>1, <2>2 DEF TypeOK
<1>7. TypeOK'
  <2>1. queue' \in [Users -> Seq(Envelopes)]
    BY <1>1, <1>4, <1>5 DEF TypeOK
  <2>2. Len(queue'[u]) <= SendBuf
    <3>1. Len(q) <= SendBuf
      BY <1>1, <1>2 DEF TypeOK
    <3> QED  BY <1>4, <1>5, <3>1, Numbers
  <2>3. \A w \in Users : Len(queue'[w]) <= SendBuf
    BY <1>1, <1>5, <2>2 DEF TypeOK
  <2> QED  BY <1>1, <1>6, <2>1, <2>3 DEF TypeOK, Sent
<1>8. ASSUME NEW w \in caughtUp, NEW s \in Sent, s \in Arrived(w)
      PROVE  s \in Arrived(w)'
  <2>1. w \in Users /\ s # Notice
    BY <1>1, SentFacts DEF TypeOK
  <2>2. CASE w # u
    BY <1>5, <1>6, <1>8, <2>1, <2>2 DEF Arrived, Underway
  <2>3. CASE w = u
    BY <1>2, <1>4, <1>5, <1>6, <1>8, <2>1, <2>3 DEF Arrived, Underway
  <2> QED  BY <2>2, <2>3
<1>9. NoSilentGap'
  BY <1>1, <1>8, SameRouting
<1>10. NoOrphanLog' /\ Connected' /\ Handling' /\ Unlogged'
  BY QuietHandlers
<1> QED  BY <1>7, <1>9, <1>10 DEF Inv

\* A connection is sent a notice.
LEMMA NoticeSent ==
    ASSUME TypeOK, NEW u \in Users, SendTo(u, Notice), UNCHANGED <<replay, chan, seen>>
    PROVE  /\ queue' \in [Users -> Seq(Envelopes)]
           /\ \A w \in Users : Len(queue'[w]) <= SendBuf
           /\ gaps' \in [Users -> SUBSET Signals]
           /\ \A w \in Users : Arrived(w) \subseteq Arrived(w)'
<1>1. Notice \in Envelopes
  BY DEF Envelopes
<1>2. /\ queue' \in [Users -> Seq(Envelopes)]
      /\ \A w \in Users : Len(queue'[w]) <= SendBuf
      /\ gaps' \in [Users -> SUBSET Signals]
      /\ ToSet(queue[u]) \subseteq ToSet(queue'[u]) /\ gaps[u] \subseteq gaps'[u]
      /\ \A w \in Users \ {u} : queue'[w] = queue[w] /\ gaps'[w] = gaps[w]
  BY <1>1, SendToFacts
<1>3. \A w \in Users : ToSet(queue[w]) \subseteq ToSet(queue'[w]) /\ gaps[w] \subseteq gaps'[w]
  BY <1>2
<1> QED  BY <1>2, <1>3 DEF Arrived, Underway

LEMMA RefusedStep ==
    ASSUME Inv, NEW u \in Users, Refused(u)
    PROVE  Inv'
<1> USE DEF Refused, linkVars, handlerVars, logVars
<1>1. TypeOK /\ NoSilentGap
  BY DEF Inv
<1>2. /\ queue' \in [Users -> Seq(Envelopes)]
      /\ \A w \in Users : Len(queue'[w]) <= SendBuf
      /\ gaps' \in [Users -> SUBSET Signals]
      /\ \A w \in Users : Arrived(w) \subseteq Arrived(w)'
  BY <1>1, NoticeSent
<1>3. TypeOK'
  BY <1>1, <1>2 DEF TypeOK, Sent
<1>4. caughtUp' \subseteq Users /\ caughtUp' = caughtUp
  BY <1>1 DEF TypeOK
<1>5. NoSilentGap'
  BY <1>1, <1>2, <1>4, SameRouting
<1>6. NoOrphanLog' /\ Connected' /\ Handling' /\ Unlogged'
  BY QuietHandlers
<1> QED  BY <1>3, <1>5, <1>6 DEF Inv

\* A signal is accepted: nobody but its sender could have missed it yet.
LEMMA RelaySignalingStep ==
    ASSUME Inv, NEW u \in Users, RelaySignaling(u)
    PROVE  Inv'
<1>1. TypeOK /\ NoSilentGap /\ Connected /\ Handling /\ Unlogged /\ NoOrphanLog
  BY DEF Inv
<1>2. /\ u \in Talkers /\ pc[u] = "idle" /\ link[u] # "off" /\ Len(senders) < MaxSignals
      /\ senders' = Append(senders, u)
      /\ cur' = [cur EXCEPT ![u] = Len(senders) + 1]
      /\ to' = [to EXCEPT ![u] = Users \ {u}]
      /\ pc' = [pc EXCEPT ![u] = "push"]
      /\ UNCHANGED <<link, caughtUp, replay, chan, queue, seen, log, ttl, past, gaps, faults>>
  BY AfterValues DEF RelaySignaling, Goto, linkVars, pathVars, logVars
<1>3. PICK new \in Signals : new = Len(senders) + 1
  BY <1>1, <1>2, SentFacts, Numbers DEF Signals
<1>4. /\ senders' \in Seq(Talkers) /\ Len(senders') <= MaxSignals
      /\ Sent' = Sent \cup {new} /\ new \notin Sent
      /\ \A s \in Sent : senders'[s] = senders[s]
      /\ senders'[new] = u
  <2>1. senders \in Seq(Talkers)
    BY <1>1 DEF TypeOK
  <2>2. /\ senders' \in Seq(Talkers) /\ Len(senders') = Len(senders) + 1 /\ Len(senders) \in Nat
        /\ DOMAIN senders' = DOMAIN senders \cup {Len(senders) + 1}
        /\ Len(senders) + 1 \notin DOMAIN senders
        /\ \A s \in DOMAIN senders : senders'[s] = senders[s]
        /\ senders'[Len(senders) + 1] = u
    BY <1>2, <2>1, AppendFacts
  <2>3. Len(senders') <= MaxSignals
    BY <1>2, <2>2, Numbers
  <2> QED  BY <1>3, <2>2, <2>3 DEF Sent
<1>5. /\ cur'[u] = new /\ to'[u] = Users \ {u} /\ pc'[u] = "push"
      /\ \A w \in Users \ {u} : cur'[w] = cur[w] /\ to'[w] = to[w] /\ pc'[w] = pc[w]
  BY <1>1, <1>2, <1>3 DEF TypeOK
<1>6. TypeOK'
  <2>1. cur' \in [Users -> Envelopes]
    BY <1>1, <1>2, <1>3, SentFacts DEF TypeOK
  <2>2. /\ to' \in [Users -> SUBSET Users]
        /\ pc' \in [Users -> {"idle", "push", "trim", "expire", "route", "read", "replay"}]
    BY <1>1, <1>2 DEF TypeOK
  <2>3. past' \in SUBSET Sent'
    BY <1>1, <1>2, <1>4 DEF TypeOK
  <2> QED  BY <1>1, <1>2, <1>4, <2>1, <2>2, <2>3 DEF TypeOK
<1>7. to[u] = {}
  BY <1>1, <1>2 DEF Handling
<1>8. NoSilentGap'
  <2> SUFFICES ASSUME NEW w \in caughtUp, NEW s \in RoutedTo(w)', senders'[s] # w
               PROVE  s \in Arrived(w)'
    BY <1>2 DEF NoSilentGap, Arrived
  <2>1. w \in Users /\ s \in Sent' /\ ~\E v \in Users : cur'[v] = s /\ w \in to'[v]
    BY <1>1 DEF RoutedTo, TypeOK
  <2>2. s # new
    BY <1>4, <1>5, <2>1
  <2>3. s \in Sent /\ senders[s] # w
    BY <1>4, <2>1, <2>2
  <2>4. s \in RoutedTo(w)
    BY <1>5, <1>7, <2>1, <2>3 DEF RoutedTo
  <2>5. s \in Arrived(w)
    BY <1>1, <2>3, <2>4 DEF NoSilentGap, Arrived
  <2> QED  BY <1>2, <2>5 DEF Arrived, Underway
<1>9. NoOrphanLog'
  BY <1>1, <1>2, <1>5 DEF NoOrphanLog
<1>10. Connected'
  BY <1>1, <1>2, <1>5 DEF Connected
<1>11. Handling'
  <2> SUFFICES ASSUME NEW w \in Users
               PROVE  /\ pc'[w] \in {"idle", "read", "replay"} => to'[w] = {}
                      /\ pc'[w] # "replay" => replay'[w] = <<>>
                      /\ Appending(w)' => cur'[w] \in Sent' /\ senders'[cur'[w]] = w /\ to'[w] = Users \ {w}
    BY DEF Handling
  <2>1. replay'[w] = replay[w] /\ (pc[w] # "replay" => replay[w] = <<>>)
    BY <1>1, <1>2 DEF Handling
  <2>2. CASE w = u
    <3>1. replay'[w] = <<>> /\ pc'[w] = "push" /\ to'[w] = Users \ {w} /\ cur'[w] = new
      BY <1>2, <1>5, <2>1, <2>2
    <3>2. cur'[w] \in Sent' /\ senders'[cur'[w]] = w
      BY <1>4, <2>2, <3>1
    <3> QED  BY <3>1, <3>2
  <2>3. CASE w # u
    <3>1. cur'[w] = cur[w] /\ to'[w] = to[w] /\ pc'[w] = pc[w]
      BY <1>5, <2>3
    <3>2. Appending(w) => cur[w] \in Sent /\ senders[cur[w]] = w /\ to[w] = Users \ {w}
      BY <1>1 DEF Handling
    <3>3. Appending(w)' => cur'[w] \in Sent' /\ senders'[cur'[w]] = w /\ to'[w] = Users \ {w}
      BY <1>4, <3>1, <3>2 DEF Appending
    <3> QED  BY <1>1, <2>1, <3>1, <3>3 DEF Handling
  <2> QED  BY <2>2, <2>3
<1>12. Unlogged'
  <2> SUFFICES ASSUME NEW s \in Sent' \ past
               PROVE  \E w \in Users : pc'[w] \in {"push", "trim", "expire"} /\ cur'[w] = s
    BY <1>2 DEF Unlogged, Appending
  <2>1. CASE s = new
    BY <1>5, <2>1
  <2>2. CASE s # new
    <3>1. PICK w \in Users : pc[w] \in {"push", "trim", "expire"} /\ cur[w] = s
      BY <1>1, <1>4, <2>2 DEF Unlogged, Appending
    <3> QED  BY <1>2, <1>5, <3>1
  <2> QED  BY <2>1, <2>2
<1> QED  BY <1>6, <1>8, <1>9, <1>10, <1>11, <1>12 DEF Inv

LEMMA ResumeStep ==
    ASSUME Inv, NEW u \in Users, Resume(u)
    PROVE  Inv'
<1>1. TypeOK /\ NoSilentGap /\ Connected /\ Handling /\ Unlogged /\ NoOrphanLog
  BY DEF Inv
<1>2. /\ pc[u] = "idle" /\ link[u] # "off" /\ SendTo(u, Notice)
      /\ cur' = [cur EXCEPT ![u] = Notice]
      /\ to' = [to EXCEPT ![u] = Users]
      /\ pc' = [pc EXCEPT ![u] = "route"]
      /\ UNCHANGED <<link, caughtUp, replay, chan, seen, log, ttl, senders, past, faults>>
  BY DEF Resume, Goto, linkVars, logVars
<1>3. /\ queue' \in [Users -> Seq(Envelopes)]
      /\ \A w \in Users : Len(queue'[w]) <= SendBuf
      /\ gaps' \in [Users -> SUBSET Signals]
      /\ \A w \in Users : Arrived(w) \subseteq Arrived(w)'
  BY <1>1, <1>2, NoticeSent
<1>4. /\ cur'[u] = Notice /\ to'[u] = Users /\ pc'[u] = "route"
      /\ \A w \in Users \ {u} : cur'[w] = cur[w] /\ to'[w] = to[w] /\ pc'[w] = pc[w]
  BY <1>1, <1>2 DEF TypeOK
<1>5. TypeOK'
  <2>1. cur' \in [Users -> Envelopes]
    BY <1>1, <1>2, SentFacts DEF TypeOK
  <2>2. /\ to' \in [Users -> SUBSET Users]
        /\ pc' \in [Users -> {"idle", "push", "trim", "expire", "route", "read", "replay"}]
    BY <1>1, <1>2 DEF TypeOK
  <2> QED  BY <1>1, <1>2, <1>3, <2>1, <2>2 DEF TypeOK, Sent
<1>6. to[u] = {} /\ Sent' = Sent
  BY <1>1, <1>2 DEF Handling, Sent
<1>7. NoSilentGap'
  <2> SUFFICES ASSUME NEW w \in caughtUp, NEW s \in RoutedTo(w)', senders[s] # w
               PROVE  s \in Arrived(w)'
    BY <1>2 DEF NoSilentGap, Arrived
  <2>1. w \in Users /\ s \in Sent /\ ~\E v \in Users : cur'[v] = s /\ w \in to'[v]
    BY <1>1, <1>6 DEF RoutedTo, TypeOK
  <2>2. s \in RoutedTo(w)
    BY <1>4, <1>6, <2>1 DEF RoutedTo
  <2>3. s \in Arrived(w)
    BY <1>1, <2>2 DEF NoSilentGap, Arrived
  <2> QED  BY <1>3, <2>1, <2>3
<1>8. NoOrphanLog'
  <2> SUFFICES ASSUME log # <<>>, faults = 0, ~ttl
               PROVE  \E w \in Users : pc'[w] \in {"trim", "expire"}
    BY <1>2 DEF NoOrphanLog
  <2>1. PICK w \in Users : pc[w] \in {"trim", "expire"}
    BY <1>1 DEF NoOrphanLog
  <2> QED  BY <1>2, <1>4, <2>1
<1>9. Connected'
  BY <1>1, <1>2, <1>4 DEF Connected
<1>10. Handling'
  BY <1>1, <1>2, <1>4, <1>6 DEF Handling, Appending
<1>11. Unlogged'
  <2> SUFFICES ASSUME NEW s \in Sent \ past
               PROVE  \E w \in Users : pc'[w] \in {"push", "trim", "expire"} /\ cur'[w] = s
    BY <1>2, <1>6 DEF Unlogged, Appending
  <2>1. PICK w \in Users : pc[w] \in {"push", "trim", "expire"} /\ cur[w] = s
    BY <1>1 DEF Unlogged, Appending
  <2> QED  BY <1>2, <1>4, <2>1
<1> QED  BY <1>5, <1>7, <1>8, <1>9, <1>10, <1>11 DEF Inv

\* A handler goes on with Append, or is done with it and routes.
LEMMA AppendStep ==
    ASSUME Inv, NEW u \in Users, Appending(u), NEW p \in {"trim", "expire", "route"},
           pc' = [pc EXCEPT ![u] = p],
           past' = past \/ past' = past \cup {cur[u]},
           p = "route" => past' = past \cup {cur[u]},
           UNCHANGED <<link, caughtUp, cur, to, replay, chan, queue, seen, senders, gaps>>
    PROVE  /\ pc' \in [Users -> {"idle", "push", "trim", "expire", "route", "read", "replay"}]
           /\ pc'[u] = p /\ \A w \in Users \ {u} : pc'[w] = pc[w]
           /\ past' \in SUBSET Sent'
           /\ NoSilentGap' /\ Connected' /\ Handling' /\ Unlogged'
<1>1. TypeOK /\ NoSilentGap /\ Connected /\ Handling /\ Unlogged
  BY DEF Inv
<1>2. /\ pc' \in [Users -> {"idle", "push", "trim", "expire", "route", "read", "replay"}]
      /\ pc'[u] = p /\ \A w \in Users \ {u} : pc'[w] = pc[w]
  BY <1>1 DEF TypeOK
<1>3. cur[u] \in Sent /\ senders[cur[u]] = u /\ to[u] = Users \ {u} /\ Sent' = Sent
  BY <1>1 DEF Handling, Sent
<1>4. past' \in SUBSET Sent'
  BY <1>1, <1>3 DEF TypeOK
<1>5. NoSilentGap'
  BY <1>1, QuietPath
<1>6. Connected'
  BY <1>1, <1>2 DEF Connected, Appending
<1>7. Handling'
  <2> SUFFICES ASSUME NEW w \in Users
               PROVE  /\ pc'[w] \in {"idle", "read", "replay"} => to[w] = {}
                      /\ pc'[w] # "replay" => replay[w] = <<>>
                      /\ Appending(w)' => cur[w] \in Sent /\ senders[cur[w]] = w /\ to[w] = Users \ {w}
    BY <1>3 DEF Handling
  <2>1. CASE w = u
    BY <1>1, <1>2, <1>3, <2>1 DEF Handling, Appending
  <2>2. CASE w # u
    BY <1>1, <1>2, <2>2 DEF Handling, Appending
  <2> QED  BY <2>1, <2>2
<1>8. Unlogged'
  <2> SUFFICES ASSUME NEW s \in Sent \ past'
               PROVE  \E w \in Users : pc'[w] \in {"push", "trim", "expire"} /\ cur[w] = s
    BY <1>3 DEF Unlogged, Appending
  <2>1. PICK w \in Users : pc[w] \in {"push", "trim", "expire"} /\ cur[w] = s
    BY <1>1 DEF Unlogged, Appending
  <2>2. w = u => p # "route"
    BY <2>1
  <2> QED  BY <1>2, <2>1, <2>2
<1> QED  BY <1>2, <1>4, <1>5, <1>6, <1>7, <1>8

LEMMA LogStepStep ==
    ASSUME Inv, NEW u \in Users, LogStep(u)
    PROVE  Inv'
<1>1. TypeOK /\ NoOrphanLog /\ Handling
  BY DEF Inv
<1>2. /\ Appending(u) /\ pc' = [pc EXCEPT ![u] = After(pc[u])]
      /\ past' = IF pc[u] = "expire" THEN past \cup {cur[u]} ELSE past
      /\ UNCHANGED <<link, caughtUp, cur, to, replay, chan, queue, seen, senders, gaps, faults>>
  BY DEF LogStep, Appending, Goto, linkVars, pathVars
<1>3. PICK p \in {"trim", "expire", "route"} :
        /\ p = After(pc[u])
        /\ (pc[u] = "push" /\ p = "trim") \/ (pc[u] = "trim" /\ p = "expire")
           \/ (pc[u] = "expire" /\ p = "route")
  BY <1>2, AfterValues DEF Appending
<1>4. /\ pc' = [pc EXCEPT ![u] = p]
      /\ past' = past \/ past' = past \cup {cur[u]}
      /\ p = "route" => past' = past \cup {cur[u]}
  BY <1>2, <1>3
<1>5. /\ pc' \in [Users -> {"idle", "push", "trim", "expire", "route", "read", "replay"}]
      /\ pc'[u] = p /\ \A w \in Users \ {u} : pc'[w] = pc[w]
      /\ past' \in SUBSET Sent'
      /\ NoSilentGap' /\ Connected' /\ Handling' /\ Unlogged'
  BY <1>2, <1>4, AppendStep
<1>6. cur[u] \in Signals /\ log \in Seq(Signals)
  BY <1>1, <1>2, SentFacts DEF Handling, TypeOK
<1>7. log' \in Seq(Signals) /\ ttl' \in BOOLEAN
  <2>1. CASE pc[u] = "push"
    <3>1. log' = Append(log, cur[u]) /\ ttl' = ttl
      BY <2>1 DEF LogStep
    <3>2. log' \in Seq(Signals)
      BY <1>6, <3>1, AppendFacts
    <3> QED  BY <1>1, <3>1, <3>2 DEF TypeOK
  <2>2. CASE pc[u] = "trim"
    <3>1. log' = Trimmed(log) /\ ttl' = ttl
      BY <2>2 DEF LogStep
    <3>2. log' \in Seq(Signals)
      BY <1>6, <3>1, TrimmedType
    <3> QED  BY <1>1, <3>1, <3>2 DEF TypeOK
  <2>3. CASE pc[u] = "expire"
    <3>1. log' = log /\ ttl' = (log # <<>>)
      BY <2>3 DEF LogStep
    <3>2. ttl' \in BOOLEAN
      BY <3>1
    <3> QED  BY <1>6, <3>1, <3>2
  <2> QED  BY <1>2, <2>1, <2>2, <2>3 DEF Appending
<1>8. TypeOK'
  BY <1>1, <1>2, <1>5, <1>7 DEF TypeOK, Sent
<1>9. NoOrphanLog'
  <2>1. CASE p # "route"
    BY <1>5, <2>1 DEF NoOrphanLog
  <2>2. CASE p = "route"
    <3>1. log' = log /\ ttl' = (log # <<>>)
      BY <1>3, <2>2 DEF LogStep
    <3> QED  BY <3>1 DEF NoOrphanLog
  <2> QED  BY <2>1, <2>2
<1> QED  BY <1>5, <1>8, <1>9 DEF Inv

LEMMA FaultFacts ==
    ASSUME TypeOK, Fault
    PROVE  faults' \in 0..MaxFaults /\ faults' # 0
<1>1. faults \in 0..MaxFaults /\ faults < MaxFaults /\ faults' = faults + 1
  BY DEF TypeOK, Fault
<1> QED  BY <1>1, Numbers

LEMMA AppendFailsStep ==
    ASSUME Inv, NEW u \in Users, AppendFails(u)
    PROVE  Inv'
<1>1. TypeOK
  BY DEF Inv
<1>2. /\ Appending(u) /\ pc' = [pc EXCEPT ![u] = "route"] /\ Fault
      /\ past' = past \cup {cur[u]}
      /\ UNCHANGED <<link, caughtUp, cur, to, replay, chan, queue, seen, log, ttl, senders, gaps>>
  BY DEF AppendFails, Appending, Goto, linkVars, pathVars, logVars
<1>3. /\ pc' \in [Users -> {"idle", "push", "trim", "expire", "route", "read", "replay"}]
      /\ past' \in SUBSET Sent'
      /\ NoSilentGap' /\ Connected' /\ Handling' /\ Unlogged'
  BY <1>2, AppendStep
<1>4. faults' \in 0..MaxFaults /\ faults' # 0
  BY <1>1, <1>2, FaultFacts
<1>5. TypeOK'
  BY <1>1, <1>2, <1>3, <1>4 DEF TypeOK, Sent
<1>6. NoOrphanLog'
  BY <1>4 DEF NoOrphanLog
<1> QED  BY <1>3, <1>5, <1>6 DEF Inv

LEMMA LogExpiresStep ==
    ASSUME Inv, LogExpires
    PROVE  Inv'
<1> USE DEF LogExpires, linkVars, handlerVars, pathVars
<1>1. TypeOK /\ NoSilentGap
  BY DEF Inv
<1>2. log' \in Seq(Signals)
  BY EmptyFacts
<1>3. ttl' \in BOOLEAN
  OBVIOUS
<1>4. TypeOK'
  BY <1>1, <1>2, <1>3 DEF TypeOK, Sent
<1>5. NoSilentGap'
  BY <1>1, QuietPath
<1>6. NoOrphanLog'
  BY DEF NoOrphanLog
<1>7. Connected' /\ Handling' /\ Unlogged'
  BY DEF Inv, Connected, Handling, Unlogged, Appending, Sent
<1> QED  BY <1>4, <1>5, <1>6, <1>7 DEF Inv

\* The log is read: a signal that was routed was logged first, so it is in the
\* log, or has been trimmed, or expired, or was never logged.
LEMMA GetRecentStep ==
    ASSUME Inv, NEW u \in Users, GetRecent(u)
    PROVE  Inv'
<1>1. TypeOK /\ NoSilentGap /\ Connected /\ Handling /\ Unlogged /\ NoOrphanLog
  BY DEF Inv
<1>2. /\ pc[u] = "read" /\ pc' = [pc EXCEPT ![u] = "replay"]
      /\ replay' = [replay EXCEPT ![u] = log]
      /\ caughtUp' = caughtUp \cup {u}
      /\ gaps' = [gaps EXCEPT ![u] = {s \in past \ (ToSet(log) \cup seen[u]) : senders[s] # u}]
      /\ UNCHANGED <<link, cur, to, chan, queue, seen, log, ttl, senders, past, faults>>
  BY DEF GetRecent, Goto, pathVars, logVars
<1>3. /\ pc'[u] = "replay" /\ replay'[u] = log
      /\ gaps'[u] = {s \in past \ (ToSet(log) \cup seen[u]) : senders[s] # u}
      /\ \A w \in Users \ {u} : pc'[w] = pc[w] /\ replay'[w] = replay[w] /\ gaps'[w] = gaps[w]
  BY <1>1, <1>2 DEF TypeOK
<1>4. TypeOK'
  <2>1. pc' \in [Users -> {"idle", "push", "trim", "expire", "route", "read", "replay"}]
        /\ caughtUp' \in SUBSET Users
    BY <1>1, <1>2 DEF TypeOK
  <2>2. replay' \in [Users -> Seq(Signals)]
    BY <1>1, <1>2 DEF TypeOK
  <2>3. gaps' \in [Users -> SUBSET Signals]
    <3>1. past \subseteq Signals
      BY <1>1, SentFacts DEF TypeOK
    <3> QED  BY <1>1, <1>2, <3>1 DEF TypeOK
  <2> QED  BY <1>1, <1>2, <2>1, <2>2, <2>3 DEF TypeOK, Sent
<1>5. Sent' = Sent /\ \A w : RoutedTo(w)' = RoutedTo(w)
  BY <1>2 DEF Sent, RoutedTo
<1>6. NoSilentGap'
  <2> SUFFICES ASSUME NEW w \in caughtUp', NEW s \in RoutedTo(w), senders[s] # w
               PROVE  s \in Arrived(w)'
    BY <1>2, <1>5 DEF NoSilentGap, Arrived
  <2>1. w \in Users /\ s \in Sent
    BY <1>1, <1>2 DEF TypeOK, RoutedTo
  <2>2. CASE w = u
    <3>1. s \in past
      <4> SUFFICES ASSUME s \notin past PROVE FALSE
        OBVIOUS
      <4>1. PICK v \in Users : Appending(v) /\ cur[v] = s
        BY <1>1, <2>1 DEF Unlogged
      <4>2. senders[s] = v /\ to[v] = Users \ {v}
        BY <1>1, <4>1 DEF Handling
      <4> QED  BY <2>1, <4>1, <4>2 DEF RoutedTo
    <3>2. s \in ToSet(log) \cup seen[u] \cup gaps'[u]
      BY <1>3, <2>2, <3>1
    <3> QED  BY <1>2, <1>3, <2>2, <3>2 DEF Arrived, Underway
  <2>3. CASE w # u
    <3>1. s \in Arrived(w)
      BY <1>1, <1>2, <2>3 DEF NoSilentGap, Arrived
    <3> QED  BY <1>2, <1>3, <2>1, <2>3, <3>1 DEF Arrived, Underway
  <2> QED  BY <2>2, <2>3
<1>7. NoOrphanLog'
  <2> SUFFICES ASSUME log # <<>>, faults = 0, ~ttl
               PROVE  \E w \in Users : pc'[w] \in {"trim", "expire"}
    BY <1>2 DEF NoOrphanLog
  <2>1. PICK w \in Users : pc[w] \in {"trim", "expire"}
    BY <1>1 DEF NoOrphanLog
  <2> QED  BY <1>2, <1>3, <2>1
<1>8. Connected'
  BY <1>1, <1>2, <1>3 DEF Connected
<1>9. Handling'
  BY <1>1, <1>2, <1>3, <1>5 DEF Handling, Appending
<1>10. Unlogged'
  BY <1>1, <1>2, <1>3, <1>5 DEF Unlogged, Appending
<1> QED  BY <1>4, <1>6, <1>7, <1>8, <1>9, <1>10 DEF Inv

\* A handler has finished: it returns to its loop.
LEMMA HandlerDone ==
    ASSUME Inv, NEW u \in Users, pc[u] \in {"read", "replay"}, replay[u] = <<>>,
           pc' = [pc EXCEPT ![u] = "idle"],
           faults' = faults \/ (faults' \in 0..MaxFaults /\ faults' # 0),
           UNCHANGED <<link, caughtUp, cur, to, replay, chan, queue, seen, log, ttl, senders, past, gaps>>
    PROVE  Inv'
<1>1. TypeOK /\ NoSilentGap /\ Connected /\ Handling /\ Unlogged /\ NoOrphanLog
  BY DEF Inv
<1>2. /\ pc' \in [Users -> {"idle", "push", "trim", "expire", "route", "read", "replay"}]
      /\ pc'[u] = "idle" /\ \A w \in Users \ {u} : pc'[w] = pc[w]
  BY <1>1 DEF TypeOK
<1>3. TypeOK'
  <2>1. faults' \in 0..MaxFaults
    BY <1>1 DEF TypeOK
  <2> QED  BY <1>1, <1>2, <2>1 DEF TypeOK, Sent
<1>4. NoSilentGap'
  BY <1>1, QuietPath
<1>5. NoOrphanLog'
  <2> SUFFICES ASSUME log # <<>>, faults = 0, ~ttl
               PROVE  \E w \in Users : pc'[w] \in {"trim", "expire"}
    BY DEF NoOrphanLog
  <2>1. PICK w \in Users : pc[w] \in {"trim", "expire"}
    BY <1>1 DEF NoOrphanLog
  <2> QED  BY <1>2, <2>1
<1>6. Connected'
  BY <1>1, <1>2 DEF Connected
<1>7. Handling' /\ Unlogged'
  <2>1. Sent' = Sent
    BY DEF Sent
  <2>2. Handling'
    BY <1>1, <1>2, <2>1 DEF Handling, Appending
  <2>3. Unlogged'
    BY <1>1, <1>2, <2>1 DEF Unlogged, Appending
  <2> QED  BY <2>2, <2>3
<1> QED  BY <1>3, <1>4, <1>5, <1>6, <1>7 DEF Inv

LEMMA GetRecentFailsStep ==
    ASSUME Inv, NEW u \in Users, GetRecentFails(u)
    PROVE  Inv'
<1>1. TypeOK /\ replay[u] = <<>>
  BY DEF Inv, Handling, GetRecentFails
<1>2. faults' \in 0..MaxFaults /\ faults' # 0
  BY <1>1, FaultFacts DEF GetRecentFails
<1> QED  BY <1>1, <1>2, HandlerDone DEF GetRecentFails, Goto, linkVars, pathVars, logVars

LEMMA ReplayStep ==
    ASSUME Inv, NEW u \in Users, Replay(u)
    PROVE  Inv'
<1>1. TypeOK /\ NoSilentGap /\ Connected /\ Handling /\ Unlogged /\ NoOrphanLog
  BY DEF Inv
<1>2. CASE replay[u] = <<>>
  BY <1>2, HandlerDone DEF Replay, Goto, linkVars, logVars
<1>3. CASE replay[u] # <<>>
  <2>1. PICK q \in Seq(Signals) : q = replay[u] /\ q # <<>>
    BY <1>1, <1>3 DEF TypeOK
  <2>2. PICK e \in Signals : e = Head(q)
    BY <2>1, TailFacts
  <2>3. Tail(q) \in Seq(Signals) /\ ToSet(q) = {e} \cup ToSet(Tail(q))
    BY <2>1, <2>2, TailFacts
  <2>4. /\ pc[u] = "replay" /\ replay' = [replay EXCEPT ![u] = Tail(q)]
        /\ IF senders[e] # u THEN SendTo(u, e) ELSE queue' = queue /\ gaps' = gaps
        /\ UNCHANGED <<link, caughtUp, pc, cur, to, chan, seen, log, ttl, senders, past, faults>>
    BY <1>3, <2>1, <2>2 DEF Replay, Foreign, linkVars, logVars
  <2>5. e \in Envelopes
    BY <1>1, SentFacts
  <2>6. /\ queue' \in [Users -> Seq(Envelopes)]
        /\ \A w \in Users : Len(queue'[w]) <= SendBuf
        /\ gaps' \in [Users -> SUBSET Signals]
        /\ ToSet(queue[u]) \subseteq ToSet(queue'[u]) /\ gaps[u] \subseteq gaps'[u]
        /\ (e # Notice /\ senders[e] # u) => e \in ToSet(queue'[u]) \cup gaps'[u] \cup seen[u]
        /\ \A w \in Users \ {u} : queue'[w] = queue[w] /\ gaps'[w] = gaps[w]
    <3>1. CASE senders[e] # u
      BY <1>1, <2>4, <2>5, <3>1, SendToFacts
    <3>2. CASE senders[e] = u
      BY <1>1, <2>4, <3>2 DEF TypeOK
    <3> QED  BY <3>1, <3>2
  <2>7. /\ replay' \in [Users -> Seq(Signals)]
        /\ replay'[u] = Tail(q) /\ \A w \in Users \ {u} : replay'[w] = replay[w]
    BY <1>1, <2>3, <2>4 DEF TypeOK
  <2>8. TypeOK'
    BY <1>1, <2>4, <2>6, <2>7 DEF TypeOK, Sent
  <2>9. ASSUME NEW w \in caughtUp, NEW s \in Sent, senders[s] # w, s \in Arrived(w)
        PROVE  s \in Arrived(w)'
    <3>1. w \in Users /\ s # Notice
      BY <1>1, SentFacts DEF TypeOK
    <3>2. CASE w # u
      BY <2>4, <2>6, <2>7, <2>9, <3>1, <3>2 DEF Arrived, Underway
    <3>3. CASE w = u
      BY <2>1, <2>3, <2>4, <2>6, <2>7, <2>9, <3>1, <3>3 DEF Arrived, Underway
    <3> QED  BY <3>2, <3>3
  <2>10. NoSilentGap'
    BY <1>1, <2>4, <2>9, SameRouting
  <2>11. NoOrphanLog' /\ Connected'
    BY <1>1, <2>4 DEF NoOrphanLog, Connected
  <2>12. Handling' /\ Unlogged'
    <3>1. Sent' = Sent
      BY <2>4 DEF Sent
    <3>2. Handling'
      BY <1>1, <2>4, <2>7, <3>1 DEF Handling, Appending
    <3>3. Unlogged'
      BY <1>1, <2>4, <3>1 DEF Unlogged, Appending
    <3> QED  BY <3>2, <3>3
  <2> QED  BY <2>8, <2>10, <2>11, <2>12 DEF Inv
<1> QED  BY <1>2, <1>3

\* sendToUser: the envelope reaches the path to v, or is known to be lost, if v
\* has read the log; nothing else changes on any path.
LEMMA RoutePath ==
    ASSUME Inv, NEW u \in Users, NEW v \in Users, Route(u, v)
    PROVE  /\ chan' \in [Users -> Seq(Envelopes)] /\ queue' \in [Users -> Seq(Envelopes)]
           /\ \A w \in Users : Len(chan'[w]) <= ChanSize /\ Len(queue'[w]) <= SendBuf
           /\ gaps' \in [Users -> SUBSET Signals]
           /\ faults' = faults \/ (faults' \in 0..MaxFaults /\ faults' # 0)
           /\ \A w \in Users : Arrived(w) \subseteq Arrived(w)'
           /\ (v \in caughtUp /\ cur[u] # Notice) => cur[u] \in Arrived(v)'
<1>1. TypeOK /\ (v \in caughtUp => link[v] # "off")
  BY DEF Inv, Connected
<1>2. PICK e \in Envelopes : e = cur[u]
  BY <1>1 DEF TypeOK
<1>3. replay' = replay /\ seen' = seen
  BY DEF Route
<1>4. CASE Publish(v, e) /\ UNCHANGED <<queue, faults>>
  <2>1. /\ chan' \in [Users -> Seq(Envelopes)]
        /\ \A w \in Users : Len(chan'[w]) <= ChanSize
        /\ gaps' \in [Users -> SUBSET Signals]
        /\ ToSet(chan[v]) \subseteq ToSet(chan'[v]) /\ gaps[v] \subseteq gaps'[v]
        /\ (e # Notice /\ v \in caughtUp /\ link[v] # "off") =>
               e \in ToSet(chan'[v]) \cup gaps'[v] \cup seen[v]
        /\ \A w \in Users \ {v} : chan'[w] = chan[w] /\ gaps'[w] = gaps[w]
    BY <1>1, <1>4, PublishFacts
  <2>2. \A w \in Users : ToSet(chan[w]) \subseteq ToSet(chan'[w]) /\ gaps[w] \subseteq gaps'[w]
    BY <2>1
  <2>3. \A w \in Users : Arrived(w) \subseteq Arrived(w)'
    BY <1>3, <1>4, <2>2 DEF Arrived, Underway
  <2>4. (v \in caughtUp /\ e # Notice) => e \in Arrived(v)'
    BY <1>1, <1>3, <2>1 DEF Arrived, Underway
  <2> QED  BY <1>1, <1>2, <1>4, <2>1, <2>3, <2>4 DEF TypeOK
<1>5. CASE Fault /\ SendTo(v, e) /\ UNCHANGED chan
  <2>1. /\ queue' \in [Users -> Seq(Envelopes)]
        /\ \A w \in Users : Len(queue'[w]) <= SendBuf
        /\ gaps' \in [Users -> SUBSET Signals]
        /\ ToSet(queue[v]) \subseteq ToSet(queue'[v]) /\ gaps[v] \subseteq gaps'[v]
        /\ e # Notice => e \in ToSet(queue'[v]) \cup gaps'[v] \cup seen[v]
        /\ \A w \in Users \ {v} : queue'[w] = queue[w] /\ gaps'[w] = gaps[w]
    BY <1>1, <1>5, SendToFacts
  <2>2. \A w \in Users : ToSet(queue[w]) \subseteq ToSet(queue'[w]) /\ gaps[w] \subseteq gaps'[w]
    BY <2>1
  <2>3. \A w \in Users : Arrived(w) \subseteq Arrived(w)'
    BY <1>3, <1>5, <2>2 DEF Arrived, Underway
  <2>4. e # Notice => e \in Arrived(v)'
    BY <1>3, <2>1 DEF Arrived, Underway
  <2>5. faults' \in 0..MaxFaults /\ faults' # 0
    BY <1>1, <1>5, FaultFacts
  <2> QED  BY <1>1, <1>2, <1>5, <2>1, <2>3, <2>4, <2>5 DEF TypeOK
<1>6. CASE Fault /\ Lost(v, e) /\ UNCHANGED <<queue, chan>>
  <2>1. /\ gaps' \in [Users -> SUBSET Signals]
        /\ gaps[v] \subseteq gaps'[v]
        /\ e # Notice => e \in gaps'[v] \cup seen[v]
        /\ \A w \in Users \ {v} : gaps'[w] = gaps[w]
    BY <1>1, <1>6, LostFacts
  <2>2. \A w \in Users : gaps[w] \subseteq gaps'[w]
    BY <2>1
  <2>3. \A w \in Users : Arrived(w) \subseteq Arrived(w)'
    BY <1>3, <1>6, <2>2 DEF Arrived, Underway
  <2>4. e # Notice => e \in Arrived(v)'
    BY <1>3, <2>1 DEF Arrived, Underway
  <2>5. faults' \in 0..MaxFaults /\ faults' # 0
    BY <1>1, <1>6, FaultFacts
  <2> QED  BY <1>1, <1>2, <1>6, <2>1, <2>3, <2>4, <2>5 DEF TypeOK
<1> QED  BY <1>2, <1>4, <1>5, <1>6 DEF Route

LEMMA RouteStep ==
    ASSUME Inv, NEW u \in Users, NEW v \in Users, Route(u, v)
    PROVE  Inv'
<1>1. TypeOK /\ NoSilentGap /\ Connected /\ Handling /\ Unlogged /\ NoOrphanLog
  BY DEF Inv
<1>2. /\ pc[u] = "route" /\ v \in to[u]
      /\ to' = [to EXCEPT ![u] = to[u] \ {v}]
      /\ Routed(u, to[u] \ {v})
      /\ UNCHANGED <<link, caughtUp, replay, seen, log, ttl, senders, past>>
  BY DEF Route, linkVars, logVars
<1>3. /\ chan' \in [Users -> Seq(Envelopes)] /\ queue' \in [Users -> Seq(Envelopes)]
      /\ \A w \in Users : Len(chan'[w]) <= ChanSize /\ Len(queue'[w]) <= SendBuf
      /\ gaps' \in [Users -> SUBSET Signals]
      /\ faults' = faults \/ (faults' \in 0..MaxFaults /\ faults' # 0)
      /\ \A w \in Users : Arrived(w) \subseteq Arrived(w)'
      /\ (v \in caughtUp /\ cur[u] # Notice) => cur[u] \in Arrived(v)'
  BY RoutePath
<1>4. /\ to' \in [Users -> SUBSET Users]
      /\ to'[u] = to[u] \ {v} /\ \A w \in Users \ {u} : to'[w] = to[w]
  BY <1>1, <1>2 DEF TypeOK
<1>5. /\ to[u] \ {v} # {} => pc' = pc /\ cur' = cur
      /\ to[u] \ {v} = {} =>
            \/ (pc' = [pc EXCEPT ![u] = "read"] /\ cur' = cur)
            \/ (pc' = [pc EXCEPT ![u] = "idle"] /\ cur' = [cur EXCEPT ![u] = Notice])
  <2>1. CASE to[u] \ {v} # {}
    BY <1>2, <2>1 DEF Routed
  <2>2. CASE to[u] \ {v} = {} /\ cur[u] = Notice
    BY <1>2, <2>2 DEF Routed, Goto
  <2>3. CASE to[u] \ {v} = {} /\ cur[u] # Notice
    BY <1>2, <2>3, AfterValues DEF Routed, Goto
  <2> QED  BY <2>1, <2>2, <2>3
<1>6. /\ pc' \in [Users -> {"idle", "push", "trim", "expire", "route", "read", "replay"}]
      /\ cur' \in [Users -> Envelopes]
      /\ pc'[u] \in {"route", "read", "idle"}
      /\ to'[u] # {} => pc'[u] = "route" /\ cur'[u] = cur[u]
      /\ pc'[u] # "route" => to'[u] = {}
      /\ \A w \in Users \ {u} : pc'[w] = pc[w] /\ cur'[w] = cur[w]
  <2>1. CASE to[u] \ {v} # {}
    BY <1>1, <1>2, <1>4, <1>5, <2>1 DEF TypeOK
  <2>2. CASE to[u] \ {v} = {} /\ pc' = [pc EXCEPT ![u] = "read"] /\ cur' = cur
    BY <1>1, <1>4, <2>2 DEF TypeOK
  <2>3. CASE to[u] \ {v} = {} /\ pc' = [pc EXCEPT ![u] = "idle"] /\ cur' = [cur EXCEPT ![u] = Notice]
    BY <1>1, <1>4, <2>3, SentFacts DEF TypeOK
  <2> QED  BY <1>5, <2>1, <2>2, <2>3
<1>7. TypeOK'
  <2>1. faults' \in 0..MaxFaults
    BY <1>1, <1>3 DEF TypeOK
  <2> QED  BY <1>1, <1>2, <1>3, <1>4, <1>6, <2>1 DEF TypeOK, Sent
<1>8. Sent' = Sent
  BY <1>2 DEF Sent
<1>9. NoSilentGap'
  <2> SUFFICES ASSUME NEW w \in caughtUp, NEW s \in RoutedTo(w)', senders[s] # w
               PROVE  s \in Arrived(w)'
    BY <1>2 DEF NoSilentGap, Arrived
  <2>1. w \in Users /\ s \in Sent /\ ~\E x \in Users : cur'[x] = s /\ w \in to'[x]
    BY <1>1, <1>8 DEF RoutedTo, TypeOK
  <2>2. CASE s \in RoutedTo(w)
    <3>1. s \in Arrived(w)
      BY <1>1, <2>2 DEF NoSilentGap, Arrived
    <3> QED  BY <1>3, <2>1, <3>1
  <2>3. CASE s \notin RoutedTo(w)
    <3>1. PICK x \in Users : cur[x] = s /\ w \in to[x]
      BY <2>1, <2>3 DEF RoutedTo
    <3>2. x = u
      BY <1>4, <1>6, <2>1, <3>1
    <3>3. w = v
      BY <1>4, <1>6, <2>1, <3>1, <3>2
    <3>4. cur[u] # Notice
      BY <1>1, <2>1, <3>1, <3>2, SentFacts
    <3> QED  BY <1>3, <3>1, <3>2, <3>3, <3>4
  <2> QED  BY <2>2, <2>3
<1>10. NoOrphanLog'
  <2> SUFFICES ASSUME log # <<>>, faults = 0, ~ttl
               PROVE  \E w \in Users : pc'[w] \in {"trim", "expire"}
    BY <1>2, <1>3 DEF NoOrphanLog
  <2>1. PICK w \in Users : pc[w] \in {"trim", "expire"}
    BY <1>1 DEF NoOrphanLog
  <2> QED  BY <1>2, <1>6, <2>1
<1>11. Connected'
  BY <1>1, <1>2, <1>6 DEF Connected
<1>12. Handling'
  <2> SUFFICES ASSUME NEW w \in Users
               PROVE  /\ pc'[w] \in {"idle", "read", "replay"} => to'[w] = {}
                      /\ pc'[w] # "replay" => replay[w] = <<>>
                      /\ Appending(w)' => cur'[w] \in Sent /\ senders[cur'[w]] = w /\ to'[w] = Users \ {w}
    BY <1>2, <1>8 DEF Handling
  <2>1. CASE w = u
    BY <1>1, <1>2, <1>6, <2>1 DEF Handling, Appending
  <2>2. CASE w # u
    BY <1>1, <1>4, <1>6, <2>2 DEF Handling, Appending
  <2> QED  BY <2>1, <2>2
<1>13. Unlogged'
  <2> SUFFICES ASSUME NEW s \in Sent \ past
               PROVE  \E w \in Users : pc'[w] \in {"push", "trim", "expire"} /\ cur'[w] = s
    BY <1>2, <1>8 DEF Unlogged, Appending
  <2>1. PICK w \in Users : pc[w] \in {"push", "trim", "expire"} /\ cur[w] = s
    BY <1>1 DEF Unlogged, Appending
  <2> QED  BY <1>2, <1>6, <2>1
<1> QED  BY <1>7, <1>9, <1>10, <1>11, <1>12, <1>13 DEF Inv

LEMMA StutterStep ==
    ASSUME Inv, UNCHANGED vars
    PROVE  Inv'
<1> USE DEF vars
<1>1. TypeOK'
  BY DEF Inv, TypeOK, Sent
<1>2. NoSilentGap'
  BY QuietPath DEF Inv
<1>3. NoOrphanLog' /\ Connected' /\ Handling' /\ Unlogged'
  BY QuietHandlers
<1> QED  BY <1>1, <1>2, <1>3 DEF Inv

LEMMA InvNext == Inv /\ [Next]_vars => Inv'
<1> SUFFICES ASSUME Inv, [Next]_vars PROVE Inv'
  OBVIOUS
<1>1. ASSUME NEW u \in Users, Connect(u) \/ Subscribed(u) \/ Disconnect(u) PROVE Inv'
  BY <1>1, LinkStep, DisconnectStep
<1>2. ASSUME NEW u \in Users, RelaySignaling(u) \/ Refused(u) \/ Resume(u) PROVE Inv'
  BY <1>2, RelaySignalingStep, RefusedStep, ResumeStep
<1>3. ASSUME NEW u \in Users, HandlerStep(u) PROVE Inv'
  BY <1>3, LogStepStep, RouteStep, GetRecentStep, ReplayStep DEF HandlerStep
<1>4. ASSUME NEW u \in Users, AppendFails(u) \/ GetRecentFails(u) PROVE Inv'
  BY <1>4, AppendFailsStep, GetRecentFailsStep
<1>5. ASSUME NEW u \in Users, Dispatch(u) \/ Write(u) PROVE Inv'
  BY <1>5, DispatchStep, WriteStep
<1>6. CASE LogExpires
  BY <1>6, LogExpiresStep
<1>7. CASE UNCHANGED vars
  BY <1>7, StutterStep
<1> QED  BY <1>1, <1>2, <1>3, <1>4, <1>5, <1>6, <1>7 DEF Next

-----------------------------------------------------------------------------
(* Theorems *)

\* The inductive invariant holds in every state of the relay.
THEOREM Invariance == Spec => []Inv
BY InvInit, InvNext, PTL DEF Spec

\* Every variable keeps its type: no channel holds more than its buffer.
THEOREM TypeCorrect == Spec => []TypeOK
<1>1. Inv => TypeOK
  BY DEF Inv
<1> QED  BY Invariance, <1>1, PTL

\* handleResume misses no signal silently: relaySignaling logs a signal before it
\* routes it, so that every signal reaches a participant who has resumed over its
\* subscription or by the replay, or is one of those known to be lost.
THEOREM CatchUp == Spec => []NoSilentGap
<1>1. Inv => NoSilentGap
  BY DEF Inv
<1> QED  BY Invariance, <1>1, PTL

\* Append leaves no log without a time to live, however the pipelines of several
\* signals and the end of the list interleave.
THEOREM LogEnds == Spec => []NoOrphanLog
<1>1. Inv => NoOrphanLog
  BY DEF Inv
<1> QED  BY Invariance, <1>1, PTL

=============================================================================
