------------------------- MODULE CallRuntimeProofs -------------------------
(* Proofs about CallRuntime for every set of users and calls. *)
EXTENDS CallRuntime, TLAPS

USE NoUserAssumption, RoomAssumption, FaultsAssumption

-----------------------------------------------------------------------------
(* Lemmas about the helpers *)

\* A store Update with a state and participants of the right type keeps the
\* stored calls and the index well typed.
LEMMA StoreType ==
    ASSUME TypeOK, NEW c \in Calls, NEW s \in States, NEW ps \in [Users -> PStates],
           Store(c, s, ps)
    PROVE  /\ state' \in [Calls -> States]
           /\ part' \in [Calls -> [Users -> PStates]]
           /\ byUser' \in [Users -> SUBSET Calls]
BY DEF TypeOK, Store, Indexed

\* What a store Update leaves in the variables it writes.
LEMMA StoreEffect ==
    ASSUME TypeOK, NEW c \in Calls, NEW s, NEW ps, Store(c, s, ps)
    PROVE  /\ state'[c] = s
           /\ part'[c] = ps
           /\ \A d \in Calls \ {c} : state'[d] = state[d] /\ part'[d] = part[d]
           /\ \A u \in Users, d \in Calls :
                 d \in byUser'[u] <=> d \in byUser[u] \/ (d = c /\ ps[u] # "absent")
BY DEF TypeOK, Store, Indexed

\* Publishing keeps the event counters well typed.
LEMMA EmitType ==
    ASSUME TypeOK, NEW c \in Calls, NEW e \in Events, Emit(e, c)
    PROVE  out' \in [Events -> [Calls -> Nat]]
BY DEF TypeOK, Emit

\* Silencing the callees keeps the participants well typed.
LEMMA SilencedType ==
    ASSUME NEW ps \in [Users -> PStates]
    PROVE  Silenced(ps) \in [Users -> PStates]
BY DEF Silenced, PStates

-----------------------------------------------------------------------------
(* Type correctness *)

\* Every step of the runtime keeps every variable in its type.
LEMMA TypeStep == TypeOK /\ [Next]_vars => TypeOK'
<1> SUFFICES ASSUME TypeOK, [Next]_vars PROVE TypeOK'
    OBVIOUS
<1> USE DEF callVars
<1>1. ASSUME NEW c \in Calls, CallNext(c) PROVE TypeOK'
    <2>1. ASSUME NEW u \in Users, NEW callees \in SUBSET Users, NEW m \in {"direct", "group"},
                 Create(c, u, callees, m)
          PROVE  TypeOK'
        <3>1. InitialParticipants(u, callees) \in [Users -> PStates]
            BY DEF InitialParticipants, PStates, Ringing, Active
        <3>2. "ringing" \in States
            BY DEF States, Live
        <3> QED BY <2>1, <3>1, <3>2, StoreType DEF TypeOK, Create
    <2>2. CASE RoomReady(c) BY <2>2 DEF TypeOK, RoomReady
    <2>3. CASE Fail(c)
        <3>1. (IF IsTerminal(c) THEN state[c] ELSE "failed") \in States
            BY DEF TypeOK, States, Terminal
        <3>2. part[c] \in [Users -> PStates]
            BY DEF TypeOK
        <3>3. "failed" \in Events
            BY DEF Events
        <3> QED BY <2>3, <3>1, <3>2, <3>3, StoreType, EmitType DEF TypeOK, Fail
    <2>4. CASE FailAfterDisconnect(c) BY <2>4 DEF TypeOK, FailAfterDisconnect, RoomReady
    <2>5. CASE RingTimeout(c)
        <3>1. CASE TimerSkips(c) BY <2>5, <3>1 DEF TypeOK, RingTimeout
        <3>2. CASE ~TimerSkips(c)
            <4>1. "timeout" \in States BY DEF States, Terminal
            <4>2. Silenced(part[c]) \in [Users -> PStates] BY SilencedType DEF TypeOK
            <4> QED BY <2>5, <3>2, <4>1, <4>2, StoreType DEF TypeOK, RingTimeout
        <3> QED BY <3>1, <3>2
    <2>6. CASE RingTimeoutNotify(c)
        <3>1. "ended" \in Events BY DEF Events
        <3> QED BY <2>6, <3>1, EmitType DEF TypeOK, RingTimeoutNotify
    <2>7. CASE RingTimeoutStoreError(c) BY <2>7 DEF TypeOK, RingTimeoutStoreError, Fault
    <2>8. ASSUME NEW e \in Events, OnEvent(e, c) PROVE TypeOK'
        BY <2>8 DEF TypeOK, OnEvent
    <2>9. CASE ReplyLost(c)
        <3>1. faults' \in 0..MaxFaults BY <2>9 DEF TypeOK, ReplyLost, Fault
        <3>2. out' \in [Events -> [Calls -> Nat]] /\ timer' \in [Calls -> {"off", "armed", "fired"}]
            <4>1. ASSUME NEW e \in Events, out[e][c] > 0, UNCHANGED timer,
                         out' = [out EXCEPT ![e][c] = @ - 1]
                  PROVE  <3>2!1 /\ <3>2!2
                <5>1. out[e] \in [Calls -> Nat] /\ out[e][c] - 1 \in Nat
                    BY <4>1 DEF TypeOK
                <5> QED BY <4>1, <5>1 DEF TypeOK
            <4> QED BY <2>9, <4>1 DEF TypeOK, ReplyLost
        <3> QED BY <2>9, <3>1, <3>2 DEF TypeOK, ReplyLost
    <2> QED BY <1>1, <2>1, <2>2, <2>3, <2>4, <2>5, <2>6, <2>7, <2>8, <2>9 DEF CallNext
<1>2. ASSUME NEW c \in Calls, NEW u \in Users, UserNext(c, u) PROVE TypeOK'
    <2> DEFINE Mine(p) == [part[c] EXCEPT ![u] = p]
    <2>0. \A p \in PStates : Mine(p) \in [Users -> PStates]
        BY DEF TypeOK
    <2>a. {"accepted", "rejected", "connecting", "connected", "left"} \subseteq PStates
        BY DEF PStates, Active
    <2>b. {"accepted", "rejected", "cancelled", "connecting", "connected", "ended"} \subseteq States
        BY DEF States, Live, Terminal
    <2>c. "ended" \in Events
        BY DEF Events
    <2>d. state[c] \in States /\ out \in [Events -> [Calls -> Nat]]
        BY DEF TypeOK
    <2>e. \A b \in BOOLEAN : EmitEnded(c, b) => out' \in [Events -> [Calls -> Nat]]
        BY <2>c, <2>d, EmitType DEF EmitEnded
    <2>1. CASE Accept(c, u)
        <3>1. Accepted(c, u) \in [Users -> PStates]
            BY DEF Accepted, TypeOK, PStates, Active
        <3> QED BY <2>1, <2>b, <3>1, StoreType DEF TypeOK, Accept
    <2>2. CASE Reject(c, u)
        <3>1. Mine("rejected") \in [Users -> PStates] BY <2>0, <2>a
        <3>2. (IF mode[c] = "direct" THEN "rejected" ELSE state[c]) \in States BY <2>b, <2>d
        <3> QED BY <2>2, <2>e, <3>1, <3>2, StoreType DEF TypeOK, Reject
    <2>3. CASE Cancel(c, u)
        <3>1. Silenced(part[c]) \in [Users -> PStates] BY SilencedType DEF TypeOK
        <3> QED BY <2>3, <2>b, <2>e, <3>1, StoreType DEF TypeOK, Cancel
    <2>4. CASE Join(c, u)
        <3>1. Mine("connecting") \in [Users -> PStates] BY <2>0, <2>a
        <3>2. (IF state[c] \in {"accepted", "ringing"} THEN "connecting" ELSE state[c]) \in States
            BY <2>b, <2>d
        <3> QED BY <2>4, <3>1, <3>2, StoreType DEF TypeOK, Join
    <2>5. CASE MarkConnected(c, u)
        <3>1. Mine("connected") \in [Users -> PStates] BY <2>0, <2>a
        <3>2. (IF c \in started THEN state[c] ELSE "connected") \in States
            BY <2>b, <2>d
        <3> QED BY <2>5, <3>1, <3>2, StoreType DEF TypeOK, MarkConnected
    <2>6. ASSUME NEW endCall \in BOOLEAN, EndForUser(c, u, endCall) PROVE TypeOK'
        <3> DEFINE ends == Ends(c, Mine("left"), endCall)
        <3>1. Mine("left") \in [Users -> PStates] BY <2>0, <2>a
        <3>2. (IF ends THEN "ended" ELSE state[c]) \in States BY <2>b, <2>d
        <3>3. ends \in BOOLEAN BY DEF Ends
        <3>4. out' \in [Events -> [Calls -> Nat]] BY <2>6, <2>e, <3>3 DEF EndForUser
        <3>5. Store(c, IF ends THEN "ended" ELSE state[c], Mine("left")) BY <2>6 DEF EndForUser
        <3> QED BY <2>6, <3>1, <3>2, <3>4, <3>5, StoreType DEF TypeOK, EndForUser
    <2>7. CASE ResumeCheck(c, u) BY <2>7 DEF TypeOK, ResumeCheck
    <2>8. CASE ResumeUpdate(c, u)
        <3>1. Resumed(part[c], u) \in [Users -> PStates]
            BY DEF TypeOK, Resumed, PStates, Active
        <3> QED BY <2>8, <2>d, <3>1, StoreType DEF TypeOK, ResumeUpdate
    <2> QED BY <1>2, <2>1, <2>2, <2>3, <2>4, <2>5, <2>6, <2>7, <2>8
            DEF UserNext, Leave, Hangup
<1>3. CASE Crash BY <1>3 DEF TypeOK, Crash, Fault
<1>4. CASE UNCHANGED vars BY <1>4 DEF TypeOK, vars
<1> QED BY <1>1, <1>2, <1>3, <1>4 DEF Next

\* The variables of the runtime always have their types.
THEOREM TypeCorrect == Spec => []TypeOK
<1>1. Init => TypeOK
    BY DEF Init, TypeOK, States, PStates, Events
<1> QED BY <1>1, TypeStep, PTL DEF Spec

-----------------------------------------------------------------------------
(* The inductive invariant *)

\* A store Update keeps the conjuncts of Inv that speak of the stored calls,
\* provided what it writes respects them: nobody is removed, a stopped call
\* rings nobody, a live direct call has lost nobody, and a started call is
\* connected or over.
LEMMA StoreKeeps ==
    ASSUME Inv, NEW c \in Calls, NEW s \in States, NEW ps \in [Users -> PStates],
           Store(c, s, ps), Found(c), s # "none", mode' = mode,
           creating' \subseteq creating, resumes' \subseteq resumes,
           started' \subseteq started \cup {c},
           \A u \in Users : FindParticipant(c, u) => ps[u] # "absent",
           s \in {"timeout", "cancelled"} => \A u \in Users : ps[u] \notin Ringing,
           mode[c] = "direct" /\ s \in Live =>
               \A u \in Users : ps[u] \notin {"left", "rejected"},
           c \in started' => s \in Terminal \cup {"connected"}
    PROVE  Fresh' /\ IndexExact' /\ NoRingAfterStop' /\ DirectNobodyGone'
           /\ StartedStaysConnected'
<1> USE StoreEffect DEF Inv
<1>1. Fresh' BY DEF Fresh
<1>2. IndexExact' BY DEF IndexExact, FindParticipant
<1>3. NoRingAfterStop' BY DEF NoRingAfterStop
<1>4. DirectNobodyGone' BY DEF DirectNobodyGone
<1>5. StartedStaysConnected'
    <2> SUFFICES ASSUME NEW d \in started' PROVE state'[d] \in Terminal \cup {"connected"}
        BY DEF StartedStaysConnected
    <2> QED BY SMTT(30) DEF StartedStaysConnected, TypeOK
<1> QED BY <1>1, <1>2, <1>3, <1>4, <1>5

\* Steps that touch no stored call keep the same conjuncts.
LEMMA NoStoreKeeps ==
    ASSUME Inv, UNCHANGED callVars, UNCHANGED byUser, creating' \subseteq creating,
           \A c \in Calls, u \in Users :
               <<c, u>> \in resumes' => <<c, u>> \in resumes \/ Found(c)
    PROVE  Fresh' /\ IndexExact' /\ NoRingAfterStop' /\ DirectNobodyGone'
           /\ StartedStaysConnected'
<1> USE DEF Inv, callVars
<1>1. Fresh' BY DEF Fresh, Found
<1>2. IndexExact' BY DEF IndexExact, FindParticipant
<1>3. NoRingAfterStop' BY DEF NoRingAfterStop
<1>4. DirectNobodyGone' BY DEF DirectNobodyGone
<1>5. StartedStaysConnected' BY DEF StartedStaysConnected
<1> QED BY <1>1, <1>2, <1>3, <1>4, <1>5

\* The event accounts of a step that publishes nothing and ends nothing.
LEMMA AccountsKept ==
    ASSUME Inv, UNCHANGED <<out, seen>>, faults' = faults,
           \A c \in Calls : /\ timer'[c] = "fired" <=> timer[c] = "fired"
                            /\ state'[c] \in Terminal \ {"failed"} <=>
                                  state[c] \in Terminal \ {"failed"}
    PROVE  EndedOnce'
BY DEF Inv, EndedOnce, EndedEvents, TypeOK

\* The event accounts of a step that ends call c and publishes CallEnded.
LEMMA AccountsEnded ==
    ASSUME Inv, NEW c \in Calls, state[c] \notin Terminal, state'[c] \in Terminal \ {"failed"},
           \A d \in Calls \ {c} : state'[d] = state[d],
           Emit("ended", c), UNCHANGED <<seen, timer, faults>>
    PROVE  EndedOnce'
<1>1. \A d \in Calls : /\ EndedEvents(d) \in Nat
                       /\ EndedEvents(d)' = IF d = c THEN EndedEvents(d) + 1 ELSE EndedEvents(d)
    BY DEF Inv, TypeOK, EndedEvents, Emit, Events
<1> QED BY <1>1 DEF Inv, EndedOnce

\* Every step of the runtime preserves the inductive invariant.
LEMMA InvStep == Inv /\ [Next]_vars => Inv'
<1> SUFFICES ASSUME Inv, [Next]_vars PROVE Inv'
    OBVIOUS
<1> DEFINE Stored == /\ Fresh' /\ IndexExact' /\ NoRingAfterStop'
                     /\ DirectNobodyGone' /\ StartedStaysConnected'
<1>0. TypeOK /\ TypeOK'
    BY TypeStep DEF Inv
<1>a. SUFFICES Stored /\ RingingHasTimer' /\ EndedOnce'
    BY <1>0 DEF Inv
<1>1. ASSUME NEW c \in Calls, CallNext(c) PROVE Stored /\ RingingHasTimer' /\ EndedOnce'
    <2>1. ASSUME NEW u \in Users, NEW callees \in SUBSET Users, NEW m \in {"direct", "group"},
                 Create(c, u, callees, m)
          PROVE  Stored /\ RingingHasTimer' /\ EndedOnce'
        <3> DEFINE ps == InitialParticipants(u, callees)
        <3>1. /\ state[c] = "none" /\ state'[c] = "ringing" /\ part'[c] = ps
              /\ mode' = [mode EXCEPT ![c] = m]
              /\ \A d \in Calls \ {c} : state'[d] = state[d] /\ part'[d] = part[d]
              /\ \A v \in Users, d \in Calls :
                    d \in byUser'[v] <=> d \in byUser[v] \/ (d = c /\ ps[v] # "absent")
            BY <2>1, <1>0, StoreEffect DEF Create, Found
        <3>2. Fresh' BY <1>0, <2>1, <3>1 DEF Inv, TypeOK, Fresh, Create
        <3>3. IndexExact'
            <4> SUFFICES ASSUME NEW d \in Calls, NEW v \in Users
                         PROVE  (d \in byUser'[v]) <=> part'[d][v] # "absent"
                BY DEF IndexExact, FindParticipant
            <4>1. (d \in byUser[v]) <=> part[d][v] # "absent"
                BY DEF Inv, IndexExact, FindParticipant
            <4>0. part[c][v] = "absent" BY <3>1 DEF Inv, Fresh
            <4>2. CASE d = c BY <3>1, <4>0, <4>1, <4>2
            <4>3. CASE d # c BY <3>1, <4>1, <4>3
            <4> QED BY <4>2, <4>3
        <3>4. NoRingAfterStop' BY <3>1 DEF Inv, NoRingAfterStop
        <3>5. DirectNobodyGone'
            <4> SUFFICES ASSUME NEW d \in Calls, mode'[d] = "direct", state'[d] \in Live, NEW v \in Users
                         PROVE  part'[d][v] \notin {"left", "rejected"}
                BY DEF DirectNobodyGone
            <4>1. CASE d = c BY <3>1, <4>1 DEF InitialParticipants
            <4>2. CASE d # c BY <1>0, <3>1, <4>2 DEF Inv, TypeOK, DirectNobodyGone
            <4> QED BY <4>1, <4>2
        <3>6. StartedStaysConnected'
            <4>1. c \notin started BY <3>1 DEF Inv, StartedStaysConnected, Terminal
            <4> SUFFICES ASSUME NEW d \in started' PROVE state'[d] \in Terminal \cup {"connected"}
                BY DEF StartedStaysConnected
            <4>2. d \in started /\ d # c /\ d \in Calls BY <1>0, <2>1, <4>1 DEF Create, TypeOK
            <4> QED BY <3>1, <4>2 DEF Inv, StartedStaysConnected
        <3>7. RingingHasTimer' BY <1>0, <2>1, <3>1 DEF Inv, TypeOK, RingingHasTimer, Create
        <3>8. EndedOnce'
            <4>0. EndedEvents(c) # 1 BY <3>1 DEF Inv, EndedOnce, Terminal
            <4>a. EndedEvents(c) \in Nat /\ EndedEvents(c) <= 1 /\ (timer[c] = "fired" => EndedEvents(c) >= 1)
                BY <1>0 DEF Inv, EndedOnce, EndedEvents, TypeOK, Events
            <4>1. timer[c] # "fired" BY <4>0, <4>a
            <4>2. \A d \in Calls : timer'[d] = "fired" <=> timer[d] = "fired"
                BY <1>0, <2>1, <4>1 DEF TypeOK, Create
            <4> QED BY <2>1, <3>1, <4>2, AccountsKept DEF Create, Terminal
        <3> QED BY <3>2, <3>3, <3>4, <3>5, <3>6, <3>7, <3>8
    <2>2. CASE RoomReady(c)
        <3>1. Stored BY <2>2, NoStoreKeeps DEF RoomReady
        <3>2. EndedOnce' BY <2>2, AccountsKept DEF RoomReady, callVars
        <3>3. RingingHasTimer' BY <2>2 DEF Inv, RingingHasTimer, RoomReady, callVars
        <3> QED BY <3>1, <3>2, <3>3
    <2>3. CASE Fail(c)
        <3> DEFINE s == IF IsTerminal(c) THEN state[c] ELSE "failed"
        <3>1. Found(c) BY <2>3 DEF Inv, Fresh, Found, Fail
        <3>2. /\ Store(c, s, part[c]) /\ s \in States /\ s \in Terminal
              /\ part[c] \in [Users -> PStates] /\ s # "none"
            BY <1>0, <2>3, <3>1 DEF Fail, IsTerminal, States, Terminal, TypeOK, Found
        <3>3. s \in {"timeout", "cancelled"} => \A u \in Users : part[c][u] \notin Ringing
            BY DEF Inv, NoRingAfterStop, IsTerminal
        <3>4. s \notin Live BY <3>2 DEF Terminal, Live
        <3>5. Stored BY <2>3, <3>1, <3>2, <3>3, <3>4, StoreKeeps DEF Fail, FindParticipant
        <3>6. RingingHasTimer'
            BY <2>3, <1>0, <3>2, StoreEffect DEF Inv, RingingHasTimer, Fail, Terminal
        <3>7. \A d \in Calls : (state'[d] \in Terminal \ {"failed"}) <=>
                               (state[d] \in Terminal \ {"failed"})
            BY <1>0, <3>2, StoreEffect DEF IsTerminal
        <3>8. \A d \in Calls : EndedEvents(d)' = EndedEvents(d)
            BY <2>3, <1>0 DEF Fail, Emit, EndedEvents, TypeOK, Events
        <3>9. EndedOnce' BY <2>3, <3>7, <3>8 DEF Inv, EndedOnce, Fail
        <3> QED BY <3>5, <3>6, <3>9
    <2>4. CASE FailAfterDisconnect(c)
        <3>1. Stored BY <2>4, NoStoreKeeps DEF RoomReady, FailAfterDisconnect
        <3>2. EndedOnce' BY <2>4, AccountsKept DEF RoomReady, FailAfterDisconnect, callVars
        <3>3. RingingHasTimer'
            BY <2>4 DEF Inv, RingingHasTimer, RoomReady, FailAfterDisconnect, callVars
        <3> QED BY <3>1, <3>2, <3>3
    <2>5. CASE RingTimeout(c) /\ TimerSkips(c)
        <3>1. Stored BY <2>5, NoStoreKeeps DEF RingTimeout, callVars
        <3>2. \A d \in Calls : timer'[d] = "fired" <=> timer[d] = "fired"
            BY <1>0, <2>5 DEF RingTimeout, TypeOK
        <3>3. EndedOnce' BY <2>5, <3>2, AccountsKept DEF RingTimeout
        <3>4. RingingHasTimer'
            BY <1>0, <2>5 DEF Inv, RingingHasTimer, RingTimeout, TimerSkips, TypeOK
        <3> QED BY <3>1, <3>3, <3>4
    <2>6. CASE RingTimeout(c) /\ ~TimerSkips(c)
        <3>1. /\ state[c] = "ringing" /\ Found(c)
              /\ Store(c, "timeout", Silenced(part[c]))
              /\ timer' = [timer EXCEPT ![c] = "fired"]
              /\ Silenced(part[c]) \in [Users -> PStates]
              /\ "timeout" \in States \cap Terminal
            BY <1>0, <2>6, SilencedType DEF RingTimeout, TimerSkips, Found, TypeOK, States, Terminal
        <3>2. \A u \in Users : /\ Silenced(part[c])[u] \notin Ringing
                               /\ FindParticipant(c, u) => Silenced(part[c])[u] # "absent"
            BY DEF Silenced, Ringing, FindParticipant
        <3>3. Stored
            BY <2>6, <3>1, <3>2, StoreKeeps DEF RingTimeout, Live
        <3>4. RingingHasTimer'
            BY <1>0, <2>6, <3>1, StoreEffect DEF Inv, RingingHasTimer, RingTimeout, TypeOK
        <3>5. timer[c] = "armed" BY <2>6 DEF RingTimeout
        <3>6. \A d \in Calls : /\ EndedEvents(d) \in Nat
                               /\ EndedEvents(d)' = IF d = c THEN EndedEvents(d) + 1 ELSE EndedEvents(d)
            BY <1>0, <2>6, <3>1, <3>5 DEF EndedEvents, TypeOK, Events, RingTimeout
        <3>7. /\ state[c] \notin Terminal /\ state'[c] = "timeout"
              /\ "timeout" \in Terminal \ {"failed"}
              /\ \A d \in Calls \ {c} : state'[d] = state[d]
            BY <1>0, <3>1, StoreEffect DEF Terminal
        <3>8. EndedOnce' BY <2>6, <3>6, <3>7 DEF Inv, EndedOnce, RingTimeout
        <3> QED BY <3>3, <3>4, <3>8
    <2>7. CASE RingTimeoutNotify(c)
        <3>1. Stored BY <2>7, NoStoreKeeps DEF RingTimeoutNotify
        <3>2. \A d \in Calls : EndedEvents(d)' = EndedEvents(d)
            BY <1>0, <2>7 DEF EndedEvents, TypeOK, RingTimeoutNotify, Emit, Events
        <3>3. EndedOnce' BY <2>7, <3>2 DEF Inv, EndedOnce, RingTimeoutNotify, callVars
        <3>4. state[c] # "ringing" \/ faults # 0
            BY <2>7 DEF Inv, RingingHasTimer, RingTimeoutNotify
        <3>5. RingingHasTimer'
            BY <1>0, <2>7, <3>4 DEF Inv, TypeOK, RingingHasTimer, RingTimeoutNotify, callVars
        <3> QED BY <3>1, <3>3, <3>5
    <2>8. CASE RingTimeoutStoreError(c)
        <3>1. Stored BY <2>8, NoStoreKeeps DEF RingTimeoutStoreError
        <3>2. faults' # 0 BY <1>0, <2>8 DEF RingTimeoutStoreError, Fault, TypeOK
        <3>3. \A d \in Calls : EndedEvents(d)' = EndedEvents(d)
            BY <1>0, <2>8 DEF EndedEvents, TypeOK, RingTimeoutStoreError
        <3>4. EndedOnce' BY <2>8, <3>2, <3>3 DEF Inv, EndedOnce, RingTimeoutStoreError, callVars
        <3> QED BY <3>1, <3>2, <3>4 DEF RingingHasTimer
    <2>9. ASSUME NEW e \in Events, OnEvent(e, c)
          PROVE  Stored /\ RingingHasTimer' /\ EndedOnce'
        <3>1. Stored BY <2>9, NoStoreKeeps DEF OnEvent
        <3>2. RingingHasTimer' BY <2>9 DEF Inv, RingingHasTimer, OnEvent, callVars
        <3>3. \A d \in Calls : EndedEvents(d)' = EndedEvents(d)
            BY <1>0, <2>9 DEF EndedEvents, TypeOK, OnEvent, Events
        <3>4. EndedOnce' BY <2>9, <3>3 DEF Inv, EndedOnce, OnEvent, callVars
        <3> QED BY <3>1, <3>2, <3>4
    <2>10. CASE ReplyLost(c)
        <3>1. Stored BY <2>10, NoStoreKeeps DEF ReplyLost
        <3>2. faults' # 0 BY <1>0, <2>10 DEF ReplyLost, Fault, TypeOK
        <3>3. \A d \in Calls : EndedEvents(d)' <= EndedEvents(d) /\ EndedEvents(d)' \in Nat
                               /\ EndedEvents(d) \in Nat
            <4>1. ASSUME NEW e \in Events, out[e][c] > 0, UNCHANGED <<timer, seen>>,
                         out' = [out EXCEPT ![e][c] = @ - 1], NEW d \in Calls
                  PROVE  EndedEvents(d)' <= EndedEvents(d) /\ EndedEvents(d)' \in Nat
                         /\ EndedEvents(d) \in Nat
                <5>1. /\ out["ended"][d] \in Nat /\ out'["ended"][d] \in Nat /\ seen["ended"][d] \in Nat
                      /\ out'["ended"][d] <= out["ended"][d]
                    BY <1>0, <4>1 DEF TypeOK, Events
                <5> QED BY <4>1, <5>1 DEF EndedEvents
            <4>2. ASSUME timer[c] = "fired", timer' = [timer EXCEPT ![c] = "off"],
                         UNCHANGED <<out, seen>>, NEW d \in Calls
                  PROVE  EndedEvents(d)' <= EndedEvents(d) /\ EndedEvents(d)' \in Nat
                         /\ EndedEvents(d) \in Nat
                BY <1>0, <4>2 DEF EndedEvents, TypeOK, Events
            <4> QED BY <2>10, <4>1, <4>2 DEF ReplyLost
        <3>4. EndedOnce' BY <2>10, <3>2, <3>3 DEF Inv, EndedOnce, ReplyLost, callVars
        <3> QED BY <3>1, <3>2, <3>4 DEF RingingHasTimer
    <2> QED BY <1>1, <2>1, <2>2, <2>3, <2>4, <2>5, <2>6, <2>7, <2>8, <2>9, <2>10 DEF CallNext
<1>2. ASSUME NEW c \in Calls, NEW u \in Users, UserNext(c, u)
      PROVE  Stored /\ RingingHasTimer' /\ EndedOnce'
    <2> DEFINE Mine(p) == [part[c] EXCEPT ![u] = p]
    <2>0. \A p \in PStates : Mine(p) \in [Users -> PStates]
        BY <1>0 DEF TypeOK
    <2>a. /\ {"accepted", "rejected", "connecting", "connected", "left"} \subseteq PStates
          /\ "absent" \notin {"accepted", "rejected", "connecting", "connected", "left"}
        BY DEF PStates, Active
    <2>b. /\ {"accepted", "connecting", "connected"} \subseteq Live
          /\ {"rejected", "cancelled", "ended"} \subseteq Terminal \ {"failed", "timeout"}
          /\ States = {"none"} \cup Live \cup Terminal
          /\ Live \cap Terminal = {} /\ "none" \notin Live \cup Terminal
          /\ "ringing" \in Live /\ {"timeout", "cancelled"} \subseteq Terminal
          /\ "connected" \notin Terminal
        BY DEF States, Live, Terminal
    <2>c. state[c] \in States /\ part[c] \in [Users -> PStates]
        BY <1>0 DEF TypeOK
    <2>d. ASSUME NEW s \in Live \cup Terminal, NEW ps, Store(c, s, ps), UNCHANGED <<timer, faults>>,
                 s = "ringing" => state[c] = "ringing"
          PROVE  RingingHasTimer'
        BY <1>0, <2>d, StoreEffect DEF Inv, RingingHasTimer
    <2>e. ASSUME NEW s \in Live, NEW ps, Store(c, s, ps), state[c] \in Live,
                 UNCHANGED <<timer, faults, out, seen>>
          PROVE  EndedOnce'
        BY <1>0, <2>b, <2>e, StoreEffect, AccountsKept
    <2>f. ASSUME NEW s \in Terminal \ {"failed"}, NEW ps, Store(c, s, ps), state[c] \in Live,
                 EmitEnded(c, TRUE), UNCHANGED <<timer, faults, seen>>
          PROVE  EndedOnce'
        <3>1. Emit("ended", c) BY <2>f DEF EmitEnded
        <3> QED BY <1>0, <2>b, <2>f, <3>1, StoreEffect, AccountsEnded
    <2>g. Found(c) /\ ~IsTerminal(c) => state[c] \in Live
        BY <2>b, <2>c DEF Found, IsTerminal
    <2>h. c \in started => state[c] \in Terminal \cup {"connected"}
        BY DEF Inv, StartedStaysConnected
    <2>i. mode[c] = "direct" /\ state[c] \in Live => \A v \in Users : part[c][v] \notin {"left", "rejected"}
        BY DEF Inv, DirectNobodyGone
    <2>1. CASE Accept(c, u)
        <3>1. /\ Accepted(c, u) \in [Users -> PStates] /\ state[c] \in Live /\ Found(c)
              /\ state[c] # "connected"
            BY <1>0, <2>1 DEF Accept, CanAccept, Accepted, TypeOK, PStates, Active, Live, Found
        <3>2. \A v \in Users : /\ FindParticipant(c, v) => Accepted(c, u)[v] # "absent"
                               /\ part[c][v] \notin {"left", "rejected"} =>
                                     Accepted(c, u)[v] \notin {"left", "rejected"}
            BY DEF Accepted, FindParticipant
        <3>3. Store(c, "accepted", Accepted(c, u)) BY <2>1 DEF Accept
        <3>4. Stored BY <2>1, <2>b, <2>h, <2>i, <3>1, <3>2, <3>3, StoreKeeps DEF Accept
        <3> QED BY <2>1, <2>b, <2>d, <2>e, <3>1, <3>3, <3>4 DEF Accept
    <2>2. CASE Reject(c, u) /\ mode[c] = "direct"
        <3>1. /\ Store(c, "rejected", Mine("rejected")) /\ state[c] \in Live /\ Found(c)
              /\ Mine("rejected") \in [Users -> PStates] /\ EmitEnded(c, TRUE)
            BY <2>2, <2>0, <2>a, <2>g DEF Reject
        <3>2. \A v \in Users : FindParticipant(c, v) => Mine("rejected")[v] # "absent"
            BY <2>a, <2>c DEF FindParticipant
        <3>3. Stored BY <2>2, <2>b, <3>1, <3>2, StoreKeeps DEF Reject
        <3> QED BY <2>2, <2>b, <2>d, <2>f, <3>1, <3>3 DEF Reject
    <2>3. CASE Reject(c, u) /\ mode[c] # "direct"
        <3>1. /\ Store(c, state[c], Mine("rejected")) /\ state[c] \in Live /\ Found(c)
              /\ Mine("rejected") \in [Users -> PStates] /\ UNCHANGED out
            BY <2>3, <2>0, <2>a, <2>g DEF Reject, EmitEnded
        <3>2. \A v \in Users : FindParticipant(c, v) => Mine("rejected")[v] # "absent"
            BY <2>a, <2>c DEF FindParticipant
        <3>3. Stored BY <2>3, <2>b, <2>h, <3>1, <3>2, StoreKeeps DEF Reject
        <3> QED BY <2>3, <2>d, <2>e, <3>1, <3>3 DEF Reject
    <2>4. CASE Cancel(c, u)
        <3>1. /\ Store(c, "cancelled", Silenced(part[c])) /\ state[c] \in Live /\ Found(c)
              /\ Silenced(part[c]) \in [Users -> PStates] /\ EmitEnded(c, TRUE)
            BY <2>4, <2>c, <2>g, SilencedType DEF Cancel
        <3>2. \A v \in Users : /\ Silenced(part[c])[v] \notin Ringing
                               /\ FindParticipant(c, v) => Silenced(part[c])[v] # "absent"
            BY DEF Silenced, Ringing, FindParticipant
        <3>3. Stored BY <2>4, <2>b, <3>1, <3>2, StoreKeeps DEF Cancel
        <3> QED BY <2>4, <2>b, <2>d, <2>f, <3>1, <3>3 DEF Cancel
    <2>5. CASE Join(c, u)
        <3> DEFINE s == IF state[c] \in {"accepted", "ringing"} THEN "connecting" ELSE state[c]
        <3>1. /\ Store(c, s, Mine("connecting")) /\ state[c] \in Live /\ Found(c)
              /\ Mine("connecting") \in [Users -> PStates] /\ s \in Live /\ s # "ringing"
            BY <2>5, <2>0, <2>a, <2>b, <2>g DEF Join
        <3>2. \A v \in Users : /\ FindParticipant(c, v) => Mine("connecting")[v] # "absent"
                               /\ part[c][v] \notin {"left", "rejected"} =>
                                     Mine("connecting")[v] \notin {"left", "rejected"}
            BY <2>a, <2>c DEF FindParticipant
        <3>3. c \in started => s = "connected" BY <2>b, <2>h, <3>1
        <3>4. Stored BY <2>5, <2>b, <2>i, <3>1, <3>2, <3>3, StoreKeeps DEF Join
        <3> QED BY <2>5, <2>b, <2>d, <2>e, <3>1, <3>4 DEF Join
    <2>6. CASE MarkConnected(c, u)
        <3> DEFINE s == IF c \in started THEN state[c] ELSE "connected"
        <3>1. /\ Store(c, s, Mine("connected")) /\ state[c] \in Live /\ Found(c)
              /\ Mine("connected") \in [Users -> PStates]
            BY <2>6, <2>0, <2>a, <2>g DEF MarkConnected
        <3>2. s = "connected" BY <2>b, <2>h, <3>1
        <3>3. \A v \in Users : /\ FindParticipant(c, v) => Mine("connected")[v] # "absent"
                               /\ part[c][v] \notin {"left", "rejected"} =>
                                     Mine("connected")[v] \notin {"left", "rejected"}
            BY <2>a, <2>c DEF FindParticipant
        <3>4. Stored BY <2>6, <2>b, <2>i, <3>1, <3>2, <3>3, StoreKeeps DEF MarkConnected
        <3> QED BY <2>6, <2>b, <2>d, <2>e, <3>1, <3>2, <3>4 DEF MarkConnected
    <2>7. ASSUME NEW endCall \in BOOLEAN, EndForUser(c, u, endCall)
          PROVE  Stored /\ RingingHasTimer' /\ EndedOnce'
        <3> DEFINE ends == Ends(c, Mine("left"), endCall)
        <3>1. /\ state[c] \in Live /\ Found(c) /\ Mine("left") \in [Users -> PStates]
              /\ ends \in BOOLEAN
              /\ UNCHANGED <<mode, caller, started, timer, creating, resumes, seen, faults>>
            BY <2>7, <2>0, <2>a, <2>g DEF EndForUser, Ends
        <3>2. \A v \in Users : FindParticipant(c, v) => Mine("left")[v] # "absent"
            BY <2>a, <2>c DEF FindParticipant
        <3>3. CASE ends
            <4>1. Store(c, "ended", Mine("left")) /\ EmitEnded(c, TRUE)
                BY <2>7, <3>3 DEF EndForUser, EmitEnded
            <4>2. Stored BY <2>b, <3>1, <3>2, <4>1, StoreKeeps
            <4> QED BY <2>b, <2>d, <2>f, <3>1, <4>1, <4>2
        <3>4. CASE ~ends
            <4>1. /\ Store(c, state[c], Mine("left")) /\ UNCHANGED out
                  /\ mode[c] # "direct"
                BY <2>7, <3>4 DEF EndForUser, EmitEnded, Ends
            <4>2. Stored BY <2>b, <2>h, <3>1, <3>2, <4>1, StoreKeeps
            <4> QED BY <2>d, <2>e, <3>1, <4>1, <4>2
        <3> QED BY <3>3, <3>4
    <2>8. CASE ResumeCheck(c, u)
        <3>1. Stored BY <2>8, NoStoreKeeps DEF ResumeCheck
        <3>2. EndedOnce' BY <2>8, AccountsKept DEF ResumeCheck, callVars
        <3>3. RingingHasTimer' BY <2>8 DEF Inv, RingingHasTimer, ResumeCheck, callVars
        <3> QED BY <3>1, <3>2, <3>3
    <2>9. CASE ResumeUpdate(c, u)
        <3> DEFINE ps == Resumed(part[c], u)
        <3>1. /\ Store(c, state[c], ps) /\ Found(c)
              /\ ps \in [Users -> PStates]
            BY <2>9, <1>0 DEF ResumeUpdate, Inv, Fresh, Found, TypeOK, Resumed, PStates, Active
        <3>2. \A v \in Users : /\ FindParticipant(c, v) => ps[v] # "absent"
                               /\ part[c][v] \notin Ringing => ps[v] \notin Ringing
                               /\ part[c][v] \notin {"left", "rejected"} =>
                                     ps[v] \notin {"left", "rejected"}
            BY <2>c DEF FindParticipant, Resumed, Ringing
        <3>3. state[c] \in {"timeout", "cancelled"} => \A v \in Users : part[c][v] \notin Ringing
            BY DEF Inv, NoRingAfterStop
        <3>4. Stored
            BY <2>9, <2>c, <2>h, <2>i, <3>1, <3>2, <3>3, StoreKeeps DEF ResumeUpdate, Found
        <3>5. \A d \in Calls : state'[d] = state[d] BY <1>0, <3>1, StoreEffect
        <3>6. RingingHasTimer' BY <2>9, <3>5 DEF Inv, RingingHasTimer, ResumeUpdate
        <3>7. EndedOnce' BY <2>9, <3>5, AccountsKept DEF ResumeUpdate
        <3> QED BY <3>4, <3>6, <3>7
    <2> QED BY <1>2, <2>1, <2>2, <2>3, <2>4, <2>5, <2>6, <2>7, <2>8, <2>9
            DEF UserNext, Leave, Hangup
<1>3. CASE Crash
    <2>1. Stored BY <1>3, NoStoreKeeps DEF Crash
    <2>2. faults' # 0 BY <1>0, <1>3 DEF Crash, Fault, TypeOK
    <2>3. \A d \in Calls : EndedEvents(d)' <= EndedEvents(d) /\ EndedEvents(d)' \in Nat
                           /\ EndedEvents(d) \in Nat
        BY <1>0, <1>3 DEF EndedEvents, TypeOK, Crash, Events
    <2>4. EndedOnce' BY <1>3, <2>2, <2>3 DEF Inv, EndedOnce, Crash, callVars
    <2> QED BY <2>1, <2>2, <2>4 DEF RingingHasTimer
<1>4. CASE UNCHANGED vars
    <2>1. Stored BY <1>4, NoStoreKeeps DEF vars, callVars
    <2>2. EndedOnce' BY <1>4, AccountsKept DEF vars
    <2>3. RingingHasTimer' BY <1>4 DEF Inv, RingingHasTimer, vars
    <2> QED BY <2>1, <2>2, <2>3
<1> QED BY <1>1, <1>2, <1>3, <1>4 DEF Next

\* The invariant holds before the first call.
LEMMA InvInit == Init => Inv
<1> SUFFICES ASSUME Init PROVE Inv
    OBVIOUS
<1> USE DEF Init
<1>1. TypeOK BY DEF TypeOK, States, PStates, Events
<1>2. Fresh BY DEF Fresh
<1>3. IndexExact BY DEF IndexExact, FindParticipant
<1>4. NoRingAfterStop /\ DirectNobodyGone /\ StartedStaysConnected /\ RingingHasTimer
    BY DEF NoRingAfterStop, DirectNobodyGone, StartedStaysConnected, RingingHasTimer, Live
<1>5. EndedOnce BY DEF EndedOnce, EndedEvents, Terminal, Events
<1> QED BY <1>1, <1>2, <1>3, <1>4, <1>5 DEF Inv

\* The inductive invariant holds in every reachable state.
THEOREM Invariance == Spec => []Inv
BY InvInit, InvStep, PTL DEF Spec

-----------------------------------------------------------------------------
(* Its consequences *)

\* A call that timed out or was cancelled rings nobody.
THEOREM StoppedCallsAreSilent == Spec => []NoRingAfterStop
<1>1. Inv => NoRingAfterStop BY DEF Inv
<1> QED BY <1>1, Invariance, PTL

\* A direct call nobody has ended has lost no participant.
THEOREM DirectCallsEndWithFirstDeparture == Spec => []DirectNobodyGone
<1>1. Inv => DirectNobodyGone BY DEF Inv
<1> QED BY <1>1, Invariance, PTL

\* A call whose media has started stays connected until it ends.
THEOREM StartedCallsStayConnected == Spec => []StartedStaysConnected
<1>1. Inv => StartedStaysConnected BY DEF Inv
<1> QED BY <1>1, Invariance, PTL

\* A user's list of active calls is exactly the live calls he is in.
THEOREM ActiveListIsExact == Spec => []IndexComplete
<1>1. Inv => IndexComplete
    <2> SUFFICES ASSUME Inv, NEW u \in Users, NEW c
                 PROVE  (c \in byUser[u] /\ Found(c) /\ ~IsTerminal(c)) <=>
                        (c \in Calls /\ state[c] \in Live /\ FindParticipant(c, u))
        BY DEF IndexComplete, ListActiveForUser, Inv, TypeOK
    <2>1. c \in byUser[u] => c \in Calls BY DEF Inv, TypeOK
    <2>2. ASSUME c \in Calls
          PROVE  (Found(c) /\ ~IsTerminal(c)) <=> state[c] \in Live
        BY <2>2 DEF Inv, TypeOK, Found, IsTerminal, States, Live, Terminal
    <2> QED BY <2>1, <2>2 DEF Inv, IndexExact
<1> QED BY <1>1, Invariance, PTL

\* Without faults, every ringing call has its timer.
THEOREM RingingCallsAreTimed == Spec => []RingingHasTimer
<1>1. Inv => RingingHasTimer BY DEF Inv
<1> QED BY <1>1, Invariance, PTL

\* The end of a call is announced exactly once, or at most once under faults.
THEOREM EndAnnouncedOnce == Spec => []EndedOnce
<1>1. Inv => EndedOnce BY DEF Inv
<1> QED BY <1>1, Invariance, PTL

-----------------------------------------------------------------------------
(* Action properties and refinement *)

\* What one step can do to the state of the calls: nothing, or one change of
\* one call that respects the lifecycle.
StateStep ==
    \/ \A d \in Calls : state'[d] = state[d]
    \/ \E c \in Calls :
          /\ \A d \in Calls \ {c} : state'[d] = state[d]
          /\ \/ state[c] = "none" /\ state'[c] = "ringing"
             \/ state[c] \in Live /\ state'[c] \in Terminal \cup (Live \ {"ringing"})
             \/ state'[c] = state[c]

\* Every step moves the state of a call only as StateStep allows.
LEMMA StateSteps == Inv /\ [Next]_vars => StateStep
<1> SUFFICES ASSUME Inv, [Next]_vars PROVE StateStep
    OBVIOUS
<1>0. TypeOK BY DEF Inv
<1>a. States = {"none"} \cup Live \cup Terminal
    BY DEF States
<1>b. /\ {"rejected", "cancelled", "ended", "timeout", "failed"} = Terminal
      /\ {"accepted", "connecting", "connected"} = Live \ {"ringing"}
      /\ "ringing" \in Live
    BY DEF Terminal, Live
<1>c. ASSUME NEW c \in Calls, NEW s, NEW ps, Store(c, s, ps),
             \/ state[c] = "none" /\ s = "ringing"
             \/ state[c] \in Live /\ s \in Terminal \cup (Live \ {"ringing"})
             \/ s = state[c]
      PROVE  StateStep
    BY <1>0, <1>c, StoreEffect DEF StateStep
<1>d. \A c \in Calls : Found(c) /\ ~IsTerminal(c) => state[c] \in Live
    BY <1>0, <1>a DEF TypeOK, Found, IsTerminal
<1>1. ASSUME NEW c \in Calls, CallNext(c) PROVE StateStep
    <2>1. ASSUME NEW u \in Users, NEW callees \in SUBSET Users, NEW m \in {"direct", "group"},
                 Create(c, u, callees, m)
          PROVE  StateStep
        BY <2>1, <1>c DEF Create, Found
    <2>2. CASE Fail(c)
        <3>1. Found(c) BY <2>2 DEF Fail, Inv, Fresh, Found
        <3>2. Store(c, IF IsTerminal(c) THEN state[c] ELSE "failed", part[c])
            BY <2>2 DEF Fail
        <3>3. CASE IsTerminal(c) BY <1>c, <3>2, <3>3
        <3>4. CASE ~IsTerminal(c)
            <4>1. state[c] \in Live /\ "failed" \in Terminal BY <1>b, <1>d, <3>1, <3>4
            <4> QED BY <1>c, <3>2, <3>4, <4>1
        <3> QED BY <3>3, <3>4
    <2>3. CASE RingTimeout(c) /\ ~TimerSkips(c)
        <3>1. /\ state[c] = "ringing" /\ Store(c, "timeout", Silenced(part[c]))
              /\ "ringing" \in Live /\ "timeout" \in Terminal
            BY <2>3, <1>b DEF RingTimeout, TimerSkips
        <3> QED BY <1>c, <3>1
    <2>4. CASE RingTimeout(c) /\ TimerSkips(c) BY <2>4 DEF RingTimeout, StateStep
    <2>5. CASE \/ RoomReady(c) \/ FailAfterDisconnect(c) \/ RingTimeoutNotify(c)
               \/ RingTimeoutStoreError(c) \/ ReplyLost(c)
               \/ \E e \in Events : OnEvent(e, c)
        BY <2>5 DEF RoomReady, FailAfterDisconnect, RingTimeoutNotify, RingTimeoutStoreError,
                    ReplyLost, OnEvent, callVars, StateStep
    <2> QED BY <1>1, <2>1, <2>2, <2>3, <2>4, <2>5 DEF CallNext
<1>2. ASSUME NEW c \in Calls, NEW u \in Users, UserNext(c, u) PROVE StateStep
    <2>1. CASE Accept(c, u)
        <3>1. state[c] \in Live /\ Store(c, "accepted", Accepted(c, u)) /\ "accepted" \in Live \ {"ringing"}
            BY <2>1, <1>b DEF Accept, CanAccept, Live
        <3> QED BY <1>c, <3>1
    <2>2. CASE Reject(c, u)
        <3>1. /\ state[c] \in Live /\ "rejected" \in Terminal
              /\ Store(c, IF mode[c] = "direct" THEN "rejected" ELSE state[c],
                       [part[c] EXCEPT ![u] = "rejected"])
            BY <2>2, <1>b, <1>d DEF Reject
        <3> QED BY <1>c, <3>1
    <2>3. CASE Cancel(c, u)
        <3>1. state[c] \in Live /\ "cancelled" \in Terminal /\ Store(c, "cancelled", Silenced(part[c]))
            BY <2>3, <1>b, <1>d DEF Cancel
        <3> QED BY <1>c, <3>1
    <2>4. CASE Join(c, u)
        <3>1. /\ state[c] \in Live /\ "connecting" \in Live \ {"ringing"}
              /\ Store(c, IF state[c] \in {"accepted", "ringing"} THEN "connecting" ELSE state[c],
                       [part[c] EXCEPT ![u] = "connecting"])
            BY <2>4, <1>b, <1>d DEF Join
        <3> QED BY <1>c, <3>1
    <2>5. CASE MarkConnected(c, u)
        <3>1. /\ state[c] \in Live /\ "connected" \in Live \ {"ringing"}
              /\ Store(c, IF c \in started THEN state[c] ELSE "connected",
                       [part[c] EXCEPT ![u] = "connected"])
            BY <2>5, <1>b, <1>d DEF MarkConnected
        <3> QED BY <1>c, <3>1
    <2>6. ASSUME NEW endCall \in BOOLEAN, EndForUser(c, u, endCall) PROVE StateStep
        <3> DEFINE ends == Ends(c, [part[c] EXCEPT ![u] = "left"], endCall)
        <3>1. /\ state[c] \in Live /\ "ended" \in Terminal
              /\ Store(c, IF ends THEN "ended" ELSE state[c], [part[c] EXCEPT ![u] = "left"])
            BY <2>6, <1>b, <1>d DEF EndForUser
        <3> HIDE DEF ends
        <3> QED BY <1>c, <3>1
    <2>7. CASE ResumeCheck(c, u) BY <2>7 DEF ResumeCheck, callVars, StateStep
    <2>8. CASE ResumeUpdate(c, u) BY <2>8, <1>c DEF ResumeUpdate
    <2> QED BY <1>2, <2>1, <2>2, <2>3, <2>4, <2>5, <2>6, <2>7, <2>8 DEF UserNext, Leave, Hangup
<1>3. CASE Crash BY <1>3 DEF Crash, callVars, StateStep
<1>4. CASE UNCHANGED vars BY <1>4 DEF vars, StateStep
<1> QED BY <1>1, <1>2, <1>3, <1>4 DEF Next

\* No step changes the state of a call that has ended.
THEOREM EndedCallsStayEnded == Spec => TerminalAbsorbing
<1>1. Inv /\ [Next]_vars => [\A c \in Calls : IsTerminal(c) => state'[c] = state[c]]_vars
    <2> SUFFICES ASSUME Inv, [Next]_vars, NEW c \in Calls, IsTerminal(c)
                 PROVE  state'[c] = state[c]
        OBVIOUS
    <2>1. state[c] # "none" /\ state[c] \notin Live
        BY DEF IsTerminal, Terminal, Live
    <2> QED BY <2>1, StateSteps DEF StateStep
<1> QED BY <1>1, Invariance, PTL DEF Spec, TerminalAbsorbing

\* Only onEvent counts events, and it changes no call.
LEMMA SeenSteps ==
    [Next]_vars => \/ UNCHANGED seen
                   \/ \E e \in Events, c \in Calls : OnEvent(e, c) /\ UNCHANGED state
<1> SUFFICES ASSUME [Next]_vars
             PROVE  \/ UNCHANGED seen
                    \/ \E e \in Events, c \in Calls : OnEvent(e, c) /\ UNCHANGED state
    OBVIOUS
<1>1. ASSUME NEW c \in Calls, CallNext(c)
      PROVE  UNCHANGED seen \/ \E e \in Events : OnEvent(e, c) /\ UNCHANGED state
    BY <1>1 DEF CallNext, Create, RoomReady, Fail, FailAfterDisconnect, RingTimeout, RingTimeoutNotify,
                RingTimeoutStoreError, ReplyLost, OnEvent, callVars
<1>2. ASSUME NEW c \in Calls, NEW u \in Users, UserNext(c, u) PROVE UNCHANGED seen
    BY <1>2 DEF UserNext, Accept, Reject, Cancel, Join, MarkConnected, Leave, Hangup, EndForUser,
                ResumeCheck, ResumeUpdate
<1>3. CASE Crash BY <1>3 DEF Crash
<1>4. CASE UNCHANGED vars BY <1>4 DEF vars
<1> QED BY <1>1, <1>2, <1>3, <1>4 DEF Next

\* The runtime starts in the initial state of CallLifecycle.
LEMMA LifecycleInit == Init => Lifecycle!Init
<1> SUFFICES ASSUME Init PROVE Lifecycle!Init
    OBVIOUS
<1>0. Phase("none") = "none" BY DEF Phase, Terminal
<1>1. \A c \in Calls : Phase(state[c]) = "none" BY <1>0 DEF Init
<1>2. {c \in Calls : seen["ended"][c] > 0} = {} BY DEF Init, Events
<1> QED BY <1>1, <1>2 DEF Lifecycle!Init

\* Every step of the runtime is a step of CallLifecycle or a stutter.
LEMMA LifecycleStep == Inv /\ [Next]_vars => [Lifecycle!Next]_(Lifecycle!vars)
<1> SUFFICES ASSUME Inv, [Next]_vars PROVE [Lifecycle!Next]_(Lifecycle!vars)
    OBVIOUS
<1> DEFINE ph == [c \in Calls |-> Phase(state[c])]
           an == {c \in Calls : seen["ended"][c] > 0}
<1>0. /\ Terminal = {"ended", "rejected", "cancelled", "timeout", "failed"}
      /\ Live = {"ringing", "accepted", "connecting", "connected"}
    BY DEF Terminal, Live
<1>1. /\ Phase("none") = "none" /\ Phase("ringing") = "ringing"
      /\ \A s \in Terminal : Phase(s) = "over"
      /\ \A s \in Live \ {"ringing"} : Phase(s) = "live"
    BY <1>0 DEF Phase
<1>2. CASE UNCHANGED seen
    <2>1. an' = an BY <1>2
    <2>2. CASE \A d \in Calls : state'[d] = state[d]
        <3>1. ph' = ph BY <2>2
        <3> QED BY <2>1, <3>1 DEF Lifecycle!vars
    <2>3. ASSUME NEW c \in Calls, \A d \in Calls \ {c} : state'[d] = state[d],
                 \/ state[c] = "none" /\ state'[c] = "ringing"
                 \/ state[c] \in Live /\ state'[c] \in Terminal \cup (Live \ {"ringing"})
                 \/ state'[c] = state[c]
          PROVE  [Lifecycle!Next]_(Lifecycle!vars)
        <3>1. ph' = [ph EXCEPT ![c] = Phase(state'[c])] BY <2>3
        <3>2. CASE state[c] = "none" /\ state'[c] = "ringing"
            BY <1>1, <2>1, <3>1, <3>2 DEF Lifecycle!Next, Lifecycle!Begin
        <3>3. CASE state[c] \in Live /\ state'[c] \in Terminal
            BY <1>1, <2>1, <3>1, <3>3 DEF Lifecycle!Next, Lifecycle!Finish
        <3>4. CASE state[c] = "ringing" /\ state'[c] \in Live \ {"ringing"}
            BY <1>1, <2>1, <3>1, <3>4 DEF Lifecycle!Next, Lifecycle!Answer
        <3>5. CASE state[c] \in Live \ {"ringing"} /\ state'[c] \in Live \ {"ringing"}
            <4>1. ph' = ph BY <1>1, <3>1, <3>5
            <4> QED BY <2>1, <4>1 DEF Lifecycle!vars
        <3>6. CASE state'[c] = state[c]
            <4>1. ph' = ph BY <3>1, <3>6
            <4> QED BY <2>1, <4>1 DEF Lifecycle!vars
        <3> QED BY <2>3, <3>2, <3>3, <3>4, <3>5, <3>6
    <2> QED BY <2>2, <2>3, StateSteps DEF StateStep
<1>3. ASSUME NEW e \in Events, NEW c \in Calls, OnEvent(e, c), UNCHANGED state
      PROVE  [Lifecycle!Next]_(Lifecycle!vars)
    <2>1. ph' = ph BY <1>3
    <2>2. CASE e # "ended"
        <3>1. an' = an BY <1>3, <2>2 DEF OnEvent, Inv, TypeOK, Events
        <3> QED BY <2>1, <3>1 DEF Lifecycle!vars
    <2>3. CASE e = "ended"
        <3>1. /\ out["ended"][c] > 0 /\ out["ended"][c] \in Nat /\ seen["ended"][c] \in Nat
              /\ \A d \in Calls : seen'["ended"][d] =
                     IF d = c THEN seen["ended"][d] + 1 ELSE seen["ended"][d]
            BY <1>3, <2>3 DEF OnEvent, Inv, TypeOK, Events
        <3>2. EndedEvents(c) <= 1 /\ (EndedEvents(c) = 1 => state[c] \in Terminal)
            BY DEF Inv, EndedOnce
        <3>3. seen["ended"][c] = 0 /\ state[c] \in Terminal
            BY <3>1, <3>2 DEF EndedEvents
        <3>4. an' = an \cup {c} BY <3>1, <3>3
        <3> QED BY <1>1, <2>1, <3>3, <3>4 DEF Lifecycle!Next, Lifecycle!Announce
    <2> QED BY <2>2, <2>3
<1> QED BY <1>2, <1>3, SeenSteps

\* The runtime implements the abstract lifecycle: a call rings once, is over
\* for good, and its end is announced at most once and only after it.
THEOREM Refinement == Spec => ImplementsLifecycle
<1> QED BY LifecycleInit, LifecycleStep, Invariance, PTL
        DEF Spec, ImplementsLifecycle, Lifecycle!Spec

\* A store Update of one call leaves the participants of the others alone, and
\* no step changes the mode of a call that exists.
LEMMA ModeSteps ==
    ASSUME [Next]_vars, TypeOK, NEW d \in Calls, Found(d)
    PROVE  mode'[d] = mode[d]
<1>1. ASSUME NEW c \in Calls, CallNext(c) PROVE mode'[d] = mode[d]
    BY <1>1 DEF TypeOK, Found, CallNext, Create, RoomReady, Fail, FailAfterDisconnect, RingTimeout,
                RingTimeoutNotify, RingTimeoutStoreError, ReplyLost, OnEvent, callVars
<1>2. ASSUME NEW c \in Calls, NEW u \in Users, UserNext(c, u) PROVE UNCHANGED mode
    BY <1>2 DEF UserNext, Accept, Reject, Cancel, Join, MarkConnected, Leave, Hangup, EndForUser,
                ResumeCheck, ResumeUpdate, callVars
<1>3. CASE Crash BY <1>3 DEF Crash, callVars
<1>4. CASE UNCHANGED vars BY <1>4 DEF vars
<1> QED BY <1>1, <1>2, <1>3, <1>4 DEF Next

\* What one step can do to the participants of a call that exists: nothing, an
\* Update of a live call that keeps a direct call's members, or a Resume.
PartStep(d) ==
    \/ part'[d] = part[d]
    \/ /\ ~IsTerminal(d)
       /\ mode[d] = "direct" =>
             \A v \in Users : FindParticipant(d, v)' <=> FindParticipant(d, v)
    \/ \E u \in Users : part'[d] = Resumed(part[d], u)

\* What a step may do to the participants of a call.
LEMMA ParticipantSteps ==
    ASSUME Inv, [Next]_vars, NEW d \in Calls, Found(d)
    PROVE  PartStep(d)
<1>0. TypeOK BY DEF Inv
<1>a. ASSUME NEW c \in Calls, NEW s, NEW ps, Store(c, s, ps), ~IsTerminal(c),
             mode[c] = "direct" =>
                 \A v \in Users : (ps[v] # "absent") <=> FindParticipant(c, v)
      PROVE  PartStep(d)
    BY <1>0, <1>a, StoreEffect DEF PartStep, FindParticipant
<1>b. ASSUME NEW c \in Calls, NEW s, NEW ps, Store(c, s, ps),
             ps = part[c] \/ \E u \in Users : ps = Resumed(part[c], u)
      PROVE  PartStep(d)
    BY <1>0, <1>b, StoreEffect DEF PartStep
<1>c. ASSUME NEW c \in Calls, NEW p \in {"rejected", "connecting", "connected", "left"},
             NEW u \in Users, FindParticipant(c, u)
      PROVE  \A v \in Users : ([part[c] EXCEPT ![u] = p][v] # "absent") <=> FindParticipant(c, v)
    BY <1>0, <1>c DEF TypeOK, FindParticipant
<1>d. ASSUME NEW c \in Calls
      PROVE  \A v \in Users : (Silenced(part[c])[v] # "absent") <=> FindParticipant(c, v)
    BY <1>d DEF Silenced, FindParticipant, Ringing
<1>1. ASSUME NEW c \in Calls, CallNext(c) PROVE PartStep(d)
    <2>1. ASSUME NEW u \in Users, NEW callees \in SUBSET Users, NEW m \in {"direct", "group"},
                 Create(c, u, callees, m)
          PROVE  PartStep(d)
        <3>1. d # c BY <2>1 DEF Create
        <3> QED BY <1>0, <2>1, <3>1, StoreEffect DEF Create, PartStep
    <2>2. CASE Fail(c) BY <2>2, <1>b DEF Fail
    <2>3. CASE RingTimeout(c) /\ ~TimerSkips(c)
        <3>1. ~IsTerminal(c) /\ Store(c, "timeout", Silenced(part[c]))
            BY <2>3 DEF RingTimeout, TimerSkips, IsTerminal, Terminal
        <3> QED BY <1>a, <1>d, <3>1
    <2>4. CASE RingTimeout(c) /\ TimerSkips(c) BY <2>4 DEF RingTimeout, PartStep
    <2>5. CASE \/ RoomReady(c) \/ FailAfterDisconnect(c) \/ RingTimeoutNotify(c)
               \/ RingTimeoutStoreError(c) \/ ReplyLost(c)
               \/ \E e \in Events : OnEvent(e, c)
        BY <2>5 DEF RoomReady, FailAfterDisconnect, RingTimeoutNotify, RingTimeoutStoreError,
                    ReplyLost, OnEvent, callVars, PartStep
    <2> QED BY <1>1, <2>1, <2>2, <2>3, <2>4, <2>5 DEF CallNext
<1>2. ASSUME NEW c \in Calls, NEW u \in Users, UserNext(c, u) PROVE PartStep(d)
    <2>1. CASE Accept(c, u)
        <3>1. ~IsTerminal(c) /\ FindParticipant(c, u) /\ Store(c, "accepted", Accepted(c, u))
            BY <2>1 DEF Accept, CanAccept, IsTerminal, Terminal
        <3>2. \A v \in Users : (Accepted(c, u)[v] # "absent") <=> FindParticipant(c, v)
            BY <3>1 DEF Accepted, FindParticipant, Ringing
        <3> QED BY <1>a, <3>1, <3>2
    <2>2. CASE Reject(c, u) BY <2>2, <1>a, <1>c DEF Reject
    <2>3. CASE Cancel(c, u) BY <2>3, <1>a, <1>d DEF Cancel
    <2>4. CASE Join(c, u)
        <3>1. /\ ~IsTerminal(c)
              /\ \E s : Store(c, s, [part[c] EXCEPT ![u] = "connecting"])
              /\ mode[c] = "direct" => FindParticipant(c, u)
            BY <2>4 DEF Join, CanJoin
        <3> QED BY <1>a, <1>c, <3>1
    <2>5. CASE MarkConnected(c, u) BY <2>5, <1>a, <1>c DEF MarkConnected
    <2>6. ASSUME NEW endCall \in BOOLEAN, EndForUser(c, u, endCall) PROVE PartStep(d)
        <3>1. /\ ~IsTerminal(c) /\ FindParticipant(c, u)
              /\ \E s : Store(c, s, [part[c] EXCEPT ![u] = "left"])
            BY <2>6 DEF EndForUser
        <3> QED BY <1>a, <1>c, <3>1
    <2>7. CASE ResumeCheck(c, u) BY <2>7 DEF ResumeCheck, callVars, PartStep
    <2>8. CASE ResumeUpdate(c, u) BY <2>8, <1>b DEF ResumeUpdate
    <2> QED BY <1>2, <2>1, <2>2, <2>3, <2>4, <2>5, <2>6, <2>7, <2>8 DEF UserNext, Leave, Hangup
<1>3. CASE Crash BY <1>3 DEF Crash, callVars, PartStep
<1>4. CASE UNCHANGED vars BY <1>4 DEF vars, PartStep
<1> QED BY <1>1, <1>2, <1>3, <1>4 DEF Next

\* After a call has ended, its participants change only by the Update of a
\* Resume that checked before the end, and only to reconnecting.
THEOREM EndedCallsKeepParticipants == Spec => EndedParticipantsFinal
<1>1. Inv /\ [Next]_vars =>
        [\A c \in Calls, u \in Users : IsTerminal(c) =>
            \/ part'[c][u] = part[c][u]
            \/ /\ part[c][u] \in {"disconnected", "connected"}
               /\ part'[c][u] = "reconnecting"]_vars
    <2> SUFFICES ASSUME Inv, [Next]_vars, NEW c \in Calls, NEW u \in Users, IsTerminal(c)
                 PROVE  \/ part'[c][u] = part[c][u]
                        \/ /\ part[c][u] \in {"disconnected", "connected"}
                           /\ part'[c][u] = "reconnecting"
        OBVIOUS
    <2>1. Found(c) BY DEF IsTerminal, Terminal, Found
    <2>2. CASE part'[c] = part[c] BY <2>2
    <2>3. ASSUME NEW v \in Users, part'[c] = Resumed(part[c], v)
          PROVE  \/ part'[c][u] = part[c][u]
                 \/ /\ part[c][u] \in {"disconnected", "connected"}
                    /\ part'[c][u] = "reconnecting"
        BY <2>3 DEF Resumed, Inv, TypeOK
    <2> QED BY <2>1, <2>2, <2>3, ParticipantSteps DEF PartStep
<1> QED BY <1>1, Invariance, PTL DEF Spec, EndedParticipantsFinal

\* Nobody joins or disappears from a direct call after its creation.
THEOREM DirectCallsStayPrivate == Spec => DirectStaysPrivate
<1>1. Inv /\ [Next]_vars =>
        [\A c \in Calls : mode[c] = "direct" => Participants(c)' = Participants(c)]_vars
    <2> SUFFICES ASSUME Inv, [Next]_vars, NEW c \in Calls, mode[c] = "direct"
                 PROVE  Participants(c)' = Participants(c)
        OBVIOUS
    <2>1. CASE Found(c)
        <3>1. ASSUME NEW v \in Users, part'[c] = Resumed(part[c], v)
              PROVE  \A w \in Users : FindParticipant(c, w)' <=> FindParticipant(c, w)
            BY <3>1 DEF Resumed, FindParticipant, Inv, TypeOK
        <3>2. \A w \in Users : FindParticipant(c, w)' <=> FindParticipant(c, w)
            BY <2>1, <3>1, ParticipantSteps DEF PartStep, FindParticipant
        <3> QED BY <3>2 DEF Participants
    <2>2. CASE ~Found(c)
        BY <2>2 DEF Inv, Fresh, Found
    <2> QED BY <2>1, <2>2
<1> QED BY <1>1, Invariance, PTL DEF Spec, DirectStaysPrivate

-----------------------------------------------------------------------------
(* The runtime implements CallOutcome *)

phases == [c \in Calls |-> Standing(state[c])]
membership == [c \in Calls |-> Participants(c)]
due == {c \in Calls : timer[c] = "fired"}

\* The states of a call as CallOutcome sees them.
LEMMA Standings ==
    /\ \A s \in {"none", "ringing", "cancelled", "timeout", "failed"} : Standing(s) = s
    /\ Standing("ended") = "ended" /\ Standing("rejected") = "ended"
    /\ \A s \in Live \ {"ringing"} : Standing(s) = "answered"
    /\ \A s \in Live : Standing(s) \in {"ringing", "answered"}
    /\ \A s \in Terminal : Standing(s) \in {"ended", "cancelled", "timeout", "failed"}
BY DEF Standing, Live, Terminal

\* What the Update of a call is for CallOutcome.
LEMMA OutcomeOfStore ==
    ASSUME TypeOK, NEW c \in Calls, NEW s, NEW ps, Store(c, s, ps)
    PROVE  /\ phases' = [phases EXCEPT ![c] = Standing(s)]
           /\ membership' = [membership EXCEPT ![c] = {u \in Users : ps[u] # "absent"}]
<1>1. /\ state' = [state EXCEPT ![c] = s] /\ part' = [part EXCEPT ![c] = ps]
      /\ state \in [Calls -> States] /\ part \in [Calls -> [Users -> PStates]]
    BY DEF Store, TypeOK
<1>2. phases' = [phases EXCEPT ![c] = Standing(s)]
    BY <1>1 DEF phases
<1>3. \A d \in Calls : Participants(d)' =
         IF d = c THEN {u \in Users : ps[u] # "absent"} ELSE Participants(d)
    BY <1>1 DEF Participants, FindParticipant
<1> QED BY <1>2, <1>3 DEF membership

\* An Update that keeps the participants.
LEMMA OutcomeOfKeeping ==
    ASSUME TypeOK, NEW c \in Calls, NEW s, NEW ps, Store(c, s, ps),
           \A u \in Users : ps[u] # "absent" <=> FindParticipant(c, u)
    PROVE  phases' = [phases EXCEPT ![c] = Standing(s)] /\ membership' = membership
<1>1. {u \in Users : ps[u] # "absent"} = membership[c]
    BY DEF membership, Participants
<1>2. membership = [membership EXCEPT ![c] = membership[c]]
    BY DEF membership
<1> QED BY <1>1, <1>2, OutcomeOfStore

\* An Update of one user's entry keeps the participants if he is one of them.
LEMMA EntryKeeps ==
    ASSUME TypeOK, NEW c \in Calls, NEW u \in Users, FindParticipant(c, u),
           NEW p \in {"rejected", "connecting", "connected", "left"}
    PROVE  \A v \in Users : [part[c] EXCEPT ![u] = p][v] # "absent" <=> FindParticipant(c, v)
BY DEF TypeOK, FindParticipant

\* Such an Update, for CallOutcome.
LEMMA OutcomeOfEntry ==
    ASSUME TypeOK, NEW c \in Calls, NEW u \in Users, FindParticipant(c, u), NEW s,
           NEW p \in {"rejected", "connecting", "connected", "left"},
           Store(c, s, [part[c] EXCEPT ![u] = p])
    PROVE  phases' = [phases EXCEPT ![c] = Standing(s)] /\ membership' = membership
<1> DEFINE ps == [part[c] EXCEPT ![u] = p]
<1>1. \A v \in Users : ps[v] # "absent" <=> FindParticipant(c, v)
    BY EntryKeeps
<1>2. Store(c, s, ps)
    OBVIOUS
<1> HIDE DEF ps
<1> QED BY <1>1, <1>2, OutcomeOfKeeping

\* Silencing keeps the participants.
LEMMA SilencedKeeps ==
    ASSUME NEW c \in Calls
    PROVE  \A v \in Users : Silenced(part[c])[v] # "absent" <=> FindParticipant(c, v)
BY DEF Silenced, FindParticipant, Ringing

\* The runtime starts in the initial state of CallOutcome.
LEMMA OutcomeInit == Init => Outcome!OutcomeInit
<1> SUFFICES ASSUME Init PROVE Outcome!OutcomeInit
    OBVIOUS
<1>1. phases = [c \in Calls |-> "none"]
    BY Standings DEF Init, phases
<1>2. membership = [c \in Calls |-> {}]
    BY DEF Init, membership, Participants, FindParticipant
<1>3. due = {}
    BY DEF Init, due
<1> QED BY <1>1, <1>2, <1>3 DEF Init, Outcome!OutcomeInit, phases, membership, due

\* Nothing that CallOutcome sees has changed.
Unseen == /\ phases' = phases /\ membership' = membership /\ due' = due
          /\ UNCHANGED <<caller, creating>>

\* That is a stutter.
LEMMA UnseenStutters == Unseen => UNCHANGED Outcome!outcomeVars
BY DEF Unseen, Outcome!outcomeVars, phases, membership, due

\* The steps of participants, as CallOutcome has them.
LEMMA OutcomeOfUser ==
    ASSUME NEW c \in Calls, NEW u \in Users, phases[c] \in {"ringing", "answered"},
           due' = due, UNCHANGED <<caller, creating>>
    PROVE  /\ u \in membership[c] /\ membership' = membership
              /\ phases' = [phases EXCEPT ![c] = "answered"] => Outcome!OutcomeNext
           /\ membership' = [membership EXCEPT ![c] = @ \cup {u}]
              /\ phases' = [phases EXCEPT ![c] = "answered"] => Outcome!OutcomeNext
           /\ u \in membership[c] /\ membership' = membership
              /\ phases' = [phases EXCEPT ![c] = "ended"] => Outcome!OutcomeNext
           /\ u = caller[c] /\ membership' = membership
              /\ phases' = [phases EXCEPT ![c] = "cancelled"] => Outcome!OutcomeNext
<1>1. u \in membership[c] /\ membership' = membership
      /\ phases' = [phases EXCEPT ![c] = "answered"] => Outcome!Answer(c, u)
    BY DEF Outcome!Answer, Outcome!Enter, Outcome!Open, phases, membership, due
<1>2. membership' = [membership EXCEPT ![c] = @ \cup {u}]
      /\ phases' = [phases EXCEPT ![c] = "answered"] => Outcome!Enroll(c, u)
    BY DEF Outcome!Enroll, Outcome!Enter, Outcome!Open, phases, membership, due
<1>3. u \in membership[c] /\ membership' = membership
      /\ phases' = [phases EXCEPT ![c] = "ended"] => Outcome!End(c, u)
    BY DEF Outcome!End, Outcome!Enter, Outcome!Open, phases, membership, due
<1>4. u = caller[c] /\ membership' = membership
      /\ phases' = [phases EXCEPT ![c] = "cancelled"] => Outcome!Withdraw(c, u)
    BY DEF Outcome!Withdraw, Outcome!Enter, Outcome!Open, phases, membership, due
<1> QED BY <1>1, <1>2, <1>3, <1>4 DEF Outcome!OutcomeNext

\* A live call and its participants, as CallOutcome has them.
LEMMA LiveStanding ==
    ASSUME TypeOK, NEW c \in Calls, Found(c), ~IsTerminal(c)
    PROVE  /\ state[c] \in Live
           /\ phases[c] = Standing(state[c]) /\ phases[c] \in {"ringing", "answered"}
           /\ phases = [phases EXCEPT ![c] = Standing(state[c])]
           /\ \A u \in Users : u \in membership[c] <=> FindParticipant(c, u)
<1>1. state[c] \in Live
    BY DEF TypeOK, States, Found, IsTerminal, Terminal, Live
<1>2. phases[c] = Standing(state[c]) /\ phases = [phases EXCEPT ![c] = Standing(state[c])]
    BY DEF phases
<1>3. \A u \in Users : u \in membership[c] <=> FindParticipant(c, u)
    BY DEF membership, Participants
<1> QED BY <1>1, <1>2, <1>3, Standings

\* The operations of participants are steps of CallOutcome or stutter.
LEMMA UserOutcome ==
    ASSUME Inv, NEW c \in Calls, NEW u \in Users, UserNext(c, u)
    PROVE  Outcome!OutcomeNext \/ Unseen
<1>0. TypeOK
    BY DEF Inv
<1>1. CASE Accept(c, u)
    <2>1. /\ Found(c) /\ ~IsTerminal(c) /\ FindParticipant(c, u)
          /\ Store(c, "accepted", Accepted(c, u)) /\ UNCHANGED <<caller, creating, timer>>
        BY <1>1 DEF Accept, CanAccept, Found, IsTerminal, Terminal
    <2>2. \A v \in Users : Accepted(c, u)[v] # "absent" <=> FindParticipant(c, v)
        BY <2>1 DEF Accepted, FindParticipant, Ringing
    <2>3. phases' = [phases EXCEPT ![c] = "answered"] /\ membership' = membership
        BY <1>0, <2>1, <2>2, OutcomeOfKeeping, Standings DEF Live
    <2>4. due' = due
        BY <2>1 DEF due
    <2> QED BY <1>0, <2>1, <2>3, <2>4, LiveStanding, OutcomeOfUser
<1>2. CASE Reject(c, u)
    <2> DEFINE s == IF mode[c] = "direct" THEN "rejected" ELSE state[c]
    <2>1. /\ Found(c) /\ ~IsTerminal(c) /\ FindParticipant(c, u)
          /\ Store(c, s, [part[c] EXCEPT ![u] = "rejected"]) /\ UNCHANGED <<caller, creating, timer>>
        BY <1>2 DEF Reject
    <2>2. phases' = [phases EXCEPT ![c] = Standing(s)] /\ membership' = membership
        BY <1>0, <2>1, OutcomeOfEntry
    <2>3. due' = due
        BY <2>1 DEF due
    <2>4. CASE mode[c] = "direct"
        <3>1. phases' = [phases EXCEPT ![c] = "ended"]
            BY <2>2, <2>4, Standings
        <3> QED BY <1>0, <2>1, <2>2, <2>3, <3>1, LiveStanding, OutcomeOfUser
    <2>5. CASE mode[c] # "direct"
        <3>1. phases' = phases
            BY <1>0, <2>1, <2>2, <2>5, LiveStanding
        <3> QED BY <2>1, <2>2, <2>3, <3>1 DEF Unseen
    <2> QED BY <2>4, <2>5
<1>3. CASE Cancel(c, u)
    <2>1. /\ Found(c) /\ ~IsTerminal(c) /\ caller[c] = u
          /\ Store(c, "cancelled", Silenced(part[c])) /\ UNCHANGED <<caller, creating, timer>>
        BY <1>3 DEF Cancel
    <2>2. phases' = [phases EXCEPT ![c] = "cancelled"] /\ membership' = membership
        BY <1>0, <2>1, SilencedKeeps, OutcomeOfKeeping, Standings
    <2>3. due' = due
        BY <2>1 DEF due
    <2> QED BY <1>0, <2>1, <2>2, <2>3, LiveStanding, OutcomeOfUser
<1>4. CASE Join(c, u)
    <2> DEFINE s == IF state[c] \in {"accepted", "ringing"} THEN "connecting" ELSE state[c]
               ps == [part[c] EXCEPT ![u] = "connecting"]
    <2>1. /\ Found(c) /\ ~IsTerminal(c)
          /\ Store(c, s, ps) /\ UNCHANGED <<caller, creating, timer>>
        BY <1>4 DEF Join
    <2>2. s \in Live \ {"ringing"}
        BY <1>0, <2>1, LiveStanding DEF Live
    <2>3. {v \in Users : ps[v] # "absent"} = membership[c] \cup {u}
        BY <1>0 DEF TypeOK, membership, Participants, FindParticipant
    <2>4. /\ phases' = [phases EXCEPT ![c] = "answered"]
          /\ membership' = [membership EXCEPT ![c] = membership[c] \cup {u}]
        <3> HIDE DEF s, ps
        <3>1. phases' = [phases EXCEPT ![c] = Standing(s)]
              /\ membership' = [membership EXCEPT ![c] = {v \in Users : ps[v] # "absent"}]
            BY <1>0, <2>1, OutcomeOfStore
        <3>2. Standing(s) = "answered"
            BY <2>2, Standings
        <3> QED BY <2>3, <3>1, <3>2
    <2>5. due' = due
        BY <2>1 DEF due
    <2>6. membership' = [membership EXCEPT ![c] = @ \cup {u}]
        BY <2>4
    <2> QED BY <1>0, <2>1, <2>4, <2>5, <2>6, LiveStanding, OutcomeOfUser
<1>5. CASE MarkConnected(c, u)
    <2> DEFINE s == IF c \in started THEN state[c] ELSE "connected"
    <2>1. /\ Found(c) /\ ~IsTerminal(c) /\ FindParticipant(c, u)
          /\ Store(c, s, [part[c] EXCEPT ![u] = "connected"]) /\ UNCHANGED <<caller, creating, timer>>
        BY <1>5 DEF MarkConnected
    <2>2. s \in Live \ {"ringing"}
        BY <2>1 DEF Inv, StartedStaysConnected, IsTerminal, Live
    <2>3. phases' = [phases EXCEPT ![c] = "answered"] /\ membership' = membership
        <3> HIDE DEF s
        <3>1. phases' = [phases EXCEPT ![c] = Standing(s)] /\ membership' = membership
            BY <1>0, <2>1, OutcomeOfEntry
        <3>2. Standing(s) = "answered"
            BY <2>2, Standings
        <3> QED BY <3>1, <3>2
    <2>4. due' = due
        BY <2>1 DEF due
    <2> QED BY <1>0, <2>1, <2>3, <2>4, LiveStanding, OutcomeOfUser
<1>6. ASSUME NEW endCall \in BOOLEAN, EndForUser(c, u, endCall)
      PROVE  Outcome!OutcomeNext \/ Unseen
    <2> DEFINE ps == [part[c] EXCEPT ![u] = "left"]
    <2>1. /\ Found(c) /\ ~IsTerminal(c) /\ FindParticipant(c, u) /\ UNCHANGED <<caller, creating, timer>>
          /\ Store(c, "ended", ps) \/ Store(c, state[c], ps)
        BY <1>6 DEF EndForUser
    <2>2. due' = due
        BY <2>1 DEF due
    <2>3. CASE Store(c, "ended", ps)
        <3>1. phases' = [phases EXCEPT ![c] = "ended"] /\ membership' = membership
            <4>1. phases' = [phases EXCEPT ![c] = Standing("ended")] /\ membership' = membership
                BY <1>0, <2>1, <2>3, OutcomeOfEntry
            <4> QED BY <4>1, Standings
        <3> QED BY <1>0, <2>1, <2>2, <3>1, LiveStanding, OutcomeOfUser
    <2>4. CASE Store(c, state[c], ps)
        <3>1. phases' = [phases EXCEPT ![c] = Standing(state[c])] /\ membership' = membership
            BY <1>0, <2>1, <2>4, OutcomeOfEntry
        <3> QED BY <1>0, <2>1, <2>2, <3>1, LiveStanding DEF Unseen
    <2> QED BY <2>1, <2>3, <2>4
<1>7. CASE ResumeCheck(c, u)
    BY <1>7 DEF ResumeCheck, callVars, Unseen, phases, membership, Participants, FindParticipant, due
<1>8. CASE ResumeUpdate(c, u)
    <2>1. Store(c, state[c], Resumed(part[c], u)) /\ UNCHANGED <<caller, creating, timer>>
        BY <1>8 DEF ResumeUpdate
    <2>2. \A v \in Users : Resumed(part[c], u)[v] # "absent" <=> FindParticipant(c, v)
        BY <1>0 DEF TypeOK, Resumed, FindParticipant
    <2>3. phases' = [phases EXCEPT ![c] = Standing(state[c])] /\ membership' = membership
        BY <1>0, <2>1, <2>2, OutcomeOfKeeping
    <2>4. phases' = phases
        BY <2>3 DEF phases
    <2> QED BY <2>1, <2>3, <2>4 DEF Unseen, due
<1> QED BY <1>1, <1>2, <1>3, <1>4, <1>5, <1>6, <1>7, <1>8 DEF UserNext, Leave, Hangup

\* Creation, room, timer, events and lost replies are steps of CallOutcome or
\* stutter.
LEMMA CallOutcomes ==
    ASSUME Inv, NEW c \in Calls, CallNext(c)
    PROVE  Outcome!OutcomeNext \/ Unseen
<1>0. TypeOK
    BY DEF Inv
<1>a. ASSUME UNCHANGED <<state, part>> PROVE phases' = phases /\ membership' = membership
    BY <1>a DEF phases, membership, Participants, FindParticipant
<1>h. ASSUME timer[c] = "fired", timer' = [timer EXCEPT ![c] = "off"],
             UNCHANGED <<state, part, caller, creating>>
      PROVE  Outcome!OutcomeNext
    <2>1. c \in due /\ due' = due \ {c}
        BY <1>0, <1>h DEF TypeOK, due
    <2>2. Outcome!Handled(c)
        BY <1>a, <1>h, <2>1 DEF Outcome!Handled, phases, membership, due
    <2> QED BY <2>2 DEF Outcome!OutcomeNext
<1>1. ASSUME NEW u \in Users, NEW callees \in SUBSET Users, NEW m \in {"direct", "group"},
             Create(c, u, callees, m)
      PROVE  Outcome!OutcomeNext
    <2> DEFINE ps == InitialParticipants(u, callees)
    <2>1. /\ phases' = [phases EXCEPT ![c] = "ringing"]
          /\ membership' = [membership EXCEPT ![c] = {v \in Users : ps[v] # "absent"}]
        <3>1. Store(c, "ringing", ps)
            BY <1>1 DEF Create
        <3> HIDE DEF ps
        <3> QED BY <1>0, <3>1, OutcomeOfStore, Standings
    <2>2. {v \in Users : ps[v] # "absent"} = callees \cup {u}
        BY DEF InitialParticipants
    <2>3. phases[c] = "none" /\ callees # {}
        BY <1>1, Standings DEF Create, Found, phases
    <2>4. due' = due
        <3>1. state[c] = "none"
            BY <1>1 DEF Create, Found
        <3>2. EndedEvents(c) # 1 /\ EndedEvents(c) <= 1
            BY <3>1 DEF Inv, EndedOnce, Terminal
        <3>3. seen["ended"][c] \in Nat /\ out["ended"][c] \in Nat
            BY <1>0 DEF TypeOK, Events
        <3>4. timer[c] # "fired"
            BY <3>2, <3>3 DEF EndedEvents
        <3> QED BY <1>0, <1>1, <3>4 DEF Create, TypeOK, due
    <2>5. Outcome!Begin(c, u, callees, m = "group")
        BY <1>1, <2>1, <2>2, <2>3, <2>4
           DEF Create, Outcome!Begin, Outcome!Enter, phases, membership, due
    <2> QED BY <2>5 DEF Outcome!OutcomeNext
<1>2. CASE RoomReady(c) \/ FailAfterDisconnect(c)
    <2>1. /\ c \in creating /\ creating' = creating \ {c}
          /\ UNCHANGED <<state, part, caller, timer>>
        BY <1>2 DEF RoomReady, FailAfterDisconnect, callVars
    <2>2. Outcome!RoomDone(c)
        BY <1>a, <2>1 DEF Outcome!RoomDone, phases, membership
    <2> QED BY <2>2 DEF Outcome!OutcomeNext
<1>3. CASE Fail(c)
    <2> DEFINE s == IF IsTerminal(c) THEN state[c] ELSE "failed"
    <2>1. /\ c \in creating /\ creating' = creating \ {c} /\ Store(c, s, part[c])
          /\ UNCHANGED <<caller, timer>>
        BY <1>3 DEF Fail
    <2>2. phases' = [phases EXCEPT ![c] = Standing(s)] /\ membership' = membership
        <3> HIDE DEF s
        <3> QED BY <1>0, <2>1, OutcomeOfKeeping DEF FindParticipant
    <2>3. Standing(s) = IF phases[c] \in {"ringing", "answered"} THEN "failed" ELSE phases[c]
        <3>1. phases[c] = Standing(state[c])
            BY DEF phases
        <3>2. CASE IsTerminal(c)
            BY <3>1, <3>2, Standings DEF IsTerminal
        <3>3. CASE ~IsTerminal(c)
            <4>1. Found(c)
                BY <2>1 DEF Inv, Fresh, Found
            <4>2. s = "failed" /\ Standing("failed") = "failed"
                BY <3>3, Standings
            <4> QED BY <1>0, <3>3, <4>1, <4>2, LiveStanding
        <3> QED BY <3>2, <3>3
    <2>4. Outcome!RoomFailed(c)
        <3> HIDE DEF s
        <3> QED BY <2>1, <2>2, <2>3
               DEF Outcome!RoomFailed, Outcome!Enter, Outcome!Open, phases, membership, due
    <2> QED BY <2>4 DEF Outcome!OutcomeNext
<1>4. CASE RingTimeout(c) /\ ~TimerSkips(c)
    <2>1. /\ state[c] = "ringing" /\ Store(c, "timeout", Silenced(part[c]))
          /\ timer' = [timer EXCEPT ![c] = "fired"] /\ UNCHANGED <<caller, creating>>
        BY <1>4 DEF RingTimeout, TimerSkips
    <2>2. phases' = [phases EXCEPT ![c] = "timeout"] /\ membership' = membership
        BY <1>0, <2>1, SilencedKeeps, OutcomeOfKeeping, Standings
    <2>3. phases[c] = "ringing"
        BY <2>1, Standings DEF phases
    <2>4. due' = due \cup {c}
        BY <1>0, <2>1 DEF TypeOK, due
    <2>5. Outcome!Expire(c)
        BY <2>1, <2>2, <2>3, <2>4 DEF Outcome!Expire, Outcome!Enter, phases, membership, due
    <2> QED BY <2>5 DEF Outcome!OutcomeNext
<1>5. CASE (RingTimeout(c) /\ TimerSkips(c)) \/ RingTimeoutStoreError(c)
    <2>1. /\ timer[c] = "armed" /\ timer' = [timer EXCEPT ![c] = "off"]
          /\ UNCHANGED <<state, part, caller, creating>>
        BY <1>5 DEF RingTimeout, RingTimeoutStoreError, callVars
    <2>2. due' = due
        BY <1>0, <2>1 DEF TypeOK, due
    <2> QED BY <1>a, <2>1, <2>2 DEF Unseen
<1>6. CASE RingTimeoutNotify(c)
    BY <1>6, <1>h DEF RingTimeoutNotify, callVars
<1>7. CASE ReplyLost(c)
    <2>1. CASE timer[c] = "fired" /\ timer' = [timer EXCEPT ![c] = "off"]
        BY <1>7, <1>h, <2>1 DEF ReplyLost, callVars
    <2>2. CASE UNCHANGED timer
        BY <1>7, <1>a, <2>2 DEF ReplyLost, callVars, Unseen, due
    <2> QED BY <1>7, <2>1, <2>2 DEF ReplyLost
<1>8. ASSUME NEW e \in Events, OnEvent(e, c) PROVE Unseen
    BY <1>8, <1>a DEF OnEvent, callVars, Unseen, due
<1> QED BY <1>1, <1>2, <1>3, <1>4, <1>5, <1>6, <1>7, <1>8 DEF CallNext

\* Every step of the runtime is a step of CallOutcome or a stutter.
LEMMA OutcomeStep == Inv /\ [Next]_vars => [Outcome!OutcomeNext]_(Outcome!outcomeVars)
<1> SUFFICES ASSUME Inv, [Next]_vars PROVE Outcome!OutcomeNext \/ Unseen
    BY UnseenStutters
<1>1. CASE Crash
    <2>1. due' = {} /\ creating' = {} /\ UNCHANGED <<state, part, caller>>
        BY <1>1 DEF Crash, callVars, due
    <2>2. phases' = phases /\ membership' = membership
        BY <2>1 DEF phases, membership, Participants, FindParticipant
    <2>3. Outcome!Die
        BY <2>1, <2>2 DEF Outcome!Die, phases, membership, due
    <2> QED BY <2>3 DEF Outcome!OutcomeNext
<1>2. CASE UNCHANGED vars
    BY <1>2 DEF vars, Unseen, phases, membership, Participants, FindParticipant, due
<1> QED BY <1>1, <1>2, UserOutcome, CallOutcomes DEF Next

\* The runtime implements CallOutcome, on which the bridge to push is built: a
\* call ends once, its timer ends it only while it rings, its handler runs at
\* most once, and nobody drops out of a call.
THEOREM OutcomeRefinement == Spec => ImplementsOutcome
<1> QED BY OutcomeInit, OutcomeStep, Invariance, PTL
        DEF Spec, ImplementsOutcome, Outcome!OutcomeSpec

=============================================================================
