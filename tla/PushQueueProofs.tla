-------------------------- MODULE PushQueueProofs --------------------------
(* Proofs about PushQueue for any number of messages, keys, devices and    *)
(* workers, any number of attempts and any batch size.                     *)
EXTENDS PushQueue, TLAPS

USE NullAssumption, AttemptAssumption, ChurnAssumption, BoundAssumption

-----------------------------------------------------------------------------
(* Operators *)

\* A delivery is named by its message and its device.
LEMMA PairOf ==
    /\ \A m \in Messages, d \in Devices : <<m, d>> \in Deliveries
    /\ \A x \in Deliveries : x[1] \in Messages /\ x[2] \in Devices /\ x = <<x[1], x[2]>>
BY DEF Deliveries

\* The value MarkAccepted, MarkRetrying or MarkFailed writes.
LEMMA RecordedValue ==
    ASSUME NEW o, NEW x
    PROVE  /\ Recorded(o, x) \in {"accepted", "retrying", "failed"}
           /\ Recorded(o, x) = "accepted" <=> o = "accept"
           /\ Recorded(o, x) = "retrying" <=> o = "temporary" /\ ShouldRetry(x)
<1>1. CASE o = "accept"
    BY <1>1 DEF Recorded
<1>2. CASE o = "temporary" /\ ShouldRetry(x)
    BY <1>2 DEF Recorded
<1>3. CASE o # "accept" /\ ~(o = "temporary" /\ ShouldRetry(x))
    <2>1. Recorded(o, x) = "failed"
        BY <1>3 DEF Recorded
    <2> QED BY <1>3, <2>1
<1> QED BY <1>1, <1>2, <1>3

\* Where MarkOutcome goes on: to maybeCompleteMessage unless it retries.
LEMMA AfterOutcomeValue ==
    ASSUME NEW w
    PROVE  /\ Recorded(pc[w], cur[w]) = "retrying" => AfterOutcome(w) = "next"
           /\ Recorded(pc[w], cur[w]) # "retrying" => AfterOutcome(w) = "check"
BY DEF AfterOutcome

-----------------------------------------------------------------------------
(* Type correctness *)

\* Going on keeps the worker's position and delivery in their types.
LEMMA GotoType ==
    ASSUME TypeOK, NEW w \in Workers, NEW p \in {"next", "check", "count", "complete"} \cup Outcomes,
           Goto(w, p)
    PROVE  /\ pc' \in [Workers -> {"next", "check", "count", "complete"} \cup Outcomes]
           /\ cur' \in [Workers -> Deliveries \cup {NoDelivery}]
BY DEF TypeOK, Goto

\* Every step of a Send request keeps every variable in its type.
LEMMA SendType == ASSUME Inv, NEW m \in Messages, SendNext(m) PROVE TypeOK'
<1> USE DEF sendVars, workerVars, bounds
<1>t. TypeOK
    BY DEF Inv
<1>1. ASSUME NEW k \in Keys \cup {NoKey}, NEW wanted \in SUBSET Devices, NEW p \in BOOLEAN,
             SendBegin(m, k, wanted, p)
      PROVE  TypeOK'
    BY <1>t, <1>1 DEF TypeOK, SendBegin
<1>2. CASE SendCommit(m)
    BY <1>t, <1>2 DEF TypeOK, SendCommit
<1>3. ASSUME NEW d \in Devices, CreateDelivery(m, d) PROVE TypeOK'
    <2>1. <<m, d>> \in Deliveries
        BY DEF Deliveries
    <2> QED BY <1>t, <1>3, <2>1 DEF TypeOK, CreateDelivery, Open, Ready
<1>4. CASE MarkQueued(m)
    BY <1>t, <1>4 DEF TypeOK, MarkQueued
<1>5. CASE SendError(m)
    BY <1>t, <1>5 DEF TypeOK, SendError, Fault
<1> QED BY <1>1, <1>2, <1>3, <1>4, <1>5 DEF SendNext

\* Claiming a batch keeps the rows in their types.
LEMMA ClaimType ==
    ASSUME TypeOK, NEW batch \in SUBSET Deliveries, ClaimRows(batch)
    PROVE  /\ dstatus' \in [Deliveries -> {"none"} \cup Open \cup Done]
           /\ attempts' \in [Deliveries -> Nat]
BY DEF TypeOK, ClaimRows, Open

\* Every step of a worker keeps every variable in its type.
LEMMA WorkerType == ASSUME Inv, NEW w \in Workers, WorkerNext(w) PROVE TypeOK'
<1> USE DEF sendVars, workerVars, bounds
<1>t. TypeOK
    BY DEF Inv
<1>1. ASSUME NEW batch \in SUBSET Deliveries, NEW due \in SUBSET Deliveries,
             ClaimReady(w, batch, due) \/ ClaimError(w, batch, due)
      PROVE  TypeOK'
    <2>1. ClaimRows(batch)
        BY <1>1 DEF ClaimReady, ClaimError
    <2>2. /\ dstatus' \in [Deliveries -> {"none"} \cup Open \cup Done]
          /\ attempts' \in [Deliveries -> Nat]
        BY <1>t, <2>1, ClaimType
    <2>3. held' \in [Workers -> SUBSET Deliveries] /\ UNCHANGED <<pc, cur>>
        BY <1>t, <1>1 DEF TypeOK, ClaimReady, ClaimError
    <2>4. faults' \in 0..MaxFaults /\ stops' \in 0..MaxStops
        BY <1>t, <1>1 DEF TypeOK, ClaimReady, ClaimError, Fault
    <2> QED BY <1>t, <2>1, <2>2, <2>3, <2>4 DEF TypeOK, ClaimRows
<1>2. ASSUME NEW x \in Deliveries, LookupFails(w, x) \/ LookupError(w, x) PROVE TypeOK'
    <2>1. /\ dstatus' \in [Deliveries -> {"none"} \cup Open \cup Done]
          /\ held' \in [Workers -> SUBSET Deliveries]
        BY <1>t, <1>2 DEF TypeOK, LookupFails, LookupError, Record, Done
    <2>2. faults' \in 0..MaxFaults /\ stops' \in 0..MaxStops
        BY <1>t, <1>2 DEF TypeOK, LookupFails, LookupError, Fault
    <2> QED BY <1>t, <1>2, <2>1, <2>2 DEF TypeOK, LookupFails, LookupError
<1>3. ASSUME NEW x \in Deliveries, NEW o \in Outcomes, NEW t \in BOOLEAN, Attempt(w, x, o, t)
      PROVE  TypeOK'
    <2>1. pushed' \in [Deliveries -> Nat]
        BY <1>t, <1>3 DEF TypeOK, Attempt
    <2> QED BY <1>t, <1>3, <2>1 DEF TypeOK, Attempt
<1>4. CASE MarkInvalid(w) \/ MarkInvalidError(w)
    <2>1. Goto(w, "permanent") /\ "permanent" \in Outcomes
        BY <1>4 DEF MarkInvalid, MarkInvalidError, Outcomes
    <2>2. device' \in [Devices -> {"active", "invalid", "disabled", "moved"}]
        BY <1>t, <1>4 DEF TypeOK, MarkInvalid, MarkInvalidError
    <2>3. faults' \in 0..MaxFaults /\ stops' \in 0..MaxStops
        BY <1>t, <1>4 DEF TypeOK, MarkInvalid, MarkInvalidError, Fault
    <2> QED BY <1>t, <1>4, <2>1, <2>2, <2>3, GotoType DEF TypeOK, MarkInvalid, MarkInvalidError
<1>5. CASE MarkOutcome(w) \/ MarkOutcomeError(w)
    <2>1. Goto(w, AfterOutcome(w)) /\ AfterOutcome(w) \in {"next", "check"}
        BY <1>5, AfterOutcomeValue DEF MarkOutcome, MarkOutcomeError
    <2>2. Recorded(pc[w], cur[w]) \in {"accepted", "retrying", "failed"}
        BY RecordedValue
    <2>3. /\ dstatus' \in [Deliveries -> {"none"} \cup Open \cup Done]
          /\ held' \in [Workers -> SUBSET Deliveries]
        BY <1>t, <1>5, <2>2 DEF TypeOK, MarkOutcome, MarkOutcomeError, Record, Open, Ready, Done
    <2>4. faults' \in 0..MaxFaults /\ stops' \in 0..MaxStops
        BY <1>t, <1>5 DEF TypeOK, MarkOutcome, MarkOutcomeError, Fault
    <2> QED BY <1>t, <1>5, <2>1, <2>3, <2>4, GotoType DEF TypeOK, MarkOutcome, MarkOutcomeError
<1>6. CASE CheckPending(w) \/ CountByMessage(w) \/ MarkCompleted(w) \/ CompleteError(w)
    <2>1. PICK p \in {"next", "count", "complete"} : Goto(w, p)
        BY <1>6 DEF CheckPending, CountByMessage, MarkCompleted, CompleteError
    <2>2. mstatus' \in [Messages -> {"none", "created", "queued", "completed"}]
        BY <1>t, <1>6 DEF TypeOK, CheckPending, CountByMessage, MarkCompleted, CompleteError
    <2>3. faults' \in 0..MaxFaults /\ stops' \in 0..MaxStops
        BY <1>t, <1>6 DEF TypeOK, CheckPending, CountByMessage, MarkCompleted, CompleteError, Fault
    <2> QED BY <1>t, <1>6, <2>1, <2>2, <2>3, GotoType
            DEF TypeOK, CheckPending, CountByMessage, MarkCompleted, CompleteError
<1>7. CASE Stop(w)
    <2>1. /\ pc' \in [Workers -> {"next", "check", "count", "complete"} \cup Outcomes]
          /\ cur' \in [Workers -> Deliveries \cup {NoDelivery}]
        BY <1>t, <1>7, GotoType DEF Stop
    <2>2. held' \in [Workers -> SUBSET Deliveries] /\ stops' \in 0..MaxStops
        BY <1>t, <1>7 DEF TypeOK, Stop
    <2>3. UNCHANGED <<req, key, targets, bound, mstatus, dstatus, attempts, pushed, device, faults>>
        BY <1>7 DEF Stop
    <2> QED BY <1>t, <2>1, <2>2, <2>3 DEF TypeOK
<1> QED BY <1>1, <1>2, <1>3, <1>4, <1>5, <1>6, <1>7 DEF WorkerNext, Claim, Process

\* Every step of a device keeps every variable in its type.
LEMMA DeviceType == ASSUME Inv, NEW d \in Devices, DeviceNext(d) PROVE TypeOK'
BY DEF Inv, TypeOK, DeviceNext, Register, Unregister, RegisterElsewhere, sendVars, workerVars, bounds

-----------------------------------------------------------------------------
(* The requests *)

\* SendBegin gives an idle request its key and its devices.
LEMMA SendBeginStep ==
    ASSUME Inv, NEW m \in Messages, NEW k \in Keys \cup {NoKey}, NEW wanted \in SUBSET Devices,
           NEW p \in BOOLEAN, SendBegin(m, k, wanted, p), TypeOK'
    PROVE  Inv'
<1> USE DEF workerVars, bounds
<1>t. TypeOK
    BY DEF Inv
<1>i. req[m] = "idle" /\ mstatus[m] = "none"
    BY DEF Inv, Requests, SendBegin
<1>1. SingleOwner' /\ PushesBounded' /\ Positions' /\ Spare'
    BY DEF SendBegin, Inv, SingleOwner, PushesBounded, Positions, Spare
<1>2. SingleTargetCompleted'
    BY <1>t, <1>i DEF SendBegin, Inv, SingleTargetCompleted, TypeOK
<1>3. Requests' /\ Bindings'
    BY <1>t, <1>i DEF SendBegin, Inv, Requests, Bindings, TypeOK
<1>4. Rows'
    BY ZenonT(60), <1>t, <1>i DEF SendBegin, Inv, Rows, TypeOK
<1> QED BY <1>1, <1>2, <1>3, <1>4 DEF Inv

\* SendCommit binds the key, which is free, to the message it persists.
LEMMA SendCommitStep ==
    ASSUME Inv, NEW m \in Messages, SendCommit(m), TypeOK'
    PROVE  Inv'
<1> USE DEF workerVars, bounds
<1>t. TypeOK
    BY DEF Inv
<1>i. req[m] = "inserting" /\ mstatus[m] = "none"
    BY DEF Inv, Requests, SendCommit
<1>1. SingleOwner' /\ PushesBounded' /\ Positions' /\ Spare'
    BY DEF SendCommit, Inv, SingleOwner, PushesBounded, Positions, Spare
<1>2. SingleTargetCompleted' /\ Rows'
    BY <1>t, <1>i DEF SendCommit, Inv, SingleTargetCompleted, Rows, TypeOK
<1>3. Requests'
    BY <1>t, <1>i DEF SendCommit, Inv, Requests, Bindings, TypeOK
<1>4. Bindings'
    BY <1>t, <1>i DEF SendCommit, Inv, Requests, Bindings, TypeOK
<1> QED BY <1>1, <1>2, <1>3, <1>4 DEF Inv

\* CreateDelivery writes a row that was not there: nobody holds it.
LEMMA CreateDeliveryStep ==
    ASSUME Inv, NEW m \in Messages, NEW d \in Devices, CreateDelivery(m, d), TypeOK'
    PROVE  Inv'
<1> USE DEF sendVars, workerVars, bounds
<1>t. TypeOK
    BY DEF Inv
<1>i. /\ <<m, d>> \in Deliveries
      /\ dstatus[<<m, d>>] = "none" /\ d \in targets[m] /\ mstatus[m] # "none"
    BY DEF Inv, Requests, CreateDelivery, Unwritten, Deliveries
<1>1. dstatus' = [dstatus EXCEPT ![<<m, d>>] = "pending"]
    BY DEF CreateDelivery
<1>2. UNCHANGED <<req, key, targets, bound, mstatus, attempts, pushed, pc, held, cur>>
    BY DEF CreateDelivery
<1>n. \A x \in Deliveries : dstatus'[x] = IF x = <<m, d>> THEN "pending" ELSE dstatus[x]
    BY <1>t, <1>i, <1>1 DEF TypeOK
<1>3. SingleOwner'
    BY <1>t, <1>i, <1>1, <1>2 DEF Inv, SingleOwner, TypeOK
<1>4. PushesBounded' /\ Requests' /\ Bindings' /\ Spare'
    BY <1>2 DEF Inv, PushesBounded, Requests, Bindings, Spare
<1>5. SingleTargetCompleted'
    BY <1>i, <1>2, <1>n, PairOf DEF Inv, SingleTargetCompleted, Done
<1>6. Rows'
    BY <1>i, <1>2, <1>n, PairOf DEF Inv, Rows, Ready
<1>7. Positions'
    BY <1>t, <1>i, <1>1, <1>2 DEF Inv, Positions, TypeOK, Done
<1> QED BY <1>3, <1>4, <1>5, <1>6, <1>7 DEF Inv

\* MarkQueued and an error leave everything but the request's progress alone.
LEMMA SendEndStep ==
    ASSUME Inv, NEW m \in Messages, MarkQueued(m) \/ SendError(m), TypeOK'
    PROVE  Inv'
<1> USE DEF sendVars, workerVars, bounds
<1>t. TypeOK
    BY DEF Inv
<1>1. UNCHANGED <<key, targets, bound, dstatus, attempts, pushed, pc, held, cur>>
    BY DEF MarkQueued, SendError
<1>2. SingleOwner' /\ PushesBounded' /\ Positions' /\ Spare'
    BY <1>1 DEF Inv, SingleOwner, PushesBounded, Positions, Spare
<1>3. CASE MarkQueued(m)
    <2>1. mstatus[m] # "none"
        BY <1>3 DEF Inv, Requests, MarkQueued
    <2>2. SingleTargetCompleted' /\ Rows'
        BY <1>t, <1>1, <1>3, <2>1 DEF Inv, MarkQueued, SingleTargetCompleted, Rows, TypeOK
    <2>3. Requests' /\ Bindings'
        BY <1>t, <1>1, <1>3, <2>1 DEF Inv, MarkQueued, Requests, Bindings, TypeOK
    <2> QED BY <1>2, <2>2, <2>3 DEF Inv
<1>4. CASE SendError(m)
    <2>1. UNCHANGED mstatus
        BY <1>4 DEF SendError
    <2>2. SingleTargetCompleted' /\ Rows' /\ Bindings'
        BY <1>1, <2>1 DEF Inv, SingleTargetCompleted, Rows, Bindings
    <2>3. Requests'
        BY <1>t, <1>1, <1>4, <2>1 DEF Inv, SendError, Requests, TypeOK
    <2> QED BY <1>2, <2>2, <2>3 DEF Inv
<1> QED BY <1>3, <1>4

-----------------------------------------------------------------------------
(* The worker *)

\* ClaimReady, and a claim whose rows nobody gets to see, take rows that are in
\* nobody's hands and have an attempt left.
LEMMA ClaimStep ==
    ASSUME Inv, NEW w \in Workers, NEW batch \in SUBSET Deliveries, NEW due \in SUBSET Deliveries,
           ClaimReady(w, batch, due) \/ ClaimError(w, batch, due), TypeOK'
    PROVE  Inv'
<1> USE DEF sendVars, workerVars, bounds
<1>t. TypeOK
    BY DEF Inv
<1>1. /\ pc[w] = "next" /\ held[w] = {} /\ ClaimRows(batch)
      /\ held' = [held EXCEPT ![w] = batch] \/ held' = held
      /\ UNCHANGED <<pc, cur>>
    BY DEF ClaimReady, ClaimError
<1>2. \A x \in batch : x \in Deliveries /\ dstatus[x] \in Ready
    BY DEF ClaimReady, ClaimError, Limited, Claimable, Ready
<1>3. /\ dstatus' = [x \in Deliveries |-> IF x \in batch THEN "sending" ELSE dstatus[x]]
      /\ attempts' = [x \in Deliveries |-> IF x \in batch THEN attempts[x] + 1 ELSE attempts[x]]
      /\ UNCHANGED <<req, key, targets, bound, mstatus, pushed>>
    BY <1>1 DEF ClaimRows
<1>n. \A x \in Deliveries :
          /\ dstatus'[x] = IF x \in batch THEN "sending" ELSE dstatus[x]
          /\ attempts'[x] = IF x \in batch THEN attempts[x] + 1 ELSE attempts[x]
    BY <1>3
<1>4. \A x \in batch : attempts[x] < MaxAttempt
    BY <1>2 DEF Inv, Rows, Deliveries
<1>5. \A x \in batch, v \in Workers : x \notin held[v]
    BY <1>2 DEF Inv, SingleOwner, Ready
<1>6. SingleOwner'
    <2>1. \A v \in Workers : held'[v] = held[v] \/ (v = w /\ held'[v] = batch)
        <3>1. held \in [Workers -> SUBSET Deliveries]
            BY <1>t DEF TypeOK
        <3> QED BY <1>1, <3>1
    <2>2. \A x \in batch : dstatus'[x] = "sending"
        BY <1>2, <1>n
    <2>3. \A v \in Workers : \A x \in held[v] : dstatus'[x] = dstatus[x]
        BY <1>t, <1>n, <1>5 DEF TypeOK
    <2> QED BY <1>5, <2>1, <2>2, <2>3 DEF Inv, SingleOwner
<1>7. PushesBounded'
    BY <1>t, <1>3, <1>4 DEF Inv, PushesBounded, TypeOK
<1>8. Requests' /\ Bindings'
    BY <1>t, <1>3 DEF Inv, Requests, Bindings, TypeOK
<1>9. SingleTargetCompleted'
    BY <1>2, <1>3, <1>n, PairOf DEF Inv, SingleTargetCompleted, Ready, Done
<1>10. Rows'
    BY <1>2, <1>3, <1>n, PairOf DEF Inv, Rows, Ready
<1>11. Positions'
    <2>1. \A v \in Workers : pc[v] # "next" => held'[v] = held[v]
        BY <1>t, <1>1 DEF TypeOK
    <2>2. \A x \in Deliveries : /\ dstatus[x] # "none" => dstatus'[x] # "none"
                               /\ dstatus[x] \in Done => dstatus'[x] \in Done
        BY <1>2, <1>n DEF Ready, Done
    <2> QED BY <1>1, <1>3, <2>1, <2>2 DEF Inv, Positions, Outcomes
<1>12. Spare'
    <2>2. \A x \in Deliveries \ batch, v \in Workers : x \in held'[v] => x \in held[v]
        BY <1>t, <1>1 DEF TypeOK
    <2>3. \A x \in batch : pushed[x] <= attempts[x] /\ pushed[x] \in Nat /\ attempts[x] \in Nat
        BY <1>t DEF Inv, PushesBounded, TypeOK
    <2> QED BY <1>1, <1>3, <1>n, <2>2, <2>3 DEF Inv, Spare
<1> QED BY <1>6, <1>7, <1>8, <1>9, <1>10, <1>11, <1>12 DEF Inv

\* Recording the outcome of a delivery in hand: the row was "sending", so no
\* other worker holds it and no message that counted it is completed.
LEMMA RecordStep ==
    ASSUME Inv, NEW w \in Workers, NEW x \in held[w],
           NEW s, s \in {"accepted", "retrying", "failed"},
           s = "retrying" => attempts[x] < MaxAttempt,
           Record(w, x, s), UNCHANGED <<mstatus, targets, attempts, pushed>>
    PROVE  /\ SingleOwner' /\ SingleTargetCompleted' /\ Rows'
           /\ x \in Deliveries
           /\ dstatus'[x] = s /\ \A y \in Deliveries \ {x} : dstatus'[y] = dstatus[y]
           /\ held'[w] = held[w] \ {x} /\ \A v \in Workers \ {w} : held'[v] = held[v]
<1>t. /\ dstatus \in [Deliveries -> {"none"} \cup Open \cup Done]
      /\ held \in [Workers -> SUBSET Deliveries]
    BY DEF Inv, TypeOK
<1>1. x \in Deliveries /\ dstatus[x] = "sending"
    BY <1>t DEF Inv, SingleOwner
<1>2. dstatus'[x] = s /\ \A y \in Deliveries \ {x} : dstatus'[y] = dstatus[y]
    BY <1>t, <1>1 DEF Record
<1>3. held'[w] = held[w] \ {x} /\ \A v \in Workers \ {w} : held'[v] = held[v]
    BY <1>t DEF Record
<1>4. SingleOwner'
    BY <1>t, <1>1, <1>2, <1>3 DEF Inv, SingleOwner
<1>6. SingleTargetCompleted'
    BY <1>1, <1>2, PairOf DEF Inv, SingleTargetCompleted, Done
<1>7. Rows'
    BY <1>1, <1>2, PairOf DEF Inv, Rows, Ready
<1> QED BY <1>1, <1>2, <1>3, <1>4, <1>6, <1>7

\* A step that leaves the request's tables alone keeps what is said of them.
LEMMA RequestsFrame ==
    ASSUME Inv, UNCHANGED <<req, key, bound, mstatus>> PROVE Requests' /\ Bindings'
BY DEF Inv, Requests, Bindings

\* A step that leaves the rows alone keeps what is said of them.
LEMMA RowsFrame ==
    ASSUME Inv, UNCHANGED <<targets, mstatus, dstatus, attempts>>, UNCHANGED pushed
    PROVE  PushesBounded' /\ SingleTargetCompleted' /\ Rows'
BY DEF Inv, PushesBounded, SingleTargetCompleted, Rows

\* Where a worker's position and delivery are after Goto.
LEMMA GotoValue ==
    ASSUME TypeOK, NEW w \in Workers, NEW p, Goto(w, p)
    PROVE  /\ pc'[w] = p
           /\ cur'[w] = IF p = "next" THEN NoDelivery ELSE cur[w]
           /\ \A v \in Workers \ {w} : pc'[v] = pc[v] /\ cur'[v] = cur[v]
BY DEF TypeOK, Goto

\* A delivery fails because its device cannot be looked up, or stays "sending"
\* because the database cannot be reached at all.
LEMMA LookupStep ==
    ASSUME Inv, NEW w \in Workers, NEW x \in Deliveries, LookupFails(w, x) \/ LookupError(w, x), TypeOK'
    PROVE  Inv'
<1> USE DEF sendVars
<1>1. /\ x \in held[w] /\ pc[w] = "next"
      /\ UNCHANGED <<req, key, targets, bound, mstatus, attempts, pushed, pc, cur>>
    BY DEF LookupFails, LookupError
<1>2. Requests' /\ Bindings' /\ PushesBounded'
    BY <1>1 DEF Inv, Requests, Bindings, PushesBounded
<1>3. /\ SingleOwner' /\ SingleTargetCompleted' /\ Rows'
      /\ \A y \in Deliveries : dstatus'[y] = dstatus[y] \/ (y = x /\ dstatus'[y] = "failed")
      /\ \A v \in Workers : held'[v] = IF v = w THEN held[w] \ {x} ELSE held[v]
    <2>1. CASE LookupFails(w, x)
        <3>1. Record(w, x, "failed")
            BY <2>1 DEF LookupFails
        <3>2. UNCHANGED <<mstatus, targets, attempts, pushed>>
            BY <1>1
        <3>3. /\ SingleOwner' /\ SingleTargetCompleted' /\ Rows'
              /\ dstatus'[x] = "failed" /\ \A y \in Deliveries \ {x} : dstatus'[y] = dstatus[y]
              /\ held'[w] = held[w] \ {x} /\ \A v \in Workers \ {w} : held'[v] = held[v]
            BY <1>1, <3>1, <3>2, RecordStep
        <3> QED BY <3>3
    <2>2. CASE LookupError(w, x)
        <3>1. UNCHANGED dstatus
            BY <2>2 DEF LookupError
        <3>2. \A v \in Workers : held'[v] = IF v = w THEN held[w] \ {x} ELSE held[v]
            BY <2>2 DEF LookupError, Inv, TypeOK
        <3>3. SingleOwner'
            BY <3>1, <3>2 DEF Inv, SingleOwner
        <3> QED BY <1>1, <3>1, <3>2, <3>3, RowsFrame
    <2> QED BY <2>1, <2>2
<1>4. Positions'
    BY <1>1, <1>3 DEF Inv, Positions, Outcomes, Done
<1>5. Spare'
    BY <1>1, <1>3 DEF Inv, Spare
<1> QED BY <1>2, <1>3, <1>4, <1>5 DEF Inv

\* The provider's answer: a push that was taken uses the attempt of its claim.
LEMMA AttemptStep ==
    ASSUME Inv, NEW w \in Workers, NEW x \in Deliveries, NEW o \in Outcomes, NEW took \in BOOLEAN,
           Attempt(w, x, o, took), TypeOK'
    PROVE  Inv'
<1> USE DEF sendVars, bounds
<1>t. TypeOK
    BY DEF Inv
<1>1. /\ x \in held[w] /\ pc[w] = "next"
      /\ UNCHANGED <<req, key, targets, bound, mstatus, dstatus, attempts, held>>
    BY DEF Attempt
<1>2. pushed[x] < attempts[x]
    BY <1>1 DEF Inv, Spare, Outcomes
<1>3. /\ pushed'[x] = IF took THEN pushed[x] + 1 ELSE pushed[x]
      /\ \A y \in Deliveries \ {x} : pushed'[y] = pushed[y]
    BY <1>t DEF TypeOK, Attempt
<1>4. /\ pc'[w] = o /\ cur'[w] = x
      /\ \A v \in Workers \ {w} : pc'[v] = pc[v] /\ cur'[v] = cur[v]
    BY <1>t DEF TypeOK, Attempt
<1>5. \A y \in Deliveries : pushed[y] \in Nat /\ attempts[y] \in Nat
    BY <1>t DEF TypeOK
<1>6. SingleOwner' /\ Requests' /\ Bindings' /\ Rows' /\ SingleTargetCompleted'
    BY <1>1 DEF Inv, SingleOwner, Requests, Bindings, Rows, SingleTargetCompleted
<1>7. PushesBounded'
    BY <1>1, <1>2, <1>3, <1>5 DEF Inv, PushesBounded
<1>8. Positions'
    <2>2. dstatus[x] = "sending"
        BY <1>1 DEF Inv, SingleOwner
    <2> QED BY <1>1, <1>4, <2>2 DEF Inv, Positions, Outcomes
<1>9. Spare'
    <2>1. \A y \in held[w], v \in Workers : y \in held[v] => v = w
        BY DEF Inv, SingleOwner
    <2>2. ASSUME NEW y \in Deliveries, y # x
          PROVE  \/ pushed'[y] < attempts'[y]
                 \/ /\ pushed'[y] = attempts'[y]
                    /\ \A v \in Workers : y \in held'[v] => pc'[v] \in Outcomes /\ cur'[v] = y
        BY <1>1, <1>3, <1>4, <2>1, <2>2 DEF Inv, Spare, Outcomes
    <2>3. \/ pushed'[x] < attempts'[x]
          \/ /\ pushed'[x] = attempts'[x]
             /\ \A v \in Workers : x \in held'[v] => pc'[v] \in Outcomes /\ cur'[v] = x
        BY <1>1, <1>2, <1>3, <1>4, <1>5, <2>1
    <2> QED BY <2>2, <2>3 DEF Spare
<1> QED BY <1>6, <1>7, <1>8, <1>9 DEF Inv

\* Marking the device does not touch the delivery.
LEMMA MarkInvalidStep ==
    ASSUME Inv, NEW w \in Workers, MarkInvalid(w) \/ MarkInvalidError(w), TypeOK'
    PROVE  Inv'
<1> USE DEF sendVars, bounds
<1>1. /\ pc[w] = "invalid" /\ Goto(w, "permanent")
      /\ UNCHANGED <<req, key, targets, bound, mstatus, dstatus, attempts, pushed, held>>
    BY DEF MarkInvalid, MarkInvalidError
<1>2. /\ pc'[w] = "permanent"
      /\ \A v \in Workers : cur'[v] = cur[v] /\ (v # w => pc'[v] = pc[v])
    BY <1>1, GotoValue DEF Inv
<1>3. SingleOwner' /\ Requests' /\ Bindings'
    BY <1>1 DEF Inv, SingleOwner, Requests, Bindings
<1>4. Positions' /\ Spare'
    BY <1>1, <1>2 DEF Inv, Positions, Spare, Outcomes
<1> QED BY <1>1, <1>3, <1>4, RowsFrame DEF Inv

\* The outcome is recorded, or is lost with the UPDATE that failed: the worker
\* lets go of the delivery either way.
LEMMA OutcomeStep ==
    ASSUME Inv, NEW w \in Workers, MarkOutcome(w) \/ MarkOutcomeError(w), TypeOK'
    PROVE  Inv'
<1> USE DEF sendVars, bounds
<1>t. TypeOK
    BY DEF Inv
<1>1. /\ pc[w] \in {"accept", "temporary", "permanent"} /\ Goto(w, AfterOutcome(w))
      /\ UNCHANGED <<req, key, targets, bound, mstatus, attempts, pushed>>
    BY DEF MarkOutcome, MarkOutcomeError
<1>2. PICK x \in held[w] : x = cur[w] /\ x \in Deliveries /\ dstatus[x] # "none"
    BY <1>1 DEF Inv, Positions, Outcomes
<1>3. PICK s \in {"accepted", "retrying", "failed"} :
          /\ s = Recorded(pc[w], cur[w])
          /\ s = "retrying" => attempts[x] < MaxAttempt
    BY <1>2, RecordedValue DEF ShouldRetry
<1>4. /\ pc'[w] \in {"next", "check"}
      /\ cur'[w] = IF pc'[w] = "next" THEN NoDelivery ELSE x
      /\ \A v \in Workers \ {w} : pc'[v] = pc[v] /\ cur'[v] = cur[v]
    BY <1>t, <1>1, <1>2, GotoValue, AfterOutcomeValue
<1>5. /\ SingleOwner' /\ SingleTargetCompleted' /\ Rows'
      /\ \A y \in Deliveries : dstatus'[y] = dstatus[y] \/ (y = x /\ dstatus'[y] = s)
      /\ \A v \in Workers : held'[v] = IF v = w THEN held[w] \ {x} ELSE held[v]
    <2>1. CASE MarkOutcome(w)
        <3>1. Record(w, x, s)
            BY <1>2, <1>3, <2>1 DEF MarkOutcome
        <3>2. UNCHANGED <<mstatus, targets, attempts, pushed>>
            BY <1>1
        <3>3. /\ SingleOwner' /\ SingleTargetCompleted' /\ Rows'
              /\ dstatus'[x] = s /\ \A y \in Deliveries \ {x} : dstatus'[y] = dstatus[y]
              /\ held'[w] = held[w] \ {x} /\ \A v \in Workers \ {w} : held'[v] = held[v]
            BY <1>2, <1>3, <3>1, <3>2, RecordStep
        <3> QED BY <3>3
    <2>2. CASE MarkOutcomeError(w)
        <3>1. UNCHANGED dstatus
            BY <2>2 DEF MarkOutcomeError
        <3>2. \A v \in Workers : held'[v] = IF v = w THEN held[w] \ {x} ELSE held[v]
            BY <1>t, <1>2, <2>2 DEF MarkOutcomeError, TypeOK
        <3>3. SingleOwner'
            BY <3>1, <3>2 DEF Inv, SingleOwner
        <3> QED BY <1>1, <3>1, <3>2, <3>3, RowsFrame
    <2> QED BY <2>1, <2>2
<1>6. Requests' /\ Bindings' /\ PushesBounded'
    BY <1>1 DEF Inv, Requests, Bindings, PushesBounded
<1>7. \A v \in Workers \ {w} : x \notin held[v]
    BY <1>2 DEF Inv, SingleOwner
<1>8. Positions'
    <2>1. \A v \in Workers : pc[v] \in {"count", "complete"} => cur[v] # x
        BY <1>2 DEF Inv, Positions, SingleOwner, Done
    <2>2. \A y \in Deliveries : dstatus[y] # "none" => dstatus'[y] # "none"
        BY <1>3, <1>5
    <2> QED BY <1>1, <1>2, <1>4, <1>5, <2>1, <2>2 DEF Inv, Positions, Outcomes
<1>9. Spare'
    BY <1>1, <1>2, <1>4, <1>5, <1>7 DEF Inv, Spare
<1> QED BY <1>5, <1>6, <1>8, <1>9 DEF Inv

\* maybeCompleteMessage: between its statements the delivery it was called for
\* stays terminal, since nobody claims a terminal row.
LEMMA CompleteStep ==
    ASSUME Inv, NEW w \in Workers,
           CheckPending(w) \/ CountByMessage(w) \/ MarkCompleted(w) \/ CompleteError(w), TypeOK'
    PROVE  Inv'
<1> USE DEF sendVars, bounds
<1> DEFINE m == cur[w][1]
           d == cur[w][2]
<1>t. TypeOK
    BY DEF Inv
<1>1. /\ pc[w] \in {"check", "count", "complete"}
      /\ UNCHANGED <<req, key, targets, bound, dstatus, attempts, pushed, held>>
    BY DEF CheckPending, CountByMessage, MarkCompleted, CompleteError
<1>2. /\ cur[w] \in Deliveries /\ dstatus[cur[w]] # "none"
      /\ m \in Messages /\ d \in Devices /\ cur[w] = <<m, d>>
    BY <1>1, PairOf DEF Inv, Positions
<1>3. mstatus[m] # "none" /\ d \in targets[m]
    BY <1>2 DEF Inv, Rows
<1>4. PICK p \in {"next", "count", "complete"} :
          /\ Goto(w, p)
          /\ p = "count" => ~HasPending(m)
          /\ p = "complete" => AllCounted(m)
    BY DEF CheckPending, CountByMessage, MarkCompleted, CompleteError
<1> HIDE DEF m, d
<1>5. p \in {"count", "complete"} => dstatus[cur[w]] \in Done
    <2>1. dstatus[<<m, d>>] \in {"none"} \cup Open \cup Done
        BY <1>t, <1>2 DEF TypeOK
    <2> QED BY <1>2, <1>4, <2>1 DEF HasPending, AllCounted
<1>6. /\ pc'[w] = p
      /\ p # "next" => cur'[w] = cur[w]
      /\ \A v \in Workers \ {w} : pc'[v] = pc[v] /\ cur'[v] = cur[v]
    BY <1>t, <1>4, GotoValue
<1>7. Positions' /\ Spare'
    BY <1>1, <1>2, <1>5, <1>6 DEF Inv, Positions, Spare, Outcomes
<1>8. SingleOwner' /\ PushesBounded'
    BY <1>1 DEF Inv, SingleOwner, PushesBounded
<1>9. Requests' /\ Bindings' /\ Rows' /\ SingleTargetCompleted'
    <2>1. CASE UNCHANGED mstatus
        BY <1>1, <2>1, RequestsFrame, RowsFrame
    <2>2. CASE MarkCompleted(w)
        <3>1. \A n \in Messages : mstatus'[n] = IF n = m THEN "completed" ELSE mstatus[n]
            BY <1>t, <1>2, <2>2 DEF MarkCompleted, TypeOK, m
        <3>2. dstatus[<<m, d>>] \in Done
            BY <1>2, <2>2 DEF MarkCompleted, Inv, Positions
        <3>3. Requests' /\ Bindings'
            BY <1>t, <1>1, <1>3, <3>1 DEF Inv, Requests, Bindings, TypeOK
        <3>4. Rows' /\ SingleTargetCompleted'
            BY <1>1, <1>2, <1>3, <3>1, <3>2 DEF Inv, Rows, SingleTargetCompleted
        <3> QED BY <3>3, <3>4
    <2> QED BY <2>1, <2>2 DEF CheckPending, CountByMessage, CompleteError
<1> QED BY <1>7, <1>8, <1>9 DEF Inv

\* A stop or a crash: what the worker held stays "sending".
LEMMA StopStep ==
    ASSUME Inv, NEW w \in Workers, Stop(w), TypeOK'
    PROVE  Inv'
<1> USE DEF sendVars, bounds
<1>t. TypeOK
    BY DEF Inv
<1>1. UNCHANGED <<req, key, targets, bound, mstatus, dstatus, attempts, pushed>>
    BY DEF Stop
<1>2. /\ pc'[w] = "next"
      /\ \A v \in Workers \ {w} : pc'[v] = pc[v] /\ cur'[v] = cur[v]
    BY <1>t, GotoValue DEF Stop
<1>3. \A v \in Workers : held'[v] = IF v = w THEN {} ELSE held[v]
    BY <1>t DEF Stop, TypeOK
<1>4. SingleOwner' /\ Positions' /\ Spare'
    BY <1>1, <1>2, <1>3 DEF Inv, SingleOwner, Positions, Spare, Outcomes
<1> QED BY <1>1, <1>4, RequestsFrame, RowsFrame DEF Inv

-----------------------------------------------------------------------------
(* The inductive invariant *)

LEMMA InitInv == Init => Inv
<1> SUFFICES ASSUME Init PROVE Inv
    OBVIOUS
<1>1. TypeOK
    BY DEF Init, TypeOK
<1>2. SingleOwner /\ PushesBounded /\ Positions /\ Spare
    BY DEF Init, SingleOwner, PushesBounded, Positions, Spare, Outcomes
<1>3. SingleTargetCompleted /\ Requests /\ Bindings
    BY DEF Init, SingleTargetCompleted, Requests, Bindings
<1>4. Rows
    <2>1. \A x \in Deliveries : dstatus[x] = "none" /\ attempts[x] = 0
        BY DEF Init
    <2>2. 0 < MaxAttempt
        OBVIOUS
    <2>3. \A m \in Messages, d \in Devices : dstatus[<<m, d>>] = "none" /\ attempts[<<m, d>>] = 0
        BY <2>1, PairOf
    <2> QED BY <2>2, <2>3 DEF Rows
<1> QED BY <1>1, <1>2, <1>3, <1>4 DEF Inv

LEMMA NextInv == Inv /\ [Next]_vars => Inv'
<1> SUFFICES ASSUME Inv, [Next]_vars PROVE Inv'
    OBVIOUS
<1>1. ASSUME NEW m \in Messages, SendNext(m) PROVE Inv'
    <2>t. TypeOK'
        BY <1>1, SendType
    <2> QED BY <1>1, <2>t, SendBeginStep, SendCommitStep, CreateDeliveryStep, SendEndStep DEF SendNext
<1>2. ASSUME NEW w \in Workers, WorkerNext(w) PROVE Inv'
    <2>t. TypeOK'
        BY <1>2, WorkerType
    <2> QED BY <1>2, <2>t, ClaimStep, LookupStep, AttemptStep, MarkInvalidStep, OutcomeStep,
               CompleteStep, StopStep
            DEF WorkerNext, Claim, Process
<1>3. ASSUME NEW d \in Devices, DeviceNext(d) PROVE Inv'
    <2>t. TypeOK'
        BY <1>3, DeviceType
    <2>1. UNCHANGED <<req, key, targets, bound, mstatus, dstatus, attempts, pushed, pc, held, cur>>
        BY <1>3 DEF DeviceNext, Register, Unregister, RegisterElsewhere, sendVars, workerVars
    <2>2. SingleOwner' /\ Positions' /\ Spare'
        BY <2>1 DEF Inv, SingleOwner, Positions, Spare
    <2> QED BY <2>t, <2>1, <2>2, RequestsFrame, RowsFrame DEF Inv
<1>4. CASE UNCHANGED vars
    <2>1. TypeOK'
        BY <1>4 DEF Inv, vars, TypeOK
    <2>2. SingleOwner' /\ Positions' /\ Spare'
        BY <1>4 DEF Inv, vars, SingleOwner, Positions, Spare
    <2> QED BY <1>4, <2>1, <2>2, RequestsFrame, RowsFrame DEF Inv, vars
<1> QED BY <1>1, <1>2, <1>3, <1>4 DEF Next

-----------------------------------------------------------------------------
(* Safety *)

\* Inv holds in every behaviour: what the workers hold, what the rows and the
\* requests have recorded and the attempts that are left fit together.
THEOREM Invariance == Spec => []Inv
BY InitInv, NextInv, PTL DEF Spec

\* All variables of the queue keep their types: statuses, counters, positions.
THEOREM TypeCorrect == Spec => []TypeOK
<1>1. Inv => TypeOK
    BY DEF Inv
<1> QED BY <1>1, Invariance, PTL

\* ClaimReady gives a delivery to one worker, and it stays "sending" until that
\* worker records its outcome: for any number of workers, stops and failures.
THEOREM Ownership == Spec => []SingleOwner
<1>1. Inv => SingleOwner
    BY DEF Inv
<1> QED BY <1>1, Invariance, PTL

\* A device is pushed at most once per claim, and claimed at most maxAttempt
\* times per message.
THEOREM Bounded == Spec => []PushesBounded
<1>1. Inv => PushesBounded
    BY DEF Inv
<1> QED BY <1>1, Invariance, PTL

\* Of the requests with one idempotency key at most one persists its message.
THEOREM Idempotency == Spec => []OneMessagePerKey
<1>1. Inv => OneMessagePerKey
    BY DEF Inv, TypeOK, Requests, OneMessagePerKey
<1> QED BY <1>1, Invariance, PTL

\* maybeCompleteMessage completes a message for one device only when its delivery
\* has ended.
THEOREM Completion == Spec => []SingleTargetCompleted
<1>1. Inv => SingleTargetCompleted
    BY DEF Inv
<1> QED BY <1>1, Invariance, PTL

-----------------------------------------------------------------------------
(* The queue implements PushDelivery *)

\* The fates of all deliveries, as the refinement maps them.
fates == [x \in Deliveries |-> Fate(dstatus[x])]

\* Writing one row changes one fate.
LEMMA FateStep ==
    ASSUME NEW x \in Deliveries, NEW s, dstatus'[x] = s,
           \A y \in Deliveries \ {x} : dstatus'[y] = dstatus[y]
    PROVE  fates' = [fates EXCEPT ![x] = Fate(s)]
BY DEF fates

\* A step that leaves every fate and every push alone.
LEMMA FateFrame ==
    ASSUME \A x \in Deliveries : Fate(dstatus'[x]) = Fate(dstatus[x])
    PROVE  fates' = fates
BY DEF fates

\* Every step of the queue is a step of the abstract delivery or leaves it alone:
\* CreateDelivery queues it, a push that is taken is a push, MarkAccepted accepts
\* it, and MarkFailed abandons it.
LEMMA DeliveryStep == Inv /\ [Next]_vars => [Delivery!Next]_(Delivery!vars)
<1> SUFFICES ASSUME Inv, [Next]_vars PROVE [Delivery!Next]_(Delivery!vars)
    OBVIOUS
<1> USE DEF sendVars, workerVars, bounds
<1>t. TypeOK
    BY DEF Inv
<1>f. \A x \in Deliveries : fates[x] = Fate(dstatus[x])
    BY DEF fates
<1>s. ASSUME fates' = fates, UNCHANGED pushed PROVE UNCHANGED Delivery!vars
    BY <1>s DEF fates, Delivery!vars
<1>q. ASSUME NEW x \in Deliveries,
             \/ Fate(dstatus[x]) = "none" /\ fates' = [fates EXCEPT ![x] = "open"] /\ UNCHANGED pushed
             \/ /\ Fate(dstatus[x]) = "open" /\ pushed[x] < MaxAttempt
                /\ pushed' = [pushed EXCEPT ![x] = @ + 1] /\ fates' = fates
             \/ Fate(dstatus[x]) = "open" /\ fates' = [fates EXCEPT ![x] = "accepted"] /\ UNCHANGED pushed
             \/ Fate(dstatus[x]) = "open" /\ fates' = [fates EXCEPT ![x] = "failed"] /\ UNCHANGED pushed
      PROVE  Delivery!Next
    <2>1. Delivery!Queue(x) \/ Delivery!Push(x) \/ Delivery!Accept(x) \/ Delivery!Abandon(x)
        BY <1>q, <1>f DEF Delivery!Queue, Delivery!Push, Delivery!Accept, Delivery!Abandon, fates
    <2> QED BY <2>1 DEF Delivery!Next
<1>1. ASSUME NEW m \in Messages, SendNext(m) PROVE [Delivery!Next]_(Delivery!vars)
    <2>1. CASE \E d \in Devices : CreateDelivery(m, d)
        <3>1. PICK d \in Devices : CreateDelivery(m, d)
            BY <2>1
        <3>2. PICK x \in Deliveries : x = <<m, d>>
            BY PairOf
        <3>3. /\ dstatus[x] = "none" /\ dstatus'[x] = "pending"
              /\ \A y \in Deliveries \ {x} : dstatus'[y] = dstatus[y]
              /\ UNCHANGED pushed
            BY <1>t, <3>1, <3>2 DEF CreateDelivery, Unwritten, TypeOK
        <3>4. Fate(dstatus[x]) = "none" /\ Fate("pending") = "open"
            BY <3>3 DEF Fate, Open, Ready
        <3>5. fates' = [fates EXCEPT ![x] = "open"]
            BY <3>3, <3>4, FateStep
        <3> QED BY <1>q, <3>3, <3>4, <3>5
    <2>2. CASE ~\E d \in Devices : CreateDelivery(m, d)
        <3>1. UNCHANGED <<dstatus, pushed>>
            BY <1>1, <2>2 DEF SendNext, SendBegin, SendCommit, MarkQueued, SendError
        <3> QED BY <1>s, <3>1 DEF fates
    <2> QED BY <2>1, <2>2
<1>2. ASSUME NEW w \in Workers, WorkerNext(w) PROVE [Delivery!Next]_(Delivery!vars)
    <2>1. ASSUME NEW batch \in SUBSET Deliveries, NEW due \in SUBSET Deliveries,
                 ClaimReady(w, batch, due) \/ ClaimError(w, batch, due)
          PROVE  [Delivery!Next]_(Delivery!vars)
        <3>1. /\ \A x \in batch : x \in Deliveries /\ dstatus[x] \in Ready
              /\ UNCHANGED pushed
              /\ dstatus' = [x \in Deliveries |-> IF x \in batch THEN "sending" ELSE dstatus[x]]
            BY <2>1 DEF ClaimReady, ClaimError, ClaimRows, Limited, Claimable, Ready
        <3>2. \A x \in Deliveries : Fate(dstatus'[x]) = Fate(dstatus[x])
            BY <3>1 DEF Fate, Open
        <3> QED BY <1>s, <3>1, <3>2, FateFrame
    <2>2. ASSUME NEW x \in held[w], NEW s \in {"accepted", "retrying", "failed"},
                 Record(w, x, s), UNCHANGED pushed
          PROVE  [Delivery!Next]_(Delivery!vars)
        <3>1. x \in Deliveries /\ dstatus[x] = "sending"
            BY <1>t DEF TypeOK, Inv, SingleOwner
        <3>2. dstatus'[x] = s /\ \A y \in Deliveries \ {x} : dstatus'[y] = dstatus[y]
            BY <1>t, <2>2, <3>1 DEF TypeOK, Record
        <3>3. /\ Fate(dstatus[x]) = "open" /\ Fate("retrying") = "open"
              /\ Fate("accepted") = "accepted" /\ Fate("failed") = "failed"
            BY <3>1 DEF Fate, Open, Ready
        <3>4. CASE s = "accepted"
            <4>1. fates' = [fates EXCEPT ![x] = "accepted"]
                BY <3>1, <3>2, <3>3, <3>4, FateStep
            <4> QED BY <1>q, <2>2, <3>1, <3>3, <3>4, <4>1
        <3>5. CASE s = "failed"
            <4>1. fates' = [fates EXCEPT ![x] = "failed"]
                BY <3>1, <3>2, <3>3, <3>5, FateStep
            <4> QED BY <1>q, <2>2, <3>1, <3>3, <4>1
        <3>6. CASE s = "retrying"
            <4>1. \A y \in Deliveries : Fate(dstatus'[y]) = Fate(dstatus[y])
                BY <3>1, <3>2, <3>3, <3>6
            <4> QED BY <1>s, <2>2, <4>1, FateFrame
        <3> QED BY <2>2, <3>4, <3>5, <3>6
    <2>3. ASSUME NEW x \in Deliveries, LookupFails(w, x) PROVE [Delivery!Next]_(Delivery!vars)
        BY <2>2, <2>3 DEF LookupFails
    <2>4. ASSUME NEW x \in Deliveries, NEW o \in Outcomes, NEW took \in BOOLEAN,
                 Attempt(w, x, o, took)
          PROVE  [Delivery!Next]_(Delivery!vars)
        <3>1. x \in held[w] /\ pc[w] = "next" /\ UNCHANGED dstatus
            BY <2>4 DEF Attempt
        <3>2. dstatus[x] = "sending" /\ pushed[x] < attempts[x] /\ attempts[x] <= MaxAttempt
            BY <3>1 DEF Inv, SingleOwner, Spare, PushesBounded, Outcomes
        <3>3. pushed[x] < MaxAttempt
            BY <1>t, <3>2 DEF TypeOK
        <3>4. Fate(dstatus[x]) = "open" /\ fates' = fates
            BY <3>1, <3>2 DEF Fate, Open, fates
        <3>5. CASE took
            BY <1>q, <2>4, <3>3, <3>4, <3>5 DEF Attempt
        <3>6. CASE ~took
            BY <1>s, <2>4, <3>4, <3>6 DEF Attempt
        <3> QED BY <3>5, <3>6
    <2>5. CASE MarkOutcome(w)
        <3>1. /\ pc[w] \in {"accept", "temporary", "permanent"} /\ UNCHANGED pushed
              /\ Record(w, cur[w], Recorded(pc[w], cur[w]))
            BY <2>5 DEF MarkOutcome
        <3>2. PICK x \in held[w] : x = cur[w]
            BY <3>1 DEF Inv, Positions, Outcomes
        <3>3. PICK s \in {"accepted", "retrying", "failed"} :
                  s = Recorded(pc[w], cur[w])
            BY <3>2, RecordedValue
        <3> QED BY <2>2, <3>1, <3>2, <3>3
    <2>6. CASE \/ \E x \in Deliveries : LookupError(w, x)
               \/ MarkInvalid(w) \/ MarkInvalidError(w) \/ MarkOutcomeError(w)
               \/ CheckPending(w) \/ CountByMessage(w) \/ MarkCompleted(w) \/ CompleteError(w) \/ Stop(w)
        <3>1. UNCHANGED <<dstatus, pushed>>
            BY <2>6 DEF LookupError, MarkInvalid, MarkInvalidError, MarkOutcomeError, CheckPending,
                        CountByMessage, MarkCompleted, CompleteError, Stop
        <3> QED BY <1>s, <3>1 DEF fates
    <2> QED BY <1>2, <2>1, <2>3, <2>4, <2>5, <2>6 DEF WorkerNext, Claim, Process
<1>3. CASE (\E d \in Devices : DeviceNext(d)) \/ UNCHANGED vars
    <2>1. UNCHANGED <<dstatus, pushed>>
        BY <1>3 DEF DeviceNext, Register, Unregister, RegisterElsewhere, vars
    <2> QED BY <1>s, <2>1 DEF fates
<1> QED BY <1>1, <1>2, <1>3 DEF Next

\* The queue implements the abstract delivery: opened once, pushed only
\* while it is open and at most maxAttempt times, and final.
THEOREM Refinement == Spec => ImplementsDelivery
<1>1. Init => Delivery!Init
    BY DEF Init, Delivery!Init, Fate, Open, Ready
<1> QED BY <1>1, DeliveryStep, Invariance, PTL DEF Spec, Delivery!Spec, ImplementsDelivery

=============================================================================
