----------------------------- MODULE PushQueue -----------------------------
(***************************************************************************)
(* The push pipeline of the realtime server: MessageService.Send           *)
(* (internal/service/message.go) writes a message and its deliveries to    *)
(* PostgreSQL, workers (internal/queue/worker.go) claim the deliveries,    *)
(* call the provider and record the outcome, and devices come and go       *)
(* meanwhile (internal/repository).                                        *)
(*                                                                         *)
(* Every SQL statement, or transaction, is one step; what a request or a   *)
(* worker keeps between two statements is in its local variables.  There   *)
(* is one delivery per message and device, <<m, d>>, because               *)
(* resolveDevices removes duplicates.  Payloads, error codes and times are *)
(* left out: a delivery that waits for its retry may be due at any time.   *)
(* Which answers count as accepted is in ProviderSend.                     *)
(***************************************************************************)
EXTENDS Integers, FiniteSets

CONSTANTS
    Messages,    \* message ids the server may generate, one per Send request
    Keys,        \* idempotency keys of one app
    Devices,     \* device rows
    Workers,     \* worker processes on the same database
    NoKey,       \* a request without Idempotency-Key
    NoMsg,       \* a key that is bound to no message
    NoDelivery,  \* a worker that processes nothing
    MaxAttempt,  \* Worker.maxAttempt
    BatchSize,   \* Worker.batchSize
    Churn,       \* whether device rows change while messages are sent
    MaxFaults,   \* bound on failed statements and interrupted requests
    MaxStops     \* bound on worker shutdowns and crashes

ASSUME NullAssumption == NoKey \notin Keys /\ NoMsg \notin Messages /\ NoDelivery \notin Messages \X Devices
ASSUME AttemptAssumption == MaxAttempt \in Nat \ {0} /\ BatchSize \in Nat \ {0}
ASSUME ChurnAssumption == Churn \in BOOLEAN
ASSUME BoundAssumption == MaxFaults \in Nat /\ MaxStops \in Nat

VARIABLES
    req,         \* req[m]: how far the Send request of m is
    key,         \* key[m]: its idempotency key
    targets,     \* targets[m]: the devices it resolved
    bound,       \* idempotency_keys: bound[k] is the message of key k
    mstatus,     \* push_messages.status
    dstatus,     \* push_deliveries.status
    attempts,    \* push_deliveries.attempts
    pushed,      \* how often the provider has taken the delivery
    device,      \* devices.status, or "moved": the row is now another app's
    pc,          \* pc[w]: what worker w does next
    held,        \* held[w]: claimed deliveries whose outcome w has not recorded
    cur,         \* cur[w]: the delivery w processes
    faults, stops

sendVars == <<req, key, targets, bound>>
workerVars == <<pc, held, cur>>
bounds == <<faults, stops>>
vars == <<req, key, targets, bound, mstatus, dstatus, attempts, pushed, device,
          pc, held, cur, faults, stops>>

-----------------------------------------------------------------------------
(* Types *)

Deliveries == Messages \X Devices
Ready == {"pending", "retrying"}
Open == Ready \cup {"sending"}
Done == {"accepted", "failed"}
Outcomes == {"accept", "temporary", "permanent", "invalid"}

TypeOK ==
    /\ req \in [Messages -> {"idle", "inserting", "enqueuing", "done", "duplicate", "error"}]
    /\ key \in [Messages -> Keys \cup {NoKey}]
    /\ targets \in [Messages -> SUBSET Devices]
    /\ bound \in [Keys -> Messages \cup {NoMsg}]
    /\ mstatus \in [Messages -> {"none", "created", "queued", "completed"}]
    /\ dstatus \in [Deliveries -> {"none"} \cup Open \cup Done]
    /\ attempts \in [Deliveries -> Nat]
    /\ pushed \in [Deliveries -> Nat]
    /\ device \in [Devices -> {"active", "invalid", "disabled", "moved"}]
    /\ pc \in [Workers -> {"next", "check", "count", "complete"} \cup Outcomes]
    /\ held \in [Workers -> SUBSET Deliveries]
    /\ cur \in [Workers -> Deliveries \cup {NoDelivery}]
    /\ faults \in 0..MaxFaults
    /\ stops \in 0..MaxStops

Fault == /\ faults < MaxFaults
         /\ faults' = faults + 1
         /\ UNCHANGED stops

Init ==
    /\ req = [m \in Messages |-> "idle"]
    /\ key = [m \in Messages |-> NoKey]
    /\ targets = [m \in Messages |-> {}]
    /\ bound = [k \in Keys |-> NoMsg]
    /\ mstatus = [m \in Messages |-> "none"]
    /\ dstatus = [x \in Deliveries |-> "none"]
    /\ attempts = [x \in Deliveries |-> 0]
    /\ pushed = [x \in Deliveries |-> 0]
    /\ device = [d \in Devices |-> "active"]
    /\ pc = [w \in Workers |-> "next"]
    /\ held = [w \in Workers |-> {}]
    /\ cur = [w \in Workers |-> NoDelivery]
    /\ faults = 0
    /\ stops = 0

-----------------------------------------------------------------------------
(* MessageService.Send *)

\* Send resolves the active devices of its targets; without any it refuses,
\* unless the request names a provider.  With a key it then opens the
\* transaction of CreateWithMessageAndIdempotency, whose look-up answers for a
\* key that is bound already.
SendBegin(m, k, wanted, provider) ==
    LET found == {d \in wanted : device[d] = "active"} IN
    /\ req[m] = "idle"
    /\ found # {} \/ provider
    /\ key' = [key EXCEPT ![m] = k]
    /\ targets' = [targets EXCEPT ![m] = found]
    /\ req' = [req EXCEPT ![m] =
                   IF k # NoKey /\ bound[k] # NoMsg THEN "duplicate" ELSE "inserting"]
    /\ UNCHANGED <<bound, mstatus, dstatus, attempts, pushed, device, workerVars, bounds>>

\* Mutant: the look-up is trusted, a second insert takes the key over.
SendCommit_NoConstraint(m) ==
    /\ req[m] = "inserting"
    /\ mstatus' = [mstatus EXCEPT ![m] = "created"]
    /\ req' = [req EXCEPT ![m] = "enqueuing"]
    /\ bound' = [k \in Keys |-> IF k = key[m] THEN m ELSE bound[k]]
    /\ UNCHANGED <<key, targets, dstatus, attempts, pushed, device, workerVars, bounds>>

\* The inserts and the commit.  The primary key of idempotency_keys makes a
\* concurrent transaction that lost roll back and answer with the winner's id.
SendCommit(m) ==
    /\ req[m] = "inserting"
    /\ IF key[m] # NoKey /\ bound[key[m]] # NoMsg
       THEN /\ req' = [req EXCEPT ![m] = "duplicate"]
            /\ UNCHANGED <<bound, mstatus>>
       ELSE /\ mstatus' = [mstatus EXCEPT ![m] = "created"]
            /\ bound' = [k \in Keys |-> IF k = key[m] THEN m ELSE bound[k]]
            /\ req' = [req EXCEPT ![m] = "enqueuing"]
    /\ UNCHANGED <<key, targets, dstatus, attempts, pushed, device, workerVars, bounds>>

Unwritten(m) == {d \in targets[m] : dstatus[<<m, d>>] = "none"}

\* One INSERT of CreateMany, which runs outside a transaction.
CreateDelivery(m, d) ==
    /\ req[m] = "enqueuing"
    /\ d \in Unwritten(m)
    /\ dstatus' = [dstatus EXCEPT ![<<m, d>>] = "pending"]
    /\ UNCHANGED <<sendVars, mstatus, attempts, pushed, device, workerVars, bounds>>

\* MarkQueued: an UPDATE that does not look at the status it replaces.
MarkQueued(m) ==
    /\ req[m] = "enqueuing"
    /\ Unwritten(m) = {}
    /\ mstatus' = [mstatus EXCEPT ![m] = "queued"]
    /\ req' = [req EXCEPT ![m] = "done"]
    /\ UNCHANGED <<key, targets, bound, dstatus, attempts, pushed, device, workerVars, bounds>>

\* A statement fails, the client goes away or the process dies: Send returns
\* an error and what it has written so far stays.
SendError(m) ==
    /\ req[m] \in {"inserting", "enqueuing"}
    /\ Fault
    /\ req' = [req EXCEPT ![m] = "error"]
    /\ UNCHANGED <<key, targets, bound, mstatus, dstatus, attempts, pushed, device, workerVars>>

-----------------------------------------------------------------------------
(* The worker: claiming *)

\* Mutants: rows that are being sent are claimed again; retries are forgotten.
Claimable_Sending(due) == {x \in Deliveries : dstatus[x] \in {"pending", "sending"} \/ x \in due}
Claimable_PendingOnly(due) == {x \in Deliveries : dstatus[x] = "pending"}

\* The rows the SELECT finds: pending ones have no next_retry_at, of the
\* retrying ones those in due have reached theirs.
Claimable(due) ==
    {x \in Deliveries : dstatus[x] = "pending" \/ (dstatus[x] = "retrying" /\ x \in due)}

\* ClaimReady's UPDATE of the rows in batch.
ClaimRows(batch) ==
    /\ dstatus' = [x \in Deliveries |-> IF x \in batch THEN "sending" ELSE dstatus[x]]
    /\ attempts' = [x \in Deliveries |-> IF x \in batch THEN attempts[x] + 1 ELSE attempts[x]]
    /\ UNCHANGED <<sendVars, mstatus, pushed, device>>

\* LIMIT: the whole of the ready rows or batchSize of them.
Limited(batch, due) ==
    /\ batch # {}
    /\ batch \subseteq Claimable(due)
    /\ Cardinality(batch) <= BatchSize
    /\ Cardinality(batch) < BatchSize => batch = Claimable(due)

\* tick claims a batch when the last one is processed.
ClaimReady(w, batch, due) ==
    /\ pc[w] = "next"
    /\ held[w] = {}
    /\ Limited(batch, due)
    /\ ClaimRows(batch)
    /\ held' = [held EXCEPT ![w] = batch]
    /\ UNCHANGED <<pc, cur, bounds>>

\* The UPDATE is done but reading its rows fails: tick returns the error.
ClaimError(w, batch, due) ==
    /\ pc[w] = "next"
    /\ held[w] = {}
    /\ Limited(batch, due)
    /\ ClaimRows(batch)
    /\ Fault
    /\ UNCHANGED workerVars

-----------------------------------------------------------------------------
(* The worker: processDelivery *)

\* Worker w goes on at p; it is done with its delivery when p is "next".
Goto(w, p) ==
    /\ pc' = [pc EXCEPT ![w] = p]
    /\ cur' = IF p = "next" THEN [cur EXCEPT ![w] = NoDelivery] ELSE cur

Record(w, x, s) ==
    /\ dstatus' = [dstatus EXCEPT ![x] = s]
    /\ held' = [held EXCEPT ![w] = @ \ {x}]

\* FindByID of the device fails, or the message is not one of the device's app
\* any more: the delivery fails and the message is not looked at.
LookupFails(w, x) ==
    /\ pc[w] = "next"
    /\ x \in held[w]
    /\ \/ device[x[2]] = "moved" /\ UNCHANGED bounds
       \/ Fault
    /\ Record(w, x, "failed")
    /\ UNCHANGED <<sendVars, mstatus, attempts, pushed, device, pc, cur>>

\* The database fails both the look-up and the UPDATE of MarkFailed.
LookupError(w, x) ==
    /\ pc[w] = "next"
    /\ x \in held[w]
    /\ Fault
    /\ held' = [held EXCEPT ![w] = @ \ {x}]
    /\ UNCHANGED <<sendVars, mstatus, dstatus, attempts, pushed, device, pc, cur>>

\* The look-ups and the provider's Send.  Neither looks at devices.status.  The
\* provider may have taken a push whose answer is an error (a timeout), and may not
\* have taken one whose answer counts as accepted (a body that has no code).
Attempt(w, x, outcome, took) ==
    /\ pc[w] = "next"
    /\ x \in held[w]
    /\ device[x[2]] # "moved"
    /\ took => outcome \in {"accept", "temporary"}
    /\ pushed' = IF took THEN [pushed EXCEPT ![x] = @ + 1] ELSE pushed
    /\ pc' = [pc EXCEPT ![w] = outcome]
    /\ cur' = [cur EXCEPT ![w] = x]
    /\ UNCHANGED <<sendVars, mstatus, dstatus, attempts, device, held, bounds>>

\* The token is invalid: the device row is marked, even if it has got another
\* token since the look-up.  The delivery fails next.
MarkInvalid(w) ==
    /\ pc[w] = "invalid"
    /\ device' = [device EXCEPT ![cur[w][2]] = IF @ = "moved" THEN @ ELSE "invalid"]
    /\ Goto(w, "permanent")
    /\ UNCHANGED <<sendVars, mstatus, dstatus, attempts, pushed, held, bounds>>

\* That UPDATE fails; its error is ignored.
MarkInvalidError(w) ==
    /\ pc[w] = "invalid"
    /\ Fault
    /\ Goto(w, "permanent")
    /\ UNCHANGED <<sendVars, mstatus, dstatus, attempts, pushed, device, held>>

\* Mutant: one attempt too many.
ShouldRetry_OffByOne(x) == attempts[x] <= MaxAttempt

\* retry.ShouldRetry for a temporary error.  The code compares the attempts
\* that ClaimReady returned: no one claims the row while it is held.
ShouldRetry(x) == attempts[x] < MaxAttempt

\* The status the outcome puts the delivery in.
Recorded(outcome, x) ==
    CASE outcome = "accept" -> "accepted"
      [] outcome = "temporary" /\ ShouldRetry(x) -> "retrying"
      [] OTHER -> "failed"

\* Mutant: maybeCompleteMessage asks nothing.
AfterOutcome_Complete(w) == IF Recorded(pc[w], cur[w]) = "retrying" THEN "next" ELSE "complete"

\* A retry leaves the message alone, the others go on to maybeCompleteMessage.
AfterOutcome(w) == IF Recorded(pc[w], cur[w]) = "retrying" THEN "next" ELSE "check"

\* MarkAccepted, MarkRetrying or MarkFailed.
MarkOutcome(w) ==
    /\ pc[w] \in {"accept", "temporary", "permanent"}
    /\ Record(w, cur[w], Recorded(pc[w], cur[w]))
    /\ Goto(w, AfterOutcome(w))
    /\ UNCHANGED <<sendVars, mstatus, attempts, pushed, device, bounds>>

\* The UPDATE fails; its error is ignored, and the row stays "sending".
MarkOutcomeError(w) ==
    /\ pc[w] \in {"accept", "temporary", "permanent"}
    /\ Fault
    /\ held' = [held EXCEPT ![w] = @ \ {cur[w]}]
    /\ Goto(w, AfterOutcome(w))
    /\ UNCHANGED <<sendVars, mstatus, dstatus, attempts, pushed, device>>

-----------------------------------------------------------------------------
(* The worker: maybeCompleteMessage, three statements *)

HasPending(m) == \E d \in Devices : dstatus[<<m, d>>] \in Open

\* CountByMessage: there are deliveries and all of them are terminal.
AllCounted(m) ==
    LET rows == {d \in Devices : dstatus[<<m, d>>] # "none"}
    IN  rows # {} /\ \A d \in rows : dstatus[<<m, d>>] \in Done

CheckPending(w) ==
    /\ pc[w] = "check"
    /\ Goto(w, IF HasPending(cur[w][1]) THEN "next" ELSE "count")
    /\ UNCHANGED <<sendVars, mstatus, dstatus, attempts, pushed, device, held, bounds>>

CountByMessage(w) ==
    /\ pc[w] = "count"
    /\ Goto(w, IF AllCounted(cur[w][1]) THEN "complete" ELSE "next")
    /\ UNCHANGED <<sendVars, mstatus, dstatus, attempts, pushed, device, held, bounds>>

MarkCompleted(w) ==
    /\ pc[w] = "complete"
    /\ mstatus' = [mstatus EXCEPT ![cur[w][1]] = "completed"]
    /\ Goto(w, "next")
    /\ UNCHANGED <<sendVars, dstatus, attempts, pushed, device, held, bounds>>

\* One of the three statements fails: the message is left as it is.
CompleteError(w) ==
    /\ pc[w] \in {"check", "count", "complete"}
    /\ Fault
    /\ Goto(w, "next")
    /\ UNCHANGED <<sendVars, mstatus, dstatus, attempts, pushed, device, held>>

\* Stop cancels the context under which the worker is processing its batch, so
\* that every later statement fails and its error is ignored; a crash has the
\* same effect.  The next process starts with nothing in hand.
Stop(w) ==
    /\ stops < MaxStops
    /\ stops' = stops + 1
    /\ Goto(w, "next")
    /\ held' = [held EXCEPT ![w] = {}]
    /\ UNCHANGED <<sendVars, mstatus, dstatus, attempts, pushed, device, faults>>

-----------------------------------------------------------------------------
(* The devices *)

\* Register, or UpdateToken, which falls back to it: the row is active again.
Register(d) ==
    /\ Churn
    /\ device' = [device EXCEPT ![d] = "active"]
    /\ UNCHANGED <<sendVars, mstatus, dstatus, attempts, pushed, workerVars, bounds>>

Unregister(d) ==
    /\ Churn
    /\ device[d] # "moved"
    /\ device' = [device EXCEPT ![d] = "disabled"]
    /\ UNCHANGED <<sendVars, mstatus, dstatus, attempts, pushed, workerVars, bounds>>

\* Register of the same installation for another app takes the row over.
RegisterElsewhere(d) ==
    /\ Churn
    /\ device[d] # "moved"
    /\ device' = [device EXCEPT ![d] = "moved"]
    /\ UNCHANGED <<sendVars, mstatus, dstatus, attempts, pushed, workerVars, bounds>>

-----------------------------------------------------------------------------
(* Specification *)

SendNext(m) ==
    \/ \E k \in Keys \cup {NoKey}, wanted \in SUBSET Devices, provider \in BOOLEAN :
            SendBegin(m, k, wanted, provider)
    \/ SendCommit(m)
    \/ \E d \in Devices : CreateDelivery(m, d)
    \/ MarkQueued(m)
    \/ SendError(m)

Claim(w) == \E batch, due \in SUBSET Deliveries : ClaimReady(w, batch, due)

Process(w) ==
    \/ \E x \in Deliveries : LookupFails(w, x)
    \/ \E x \in Deliveries, o \in Outcomes, t \in BOOLEAN : Attempt(w, x, o, t)
    \/ MarkInvalid(w)
    \/ MarkOutcome(w)
    \/ CheckPending(w)
    \/ CountByMessage(w)
    \/ MarkCompleted(w)

WorkerNext(w) ==
    \/ Claim(w)
    \/ Process(w)
    \/ \E batch, due \in SUBSET Deliveries : ClaimError(w, batch, due)
    \/ \E x \in Deliveries : LookupError(w, x)
    \/ MarkInvalidError(w)
    \/ MarkOutcomeError(w)
    \/ CompleteError(w)
    \/ Stop(w)

DeviceNext(d) ==
    \/ Register(d)
    \/ Unregister(d)
    \/ RegisterElsewhere(d)

Next ==
    \/ \E m \in Messages : SendNext(m)
    \/ \E w \in Workers : WorkerNext(w)
    \/ \E d \in Devices : DeviceNext(d)

Spec == Init /\ [][Next]_vars

\* A request that has begun goes on, the ticker ticks and a worker goes on;
\* devices and clients need not do anything.
Fairness ==
    /\ \A m \in Messages :
        /\ WF_vars(SendCommit(m))
        /\ WF_vars(\E d \in Devices : CreateDelivery(m, d))
        /\ WF_vars(MarkQueued(m))
    /\ \A w \in Workers : WF_vars(Claim(w)) /\ WF_vars(Process(w))

FairSpec == Spec /\ Fairness

-----------------------------------------------------------------------------
(* Safety *)

\* No delivery is in the hands of two workers, and one that is in a worker's
\* hands is "sending": the unconditional UPDATEs of a worker can only hit rows
\* that nobody else has claimed, accepted or failed since.
SingleOwner ==
    \A w \in Workers : \A x \in held[w] :
        /\ dstatus[x] = "sending"
        /\ \A v \in Workers \ {w} : x \notin held[v]

\* However claims, retries, lost answers and restarts interleave, a device is
\* pushed at most once per attempt and at most MaxAttempt times per message.
PushesBounded ==
    \A x \in Deliveries : pushed[x] <= attempts[x] /\ attempts[x] <= MaxAttempt

\* Two Send requests with the same key never both persist a message, even when
\* both looked the key up before either committed.
OneMessagePerKey ==
    \A m, n \in Messages :
        m # n /\ key[m] = key[n] /\ key[m] # NoKey => mstatus[m] = "none" \/ mstatus[n] = "none"

\* A message for one device is completed only when its delivery is terminal:
\* nothing undoes that between the three statements of maybeCompleteMessage.
SingleTargetCompleted ==
    \A m \in Messages, d \in Devices :
        mstatus[m] = "completed" /\ targets[m] = {d} => dstatus[<<m, d>>] \in Done

-----------------------------------------------------------------------------
(* The inductive invariant behind them *)

Requests ==
    \A m \in Messages :
        /\ req[m] \in {"idle", "inserting", "duplicate"} => mstatus[m] = "none"
        /\ req[m] \in {"enqueuing", "done"} => mstatus[m] # "none"
        /\ req[m] = "duplicate" => key[m] # NoKey /\ bound[key[m]] # NoMsg
        /\ mstatus[m] # "none" /\ key[m] # NoKey => bound[key[m]] = m

Bindings ==
    \A k \in Keys : bound[k] # NoMsg => key[bound[k]] = k /\ mstatus[bound[k]] # "none"

\* Deliveries belong to persisted messages and to devices they target.
Rows ==
    \A m \in Messages, d \in Devices :
        /\ dstatus[<<m, d>>] # "none" => mstatus[m] # "none" /\ d \in targets[m]
        /\ dstatus[<<m, d>>] \in {"none", "pending"} => attempts[<<m, d>>] = 0
        /\ dstatus[<<m, d>>] \in {"none"} \cup Ready => attempts[<<m, d>>] < MaxAttempt

\* What a worker's position says of the delivery it processes.
Positions ==
    \A w \in Workers :
        /\ pc[w] # "next" => cur[w] \in Deliveries
        /\ pc[w] # "next" => dstatus[cur[w]] # "none"
        /\ pc[w] \in Outcomes => cur[w] \in held[w]
        /\ pc[w] \in {"count", "complete"} => dstatus[cur[w]] \in Done

\* A held delivery that its worker has not tried yet has an attempt to spare.
Spare ==
    \A x \in Deliveries :
        \/ pushed[x] < attempts[x]
        \/ /\ pushed[x] = attempts[x]
           /\ \A w \in Workers : x \in held[w] => pc[w] \in Outcomes /\ cur[w] = x

Inv ==
    /\ TypeOK
    /\ SingleOwner
    /\ PushesBounded
    /\ SingleTargetCompleted
    /\ Requests
    /\ Bindings
    /\ Rows
    /\ Positions
    /\ Spare

-----------------------------------------------------------------------------
(* The queue implements PushDelivery *)

Fate(s) == IF s \in Open THEN "open" ELSE s

Delivery == INSTANCE PushDelivery
               WITH Items <- Deliveries,
                    Limit <- MaxAttempt,
                    fate <- [x \in Deliveries |-> Fate(dstatus[x])],
                    pushes <- pushed

\* Every statement of requests, workers and devices is a step of the abstract
\* delivery or leaves it alone.
ImplementsDelivery == Delivery!Spec

-----------------------------------------------------------------------------
(* Liveness *)

\* A delivery that is queued is accepted or fails for good in the end
\* (ARCHITECTURE.md:126, "at-least-once").
DeliveriesFinish == \A x \in Deliveries : dstatus[x] = "pending" ~> dstatus[x] \in Done

-----------------------------------------------------------------------------
(* What the documentation says of the code *)

\* ARCHITECTURE.md:126, "at-least-once", and TROUBLESHOOTING.md:85, "Server
\* should use `Idempotency-Key` for Phoenix retries": when a retry is answered
\* as a duplicate, the message it is told of gets its deliveries.
DuplicateIsQueued ==
    \A m, n \in Messages :
        (req[m] = "duplicate" /\ bound[key[m]] = n /\ targets[n] # {})
            ~> \E d \in targets[n] : dstatus[<<n, d>>] # "none"

=============================================================================
