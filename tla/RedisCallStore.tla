-------------------------- MODULE RedisCallStore --------------------------
(***************************************************************************)
(* The Redis call store of the realtime server (internal/call/store.go):   *)
(* Put as a pipeline of SET and SADD, Update as an optimistic transaction  *)
(* that is repeated when another node changed the call meanwhile, and the  *)
(* list of a user's active calls with its asynchronous index cleanup.      *)
(*                                                                         *)
(* Every Redis command is a step, MULTI/EXEC is one.  Of a call's value    *)
(* the model keeps whether the call is over, its participants, and which   *)
(* requests have changed it.  The closures of call/service.go are of three *)
(* kinds: "join" adds a participant and "end" ends the call, both refuse a *)
(* call that is over; "touch" changes neither and refuses nothing.         *)
(***************************************************************************)
EXTENDS Naturals, FiniteSets

CONSTANTS
    Calls, Users,
    Clients,     \* requests that Put or Update, on any node
    Readers,     \* requests that list a user's active calls
    NoCall, NoUser,
    MaxRetries,  \* maxRetries of Update
    MaxFaults    \* bound on lost connections

ASSUME NullAssumption == NoCall \notin Calls /\ NoUser \notin Users
ASSUME RetryAssumption == MaxRetries \in Nat \ {0} /\ MaxFaults \in Nat

VARIABLES
    status,      \* status[c]: "none", "live", "over" or "gone" (key expired)
    parts,       \* parts[c]: the participants in the stored value
    done,        \* done[c]: the requests whose change the stored value has
    index,       \* index[u]: the set user_calls of u
    pc, call, op, user,  \* of each client: position and request
    snap,        \* snap[k]: the value client k has read
    dirty,       \* clients whose watched key has changed: EXEC will fail
    tries,       \* tries[k]: failed transactions of client k
    todo,        \* todo[k]: participants that Put has not indexed yet
    asked, seen, \* of each reader: the user, and the ids SMEMBERS returned
    removal,     \* <<u, c>>: an SREM that is on its way
    faults

valueVars == <<status, parts, done>>
clientVars == <<pc, call, op, user, snap, dirty, tries, todo>>
readerVars == <<asked, seen, removal>>
vars == <<status, parts, done, index, pc, call, op, user, snap, dirty, tries,
          todo, asked, seen, removal, faults>>

Ops == {"put", "join", "end", "touch"}
Stored == {"live", "over"}
Values == [status : Stored, parts : SUBSET Users, done : SUBSET Clients]
NoValue == [status |-> "over", parts |-> {}, done |-> {}]

TypeOK ==
    /\ status \in [Calls -> {"none", "gone"} \cup Stored]
    /\ parts \in [Calls -> SUBSET Users]
    /\ done \in [Calls -> SUBSET Clients]
    /\ index \in [Users -> SUBSET Calls]
    /\ pc \in [Clients -> {"idle", "set", "index", "watch", "get", "exec",
                           "done", "refused", "conflict", "error"}]
    /\ call \in [Clients -> Calls \cup {NoCall}]
    /\ op \in [Clients -> Ops]
    /\ user \in [Clients -> Users \cup {NoUser}]
    /\ snap \in [Clients -> Values]
    /\ dirty \in SUBSET Clients
    /\ tries \in [Clients -> 0..MaxRetries]
    /\ todo \in [Clients -> SUBSET Users]
    /\ asked \in [Readers -> Users \cup {NoUser}]
    /\ seen \in [Readers -> SUBSET Calls]
    /\ removal \in SUBSET (Users \X Calls)
    /\ faults \in 0..MaxFaults

Init ==
    /\ status = [c \in Calls |-> "none"]
    /\ parts = [c \in Calls |-> {}]
    /\ done = [c \in Calls |-> {}]
    /\ index = [u \in Users |-> {}]
    /\ pc = [k \in Clients |-> "idle"]
    /\ call = [k \in Clients |-> NoCall]
    /\ op = [k \in Clients |-> "put"]
    /\ user = [k \in Clients |-> NoUser]
    /\ snap = [k \in Clients |-> NoValue]
    /\ dirty = {}
    /\ tries = [k \in Clients |-> 0]
    /\ todo = [k \in Clients |-> {}]
    /\ asked = [r \in Readers |-> NoUser]
    /\ seen = [r \in Readers |-> {}]
    /\ removal = {}
    /\ faults = 0

\* Client k goes on at p.
Goto(k, p) == pc' = [pc EXCEPT ![k] = p]

\* The key of c changes: transactions that watch it will fail.
Changes(c) == dirty' = dirty \cup {j \in Clients : pc[j] \in {"get", "exec"} /\ call[j] = c}

-----------------------------------------------------------------------------
(* Put *)

\* Create generates the id, so nobody else uses it yet.
PutBegin(k, c, ps) ==
    /\ pc[k] = "idle"
    /\ status[c] = "none"
    /\ \A j \in Clients : call[j] # c
    /\ Goto(k, "set")
    /\ call' = [call EXCEPT ![k] = c]
    /\ op' = [op EXCEPT ![k] = "put"]
    /\ todo' = [todo EXCEPT ![k] = ps]
    /\ UNCHANGED <<valueVars, index, user, snap, dirty, tries, readerVars, faults>>

\* The SET of the pipeline.
PutSet(k) ==
    /\ pc[k] = "set"
    /\ status' = [status EXCEPT ![call[k]] = "live"]
    /\ parts' = [parts EXCEPT ![call[k]] = todo[k]]
    /\ Goto(k, "index")
    /\ UNCHANGED <<done, index, call, op, user, snap, dirty, tries, todo, readerVars, faults>>

\* Mutant: the pipeline adds the index entries first.
Indexing_First(k) == pc[k] \in {"set", "index"}

\* The SADDs come after the SET.
Indexing(k) == pc[k] = "index"

\* One SADD of the pipeline, which is not a transaction.  The request returns
\* after the last.
PutIndex(k, u) ==
    /\ Indexing(k)
    /\ u \in todo[k]
    /\ index' = [index EXCEPT ![u] = @ \cup {call[k]}]
    /\ todo' = [todo EXCEPT ![k] = @ \ {u}]
    /\ UNCHANGED <<valueVars, pc, call, op, user, snap, dirty, tries, readerVars, faults>>

PutEnd(k) ==
    /\ pc[k] = "index"
    /\ todo[k] = {}
    /\ Goto(k, "done")
    /\ UNCHANGED <<valueVars, index, call, op, user, snap, dirty, tries, todo, readerVars, faults>>

-----------------------------------------------------------------------------
(* Update *)

\* The request names a call whose Create has returned, or one that the list of
\* some user's active calls shows, be its Put still under way or broken off.
UpdateBegin(k, c, o, u) ==
    /\ pc[k] = "idle"
    /\ o # "put"
    /\ \/ \E j \in Clients : call[j] = c /\ op[j] = "put" /\ pc[j] = "done"
       \/ \E v \in Users : c \in index[v]
    /\ Goto(k, "watch")
    /\ call' = [call EXCEPT ![k] = c]
    /\ op' = [op EXCEPT ![k] = o]
    /\ user' = [user EXCEPT ![k] = u]
    /\ UNCHANGED <<valueVars, index, snap, dirty, tries, todo, readerVars, faults>>

Watch(k) ==
    /\ pc[k] = "watch"
    /\ dirty' = dirty \ {k}
    /\ Goto(k, "get")
    /\ UNCHANGED <<valueVars, index, call, op, user, snap, tries, todo, readerVars, faults>>

\* CallNotFound, or the early return of the closure.
Refuses(o, s) == s \notin Stored \/ (s = "over" /\ o # "touch")

\* GET and the closure: an error, or a new value to write.
Get(k) ==
    LET s == status[call[k]] IN
    /\ pc[k] = "get"
    /\ IF Refuses(op[k], s)
       THEN Goto(k, "refused") /\ UNCHANGED snap
       ELSE /\ Goto(k, "exec")
            /\ snap' = [snap EXCEPT ![k] =
                           [status |-> s, parts |-> parts[call[k]], done |-> done[call[k]]]]
    /\ UNCHANGED <<valueVars, index, call, op, user, dirty, tries, todo, readerVars, faults>>

\* Mutant: a transaction without WATCH.
Conflict_Never(k) == FALSE

\* EXEC fails with TxFailedErr.
Conflict(k) == k \in dirty

\* The next round of the loop, or its end.
Exec_Conflict(k) ==
    /\ pc[k] = "exec"
    /\ Conflict(k)
    /\ tries' = [tries EXCEPT ![k] = @ + 1]
    /\ Goto(k, IF tries[k] + 1 = MaxRetries THEN "conflict" ELSE "watch")
    /\ UNCHANGED <<valueVars, index, call, op, user, snap, dirty, todo, readerVars, faults>>

\* What the closure makes of the participants it has read.
Joined(k) == snap[k].parts \cup (IF op[k] = "join" THEN {user[k]} ELSE {})

\* Mutant: only the participants of the old value are indexed.
Indexed_Old(k, c) == [u \in Users |-> IF u \in parts[c] THEN index[u] \cup {c} ELSE index[u]]

\* The SADDs of the transaction, for every participant of the new value.
Indexed(k, c) == [u \in Users |-> IF u \in Joined(k) THEN index[u] \cup {c} ELSE index[u]]

\* EXEC succeeds: SET writes the value computed from the snapshot, SADD indexes
\* its participants.
Commit(k) ==
    LET c == call[k] IN
    /\ pc[k] = "exec"
    /\ ~Conflict(k)
    /\ status' = [status EXCEPT ![c] = IF op[k] = "end" THEN "over" ELSE snap[k].status]
    /\ parts' = [parts EXCEPT ![c] = Joined(k)]
    /\ done' = [done EXCEPT ![c] = snap[k].done \cup {k}]
    /\ index' = Indexed(k, c)
    /\ Changes(c)

Exec(k) ==
    /\ Commit(k)
    /\ Goto(k, "done")
    /\ UNCHANGED <<call, op, user, snap, tries, todo, readerVars, faults>>

Fault == faults < MaxFaults /\ faults' = faults + 1

\* The connection breaks between two commands of Put, or before EXEC: the
\* request returns the error and what was done stays done.
ConnectionError(k) ==
    /\ Fault
    /\ pc[k] \in {"set", "index", "watch", "get"}
    /\ Goto(k, "error")
    /\ UNCHANGED <<valueVars, index, call, op, user, snap, dirty, tries, todo, readerVars>>

\* The connection breaks at EXEC, before it or after it was carried out.
Exec_Error(k) ==
    /\ Fault
    /\ pc[k] = "exec"
    /\ Commit(k) \/ UNCHANGED <<valueVars, index, dirty>>
    /\ Goto(k, "error")
    /\ UNCHANGED <<call, op, user, snap, tries, todo, readerVars>>

\* callExpiry runs out.  An expired key counts as changed for WATCH.
Expire(c) ==
    /\ status[c] \in Stored
    /\ status' = [status EXCEPT ![c] = "gone"]
    /\ Changes(c)
    /\ UNCHANGED <<parts, done, index, pc, call, op, user, snap, tries, todo, readerVars, faults>>

-----------------------------------------------------------------------------
(* ActiveCallIDsForUser *)

\* SMEMBERS.
Members(r, u) ==
    /\ asked[r] = NoUser
    /\ index[u] # {}
    /\ asked' = [asked EXCEPT ![r] = u]
    /\ seen' = [seen EXCEPT ![r] = index[u]]
    /\ UNCHANGED <<valueVars, index, clientVars, removal, faults>>

\* MGET: the ids that are live are the answer, the others are removed from the
\* index by a goroutine.
MGet(r) ==
    /\ asked[r] # NoUser
    /\ removal' = removal \cup {<<asked[r], c>> : c \in {x \in seen[r] : status[x] # "live"}}
    /\ asked' = [asked EXCEPT ![r] = NoUser]
    /\ seen' = [seen EXCEPT ![r] = {}]
    /\ UNCHANGED <<valueVars, index, clientVars, faults>>

\* MGET fails: no answer and no cleanup.
MGetError(r) ==
    /\ Fault
    /\ asked[r] # NoUser
    /\ asked' = [asked EXCEPT ![r] = NoUser]
    /\ seen' = [seen EXCEPT ![r] = {}]
    /\ UNCHANGED <<valueVars, index, clientVars, removal>>

\* The goroutine's SREM, at any later time.
SRem(u, c) ==
    /\ <<u, c>> \in removal
    /\ removal' = removal \ {<<u, c>>}
    /\ index' = [index EXCEPT ![u] = @ \ {c}]
    /\ UNCHANGED <<valueVars, clientVars, asked, seen, faults>>

-----------------------------------------------------------------------------
(* Specification *)

ClientNext(k) ==
    \/ \E c \in Calls, ps \in SUBSET Users : PutBegin(k, c, ps)
    \/ PutSet(k)
    \/ \E u \in Users : PutIndex(k, u)
    \/ PutEnd(k)
    \/ \E c \in Calls, o \in Ops, u \in Users : UpdateBegin(k, c, o, u)
    \/ Watch(k)
    \/ Get(k)
    \/ Exec_Conflict(k)
    \/ Exec(k)
    \/ ConnectionError(k)
    \/ Exec_Error(k)

Next ==
    \/ \E k \in Clients : ClientNext(k)
    \/ \E c \in Calls : Expire(c)
    \/ \E r \in Readers, u \in Users : Members(r, u)
    \/ \E r \in Readers : MGet(r) \/ MGetError(r)
    \/ \E u \in Users, c \in Calls : SRem(u, c)

Spec == Init /\ [][Next]_vars

-----------------------------------------------------------------------------
(* Safety *)

\* An Update that returned the call has its change in the stored value, however
\* many other Updates were committed before and after it.
NoLostUpdate ==
    \A k \in Clients : pc[k] = "done" /\ op[k] # "put" => k \in done[call[k]]

\* An Update that was refused, or gave up after MaxRetries conflicts, has
\* changed nothing.
FailedUpdatesLeaveNoTrace ==
    \A k \in Clients : pc[k] \in {"refused", "conflict"} => \A c \in Calls : k \notin done[c]

\* A Put in progress, or broken off, has not indexed u.
Unindexed(c, u) == \E k \in Clients : call[k] = c /\ u \in todo[k]

\* The cleanup, which works on what was read a while ago, never removes a live
\* call from the index of one of its participants, and neither Put nor Update
\* forgets one.
LiveCallsIndexed ==
    \A c \in Calls, u \in Users :
        status[c] = "live" /\ u \in parts[c] /\ ~Unindexed(c, u) => c \in index[u]

\* The Update that ends a call has the last word: no request that read the call
\* before writes it back to life.
OverIsFinal ==
    [][\A c \in Calls : status[c] = "over" => status'[c] \in {"over", "gone"}]_vars

-----------------------------------------------------------------------------
(* The inductive invariant behind them *)

\* WATCH: a transaction that will not fail has read the current value.
FreshSnapshot ==
    \A k \in Clients : pc[k] = "exec" /\ k \notin dirty =>
        /\ status[call[k]] = snap[k].status
        /\ parts[call[k]] = snap[k].parts
        /\ done[call[k]] = snap[k].done
        /\ ~Refuses(op[k], snap[k].status)

\* What the position of a client says of its request.
Positions ==
    \A k \in Clients :
        /\ pc[k] \notin {"idle", "error"} => call[k] \in Calls
        /\ pc[k] \in {"set", "index"} => op[k] = "put"
        /\ pc[k] \in {"watch", "get", "exec"} => op[k] # "put" /\ user[k] \in Users
        /\ pc[k] \notin {"done", "error"} => \A c \in Calls : k \notin done[c]
        /\ pc[k] \notin {"conflict"} => tries[k] < MaxRetries
        /\ pc[k] = "idle" => call[k] = NoCall

\* A call has one Put, and until its SET nobody else knows the call.
PutsAlone ==
    /\ \A k, j \in Clients : pc[k] = "set" /\ call[j] = call[k] => j = k
    /\ \A k \in Clients : pc[k] = "set" => status[call[k]] = "none"
    /\ \A k \in Clients : pc[k] = "index" => status[call[k]] # "none"

\* Index entries, and so what readers see and remove, are of calls that were
\* stored; what is to be removed is not live and never will be.
IndexOfStored ==
    /\ \A u \in Users, c \in Calls : c \in index[u] => status[c] # "none"
    /\ \A r \in Readers, c \in Calls : c \in seen[r] => status[c] # "none"
    /\ \A u \in Users, c \in Calls : <<u, c>> \in removal => status[c] \in {"over", "gone"}

Inv ==
    /\ TypeOK
    /\ FreshSnapshot
    /\ Positions
    /\ PutsAlone
    /\ IndexOfStored
    /\ NoLostUpdate
    /\ LiveCallsIndexed

-----------------------------------------------------------------------------
(* Refinement *)

Store == INSTANCE AtomicCallStore

\* Every command is a step of the atomic store or leaves it alone: this is what
\* lets CallRuntime treat an operation as one step.
ImplementsAtomicStore == Store!Spec

=============================================================================
