--------------------------- MODULE PresenceStore ---------------------------
(***************************************************************************)
(* Presence in Redis (internal/presence/redis_store.go): a key per device  *)
(* that says whose it is and its status, and a set of devices per user,    *)
(* both with a time to live.                                               *)
(*                                                                         *)
(* An update is a pipeline of three commands, which Redis may interleave   *)
(* with those of others, followed by the read of GetUser; GetUser asks for *)
(* the set, then for the devices, and leaves the removal of the devices    *)
(* that it did not find to a goroutine.  The hub calls SetOnline and       *)
(* SetOffline, HTTP calls GetUser.  A node may crash in a call, and a      *)
(* pipeline may be cut off: the errors of both are dropped.                *)
(***************************************************************************)
EXTENDS Naturals, FiniteSets

CONSTANTS
    Devices, Users, NoUser,
    Calls,       \* bound on the calls at a time
    Statuses,    \* bound on the statuses that are set
    TTL,         \* time to live of a key, in ticks (5 minutes)
    MaxUpdates,  \* bound on updates
    MaxFaults    \* bound on calls cut off in the middle

Rank == [offline |-> 0, idle |-> 1, online |-> 2, busy |-> 3, in_call |-> 4]

ASSUME PresenceAssumption ==
    /\ NoUser \notin Users
    /\ Statuses \subseteq DOMAIN Rank
    /\ TTL \in Nat \ {0}
    /\ MaxUpdates \in Nat /\ MaxFaults \in Nat

VARIABLES
    device,      \* device[d]: the key of d, or Gone
    index,       \* index[u]: the set of u and its time to live
    calls,       \* calls[c]: what call c does next
    sweeps,      \* removals that goroutines have still to send
    unlisted,    \* devices whose set has lost them: by a removal that came late, by a
                 \* pipeline cut off, or by its end of life in the middle of one
    updates, faults

vars == <<device, index, calls, sweeps, unlisted, updates, faults>>

Forever == TTL + 1    \* the time to live of a key that has none
Gone == [user |-> NoUser, status |-> "offline", left |-> 0]
Empty == [members |-> {}, left |-> 0]
Idle == [pc |-> "idle"]

UpdateStates ==
    [pc : {"set", "sadd", "expire", "smembers"}, user : Users, device : Devices,
     status : Statuses, ids : {{}}, answer : {"offline"}, own : BOOLEAN]
ReadStates ==
    [pc : {"smembers", "mget", "done"}, user : Users, device : Devices \cup {Gone},
     status : Statuses \cup {"offline"}, ids : SUBSET Devices, answer : DOMAIN Rank, own : BOOLEAN]
CallStates == {Idle} \cup UpdateStates \cup ReadStates

TypeOK ==
    /\ device \in [Devices -> [user : Users \cup {NoUser}, status : DOMAIN Rank, left : 0..Forever]]
    /\ index \in [Users -> [members : SUBSET Devices, left : 0..Forever]]
    /\ \A u \in Users : index[u].members = {} <=> index[u].left = 0
    /\ calls \in [Calls -> CallStates]
    /\ sweeps \in SUBSET [user : Users, ids : SUBSET Devices]
    /\ unlisted \in SUBSET Devices
    /\ updates \in 0..MaxUpdates /\ faults \in 0..MaxFaults

Init ==
    /\ device = [d \in Devices |-> Gone]
    /\ index = [u \in Users |-> Empty]
    /\ calls = [c \in Calls |-> Idle]
    /\ sweeps = {} /\ unlisted = {}
    /\ updates = 0 /\ faults = 0

Live(d) == device[d] # Gone
Writing(d) == {c \in Calls : calls[c].pc \in {"sadd", "expire"} /\ calls[c].device = d}

\* Call c goes on; what it has written (own) is still there unless lost holds for it.
Step(c, next, lost(_)) ==
    calls' = [x \in Calls |->
                IF x = c THEN next
                ELSE IF calls[x] # Idle /\ lost(calls[x]) THEN [calls[x] EXCEPT !.own = FALSE]
                ELSE calls[x]]

Unaffected(k) == FALSE

-----------------------------------------------------------------------------
(* update *)

\* SetOnline, SetOffline and SetStatus.
Update(c, u, d, s) ==
    /\ calls[c] = Idle
    /\ updates < MaxUpdates
    /\ updates' = updates + 1
    /\ Step(c, [pc |-> "set", user |-> u, device |-> d, status |-> s, ids |-> {},
                answer |-> "offline", own |-> FALSE], Unaffected)
    /\ UNCHANGED <<device, index, sweeps, unlisted, faults>>

\* Mutant: the key of the device has no time to live.
Written_NoTTL(k) == [user |-> k.user, status |-> k.status, left |-> Forever]

Written(k) == [user |-> k.user, status |-> k.status, left |-> TTL]

Set(c) ==
    /\ calls[c].pc = "set"
    /\ device' = [device EXCEPT ![calls[c].device] = Written(calls[c])]
    /\ Step(c, [calls[c] EXCEPT !.pc = "sadd", !.own = TRUE], LAMBDA k : k.device = calls[c].device)
    /\ UNCHANGED <<index, sweeps, unlisted, updates, faults>>

\* A set that is new has no end of life yet.
SAdd(c) ==
    /\ calls[c].pc = "sadd"
    /\ index' = [index EXCEPT ![calls[c].user] =
                    [members |-> @.members \cup {calls[c].device},
                     left |-> IF @.members = {} THEN Forever ELSE @.left]]
    /\ Step(c, [calls[c] EXCEPT !.pc = "expire"], Unaffected)
    /\ UNCHANGED <<device, sweeps, unlisted, updates, faults>>

\* Mutant: only a set that has no end of life gets one (EXPIRE NX).
Prolonged_NX(set) == IF set.left = Forever THEN TTL ELSE set.left

\* EXPIRE, which does nothing to a set that is gone.
Prolonged(set) == IF set.members = {} THEN 0 ELSE TTL

ExpireIndex(c) ==
    /\ calls[c].pc = "expire"
    /\ LET u == calls[c].user
           d == calls[c].device
       IN  /\ index' = [index EXCEPT ![u].left = Prolonged(index[u])]
           /\ unlisted' = IF device[d].user # u THEN unlisted
                          ELSE IF d \in index[u].members THEN unlisted \ {d}
                          ELSE unlisted \cup {d}
    /\ Step(c, [calls[c] EXCEPT !.pc = "smembers"], Unaffected)
    /\ UNCHANGED <<device, sweeps, updates, faults>>

-----------------------------------------------------------------------------
(* GetUser *)

\* GET /api/v1/presence/{user_id}.
Ask(c, u) ==
    /\ calls[c] = Idle
    /\ Step(c, [pc |-> "smembers", user |-> u, device |-> Gone, status |-> "offline", ids |-> {},
                answer |-> "offline", own |-> FALSE], Unaffected)
    /\ UNCHANGED <<device, index, sweeps, unlisted, updates, faults>>

SMembers(c) ==
    /\ calls[c].pc = "smembers"
    /\ LET ids == index[calls[c].user].members IN
        Step(c, [calls[c] EXCEPT !.pc = IF ids = {} THEN "done" ELSE "mget", !.ids = ids], Unaffected)
    /\ UNCHANGED <<device, index, sweeps, unlisted, updates, faults>>

\* Mutant: the lower of two.
MergeStatus_Lower(a, b) == IF Rank[b] < Rank[a] THEN b ELSE a

\* mergeStatus.
MergeStatus(a, b) == IF Rank[b] > Rank[a] THEN b ELSE a

\* The status that merging the devices that were found ends with: "offline", with
\* which it begins, or theirs, whichever no other of them replaces.
Merged(ids) ==
    LET found == {"offline"} \cup {device[d].status : d \in {x \in ids : Live(x)}}
    IN  CHOOSE s \in found : \A t \in found : MergeStatus(s, t) = s

\* The devices without a key.
Stale(ids) == {d \in ids : ~Live(d)}

MGet(c) ==
    /\ calls[c].pc = "mget"
    /\ LET k == calls[c] IN
        /\ Step(c, [k EXCEPT !.pc = "done", !.answer = Merged(k.ids), !.ids = {}], Unaffected)
        /\ sweeps' = IF Stale(k.ids) = {} THEN sweeps
                     ELSE sweeps \cup {[user |-> k.user, ids |-> Stale(k.ids)]}
    /\ UNCHANGED <<device, index, unlisted, updates, faults>>

Return(c) ==
    /\ calls[c].pc = "done"
    /\ Step(c, Idle, Unaffected)
    /\ UNCHANGED <<device, index, sweeps, unlisted, updates, faults>>

\* The removal, whatever has been written since MGET.
SRem(w) ==
    LET hit == w.ids \cap index[w.user].members
        rest == index[w.user].members \ w.ids
    IN  /\ w \in sweeps
        /\ sweeps' = sweeps \ {w}
        /\ index' = [index EXCEPT ![w.user] = IF rest = {} THEN Empty ELSE [@ EXCEPT !.members = rest]]
        /\ unlisted' = unlisted \cup {d \in hit : Live(d) /\ device[d].user = w.user}
        /\ calls' = [c \in Calls |->
                        IF calls[c] # Idle /\ calls[c].user = w.user /\ calls[c].device \in hit
                        THEN [calls[c] EXCEPT !.own = FALSE] ELSE calls[c]]
        /\ UNCHANGED <<device, updates, faults>>

-----------------------------------------------------------------------------
(* Time and failures *)

\* A key a tick later, or none if its time is over.
Aged(key, none) ==
    IF key.left <= 1 THEN none ELSE IF key.left = Forever THEN key ELSE [key EXCEPT !.left = @ - 1]

Tick ==
    /\ \/ \E d \in Devices : device[d].left \in 1..TTL
       \/ \E u \in Users : index[u].left \in 1..TTL
    /\ device' = [d \in Devices |-> Aged(device[d], Gone)]
    /\ index' = [u \in Users |-> Aged(index[u], Empty)]
    /\ unlisted' = unlisted \ {d \in Devices : device[d].left <= 1}
    /\ calls' = [c \in Calls |->
                    IF /\ calls[c] # Idle
                       /\ \/ index[calls[c].user].left = 1
                          \/ calls[c].device \in Devices /\ device[calls[c].device].left = 1
                    THEN [calls[c] EXCEPT !.own = FALSE] ELSE calls[c]]
    /\ UNCHANGED <<sweeps, updates, faults>>

\* A crash, or a connection to Redis that breaks: the rest of the call does not happen.
CutOff(c) ==
    /\ faults < MaxFaults
    /\ calls[c] # Idle
    /\ faults' = faults + 1
    /\ unlisted' = IF c \in UNION {Writing(d) : d \in Devices}
                   THEN unlisted \cup {calls[c].device} ELSE unlisted
    /\ Step(c, Idle, Unaffected)
    /\ UNCHANGED <<device, index, sweeps, updates>>

\* SMEMBERS or MGET fails: GetUser answers offline.
ReadFails(c) ==
    /\ faults < MaxFaults
    /\ calls[c].pc \in {"smembers", "mget"}
    /\ faults' = faults + 1
    /\ Step(c, [calls[c] EXCEPT !.pc = "done", !.ids = {}, !.own = FALSE], Unaffected)
    /\ UNCHANGED <<device, index, sweeps, unlisted, updates>>

Next ==
    \/ \E c \in Calls :
        \/ \E u \in Users, d \in Devices, s \in Statuses : Update(c, u, d, s)
        \/ \E u \in Users : Ask(c, u)
        \/ Set(c) \/ SAdd(c) \/ ExpireIndex(c)
        \/ SMembers(c) \/ MGet(c) \/ Return(c) \/ CutOff(c) \/ ReadFails(c)
    \/ \E w \in sweeps : SRem(w)
    \/ Tick

Spec == Init /\ [][Next]_vars

\* The clock of Redis runs.
FairSpec == Spec /\ WF_vars(Tick)

-----------------------------------------------------------------------------
(* Properties *)

\* A device that has a key is in the set of its user, where GetUser looks for it,
\* except in the middle of its update: no set ends before its devices do.  What the
\* code does not prevent is a removal that arrives after the device has come back, a
\* pipeline cut off, and the end of the set between SADD and EXPIRE.
IndexCoversLive ==
    \A d \in Devices :
        Live(d) /\ Writing(d) = {} => d \in unlisted \/ d \in index[device[d].user].members

\* An update answers at least the status that it has set, which the hub broadcasts
\* to the user's devices, unless that status was overwritten or lost since, or Redis
\* could not be read.
ReadsOwnWrite ==
    \A c \in Calls :
        calls[c].pc = "done" /\ calls[c].own => Rank[calls[c].answer] >= Rank[calls[c].status]

\* A device whose node has crashed does not stay online: once updates stop, every
\* key of a device ends.
GhostsEnd == <>[](\A d \in Devices : ~Live(d))

-----------------------------------------------------------------------------
(* The inductive invariant behind the safety properties *)

\* A key has an owner and a time to live; "no end of life" is for sets only.
Keys ==
    \A d \in Devices : device[d] \in {Gone} \cup [user : Users, status : DOMAIN Rank, left : 1..TTL]

\* The set of the user of d has d, and does not end before the key of d.
Listed(d) ==
    LET set == index[device[d].user] IN d \in set.members /\ device[d].left <= set.left

\* A device that is in no set is known to be lost, or its own user's update is
\* between SET and EXPIRE and will add it or report it lost.
Covered ==
    \A d \in Devices : Live(d) =>
        d \in unlisted \/ Listed(d) \/ (\E c \in Writing(d) : calls[c].user = device[d].user)

\* What a call has written is where it will look for it, as long as own holds.
Owned(k) ==
    /\ k.pc # "set"
    /\ k.pc # "done" => /\ k.device \in Devices /\ device[k.device] # Gone
                        /\ device[k.device].user = k.user /\ device[k.device].status = k.status
    /\ k.pc \in {"expire", "smembers"} => k.device \in index[k.user].members
    /\ k.pc = "mget" => k.device \in k.ids

Writes == \A c \in Calls : calls[c] # Idle /\ calls[c].own => Owned(calls[c])

Inv ==
    /\ TypeOK
    /\ Keys
    /\ Covered
    /\ Writes
    /\ ReadsOwnWrite

=============================================================================
