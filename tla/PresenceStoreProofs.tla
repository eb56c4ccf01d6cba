------------------------ MODULE PresenceStoreProofs ------------------------
(* Proofs about PresenceStore for any number of devices, users, concurrent *)
(* calls, updates and faults, and any time to live.                        *)
EXTENDS PresenceStore, TLAPS

USE PresenceAssumption

-----------------------------------------------------------------------------
(* Statuses *)

LEMMA RankValue ==
    /\ DOMAIN Rank = {"offline", "idle", "online", "busy", "in_call"}
    /\ Rank["offline"] = 0 /\ Rank["idle"] = 1 /\ Rank["online"] = 2
    /\ Rank["busy"] = 3 /\ Rank["in_call"] = 4
BY DEF Rank

\* Of two statuses, mergeStatus keeps the first exactly if the second is not higher.
LEMMA MergeKeeps ==
    ASSUME NEW a \in DOMAIN Rank, NEW b \in DOMAIN Rank
    PROVE  MergeStatus(a, b) = a <=> Rank[b] <= Rank[a]
<1>1. Rank[a] \in Nat /\ Rank[b] \in Nat
  BY RankValue
<1>2. Rank[b] > Rank[a] => a # b
  BY <1>1
<1> QED  BY <1>1, <1>2 DEF MergeStatus

\* Any set of statuses has a highest one.
LEMMA HighestExists ==
    ASSUME NEW found \in SUBSET DOMAIN Rank, found # {}
    PROVE  \E s \in found : \A t \in found : Rank[t] <= Rank[s]
<1>1. CASE "in_call" \in found
  BY <1>1, RankValue
<1>2. CASE "in_call" \notin found /\ "busy" \in found
  BY <1>2, RankValue
<1>3. CASE "in_call" \notin found /\ "busy" \notin found /\ "online" \in found
  BY <1>3, RankValue
<1>4. CASE found \subseteq {"offline", "idle"} /\ "idle" \in found
  BY <1>4, RankValue
<1>5. CASE found = {"offline"}
  BY <1>5, RankValue
<1> QED  BY <1>1, <1>2, <1>3, <1>4, <1>5, RankValue

\* GetUser answers with a status at least as high as that of any device it found.
LEMMA MergedValue ==
    ASSUME Keys, NEW ids \in SUBSET Devices
    PROVE  /\ Merged(ids) \in DOMAIN Rank
           /\ \A d \in ids : Live(d) => Rank[Merged(ids)] >= Rank[device[d].status]
<1> DEFINE found == {"offline"} \cup {device[d].status : d \in {x \in ids : Live(x)}}
<1>1. \A d \in ids : Live(d) => device[d].status \in DOMAIN Rank
  BY DEF Keys, Live
<1>2. found \in SUBSET DOMAIN Rank /\ found # {}
  BY <1>1, RankValue
<1>3. Merged(ids) = CHOOSE s \in found : \A t \in found : MergeStatus(s, t) = s
  BY DEF Merged
<1>4. \A d \in ids : Live(d) => device[d].status \in found
  OBVIOUS
<1> HIDE DEF found
<1>5. PICK s \in found : \A t \in found : Rank[t] <= Rank[s]
  BY <1>2, HighestExists
<1>6. \A t \in found : MergeStatus(s, t) = s
  BY <1>2, <1>5, MergeKeeps
<1>7. Merged(ids) \in found /\ (\A t \in found : MergeStatus(Merged(ids), t) = Merged(ids))
  BY <1>3, <1>5, <1>6
<1>8. \A t \in found : Rank[t] <= Rank[Merged(ids)]
  BY <1>2, <1>7, MergeKeeps
<1>9. \A t \in found : Rank[t] \in Nat
  BY <1>2, RankValue
<1> QED  BY <1>2, <1>4, <1>7, <1>8, <1>9

-----------------------------------------------------------------------------
(* Calls *)

\* What another call's step leaves of a call: all but own.
Kept(k, next) == next = k \/ (k # Idle /\ next = [k EXCEPT !.own = FALSE])

LEMMA CallFields ==
    ASSUME NEW k \in CallStates, k # Idle
    PROVE  /\ k.pc \in {"set", "sadd", "expire", "smembers", "mget", "done"}
           /\ k.user \in Users /\ k.own \in BOOLEAN
           /\ k.device \in Devices \cup {Gone} /\ k.status \in DOMAIN Rank
           /\ k.pc \in {"set", "sadd", "expire"} => k \in UpdateStates
           /\ k.ids \in SUBSET Devices
<1>1. CASE k \in UpdateStates
  BY <1>1 DEF UpdateStates
<1>2. CASE k \in ReadStates
  BY <1>2, RankValue DEF ReadStates
<1> QED  BY <1>1, <1>2 DEF CallStates

LEMMA IdleCall ==
    ASSUME NEW k \in CallStates
    PROVE  k = Idle <=> k.pc = "idle"
BY CallFields DEF Idle

LEMMA KeptFacts ==
    ASSUME NEW k \in CallStates, NEW next, Kept(k, next)
    PROVE  /\ next \in CallStates
           /\ next.pc = k.pc
           /\ next.pc # "idle" => next.device = k.device /\ next.user = k.user
           /\ next.pc # "idle" /\ next.own => next = k
<1>1. CASE k = Idle
  BY <1>1 DEF Kept, Idle
<1>2. CASE k # Idle /\ next = k
  BY <1>2
<1>3. CASE k \in UpdateStates /\ next = [k EXCEPT !.own = FALSE]
  <2>1. next \in UpdateStates /\ next.pc = k.pc /\ next.device = k.device
        /\ next.user = k.user /\ next.own = FALSE
    BY <1>3 DEF UpdateStates
  <2> QED  BY <2>1 DEF CallStates
<1>4. CASE k \in ReadStates /\ next = [k EXCEPT !.own = FALSE]
  <2>1. next \in ReadStates /\ next.pc = k.pc /\ next.device = k.device
        /\ next.user = k.user /\ next.own = FALSE
    BY <1>4 DEF ReadStates
  <2> QED  BY <2>1 DEF CallStates
<1> QED  BY <1>1, <1>2, <1>3, <1>4 DEF Kept, CallStates

\* The calls of S are as they were, but for what they know to be still there.
Frame(S) ==
    \A x \in S :
        /\ calls'[x].pc = calls[x].pc
        /\ calls[x].pc # "idle" => calls'[x].device = calls[x].device /\ calls'[x].user = calls[x].user
        /\ calls[x].pc # "idle" /\ calls'[x].own => calls'[x] = calls[x]

LEMMA FrameFacts ==
    ASSUME TypeOK, NEW S \in SUBSET Calls,
           \A x \in S : Kept(calls[x], calls'[x])
    PROVE  Frame(S) /\ (\A x \in S : calls'[x] \in CallStates)
<1> SUFFICES ASSUME NEW x \in S
             PROVE  /\ calls'[x] \in CallStates
                    /\ calls'[x].pc = calls[x].pc
                    /\ calls[x].pc # "idle" => calls'[x].device = calls[x].device /\ calls'[x].user = calls[x].user
                    /\ calls[x].pc # "idle" /\ calls'[x].own => calls'[x] = calls[x]
  BY DEF Frame
<1>1. PICK k \in CallStates : k = calls[x]
  BY DEF TypeOK
<1>2. Kept(k, calls'[x])
  BY <1>1
<1> QED  BY <1>1, <1>2, KeptFacts

\* A step of call c, to next.
Moves(c, next) ==
    /\ calls' = [x \in Calls |-> calls'[x]]
    /\ calls'[c] = next
    /\ \A x \in Calls \ {c} : Kept(calls[x], calls'[x])

LEMMA MovesFacts ==
    ASSUME TypeOK, NEW c \in Calls, NEW next \in CallStates, Moves(c, next)
    PROVE  calls' \in [Calls -> CallStates] /\ Frame(Calls \ {c}) /\ calls'[c] = next
<1>1. Frame(Calls \ {c}) /\ (\A x \in Calls \ {c} : calls'[x] \in CallStates)
  BY FrameFacts DEF Moves
<1>2. \A x \in Calls : calls'[x] \in CallStates
  BY <1>1 DEF Moves
<1>3. calls' = [x \in Calls |-> calls'[x]] /\ calls'[c] = next
  BY DEF Moves
<1> QED  BY <1>1, <1>2, <1>3

LEMMA StepMoves ==
    ASSUME NEW c \in Calls, NEW next, Step(c, next, Unaffected)
    PROVE  Moves(c, next)
BY DEF Step, Unaffected, Moves, Kept

-----------------------------------------------------------------------------
(* Invariance *)

LEMMA InvInit == Init => Inv
<1> SUFFICES ASSUME Init PROVE Inv
  OBVIOUS
<1> USE DEF Init
<1>1. TypeOK
  <2>1. device \in [Devices -> [user : Users \cup {NoUser}, status : DOMAIN Rank, left : 0..Forever]]
    BY RankValue DEF Gone, Forever
  <2>2. index \in [Users -> [members : SUBSET Devices, left : 0..Forever]]
    BY DEF Empty, Forever
  <2>3. calls \in [Calls -> CallStates]
    BY DEF CallStates
  <2> QED  BY <2>1, <2>2, <2>3 DEF TypeOK, Empty
<1>2. Keys /\ Covered
  BY DEF Keys, Covered, Live
<1>3. Writes /\ ReadsOwnWrite
  BY DEF Writes, ReadsOwnWrite, Idle
<1> QED  BY <1>1, <1>2, <1>3 DEF Inv

\* A step that only reads, or begins or ends a call that is not writing.
LEMMA QuietStep ==
    ASSUME Inv, NEW c \in Calls, NEW next \in CallStates, Moves(c, next),
           calls[c].pc \notin {"sadd", "expire"},
           UNCHANGED <<device, index, unlisted>>,
           next # Idle /\ next.own => Owned(next),
           next.pc = "done" /\ next.own => Rank[next.answer] >= Rank[next.status]
    PROVE  /\ calls' \in [Calls -> CallStates]
           /\ Keys' /\ Covered' /\ Writes' /\ ReadsOwnWrite'
<1>1. TypeOK /\ Keys /\ Covered /\ Writes /\ ReadsOwnWrite
  BY DEF Inv
<1>2. calls' \in [Calls -> CallStates] /\ Frame(Calls \ {c}) /\ calls'[c] = next
  BY <1>1, MovesFacts
<1>3. Keys'
  BY <1>1 DEF Keys
<1>4. Covered'
  <2> SUFFICES ASSUME NEW d \in Devices, Live(d), d \notin unlisted, ~Listed(d)
               PROVE  \E x \in Calls : /\ calls'[x].pc \in {"sadd", "expire"} /\ calls'[x].device = d
                                        /\ calls'[x].user = device[d].user
    BY DEF Covered, Live, Listed, Writing
  <2>1. PICK x \in Calls : /\ calls[x].pc \in {"sadd", "expire"} /\ calls[x].device = d
                           /\ calls[x].user = device[d].user
    BY <1>1 DEF Covered, Writing
  <2> QED  BY <1>2, <2>1 DEF Frame
<1>5. Writes'
  <2> SUFFICES ASSUME NEW x \in Calls, calls'[x] # Idle, calls'[x].own
               PROVE  Owned(calls[x])'
    BY DEF Writes
  <2>1. CASE x = c
    BY <1>2, <2>1 DEF Owned
  <2>2. CASE x # c
    <3>1. calls'[x].pc # "idle" /\ calls'[x] = calls[x]
      BY <1>2, <2>2, IdleCall DEF Frame
    <3>2. Owned(calls[x])
      BY <1>1, <3>1 DEF Writes
    <3> QED  BY <3>1, <3>2 DEF Owned
  <2> QED  BY <2>1, <2>2
<1>6. ReadsOwnWrite'
  BY <1>1, <1>2 DEF ReadsOwnWrite, Frame
<1> QED  BY <1>2, <1>3, <1>4, <1>5, <1>6

LEMMA UpdateStep ==
    ASSUME Inv, NEW c \in Calls, NEW u \in Users, NEW d \in Devices, NEW s \in Statuses,
           Update(c, u, d, s)
    PROVE  Inv'
<1>1. PICK next \in CallStates :
        /\ next = [pc |-> "set", user |-> u, device |-> d, status |-> s, ids |-> {},
                   answer |-> "offline", own |-> FALSE]
  BY DEF CallStates, UpdateStates
<1>2. Step(c, next, Unaffected) /\ calls[c].pc = "idle"
  BY <1>1 DEF Update, Idle
<1>3. calls' \in [Calls -> CallStates] /\ Keys' /\ Covered' /\ Writes' /\ ReadsOwnWrite'
  BY <1>1, <1>2, StepMoves, QuietStep DEF Update
<1>4. updates' \in 0..MaxUpdates
  BY DEF Update, Inv, TypeOK
<1>5. TypeOK'
  BY <1>3, <1>4 DEF Inv, TypeOK, Update
<1> QED  BY <1>3, <1>5 DEF Inv

LEMMA AskStep ==
    ASSUME Inv, NEW c \in Calls, NEW u \in Users, Ask(c, u)
    PROVE  Inv'
<1>1. PICK next \in CallStates :
        /\ next = [pc |-> "smembers", user |-> u, device |-> Gone, status |-> "offline", ids |-> {},
                   answer |-> "offline", own |-> FALSE]
  BY RankValue DEF CallStates, ReadStates
<1>2. Step(c, next, Unaffected) /\ calls[c].pc = "idle"
  BY <1>1 DEF Ask, Idle
<1>3. calls' \in [Calls -> CallStates] /\ Keys' /\ Covered' /\ Writes' /\ ReadsOwnWrite'
  BY <1>1, <1>2, StepMoves, QuietStep DEF Ask
<1>4. TypeOK'
  BY <1>3 DEF Inv, TypeOK, Ask
<1> QED  BY <1>3, <1>4 DEF Inv

LEMMA ReturnStep ==
    ASSUME Inv, NEW c \in Calls, Return(c)
    PROVE  Inv'
<1>1. Idle \in CallStates /\ Idle.pc = "idle" /\ Moves(c, Idle)
  BY StepMoves DEF CallStates, Idle, Return
<1>2. calls' \in [Calls -> CallStates] /\ Keys' /\ Covered' /\ Writes' /\ ReadsOwnWrite'
  BY <1>1, QuietStep DEF Return
<1>3. TypeOK'
  BY <1>2 DEF Inv, TypeOK, Return
<1> QED  BY <1>2, <1>3 DEF Inv

\* An update that has come to its read is like any other.
LEMMA ReadingCall ==
    ASSUME NEW k \in CallStates, k.pc \in {"smembers", "mget"}
    PROVE  k \in ReadStates /\ k # Idle
<1>1. k # Idle
  BY DEF Idle
<1>2. CASE k \in UpdateStates
  BY <1>1, <1>2, RankValue DEF UpdateStates, ReadStates
<1> QED  BY <1>1, <1>2 DEF CallStates

LEMMA SMembersStep ==
    ASSUME Inv, NEW c \in Calls, SMembers(c)
    PROVE  Inv'
<1>1. PICK k \in CallStates : k = calls[c] /\ k.pc = "smembers"
  BY DEF Inv, TypeOK, SMembers
<1> k \in ReadStates /\ k # Idle
  BY <1>1, ReadingCall
<1>2. PICK ids \in SUBSET Devices : ids = index[k.user].members
  BY DEF Inv, TypeOK, ReadStates
<1>3. PICK pc \in {"done", "mget"} : pc = IF ids = {} THEN "done" ELSE "mget"
  OBVIOUS
<1>4. PICK next \in CallStates :
        /\ next = [k EXCEPT !.pc = pc, !.ids = ids]
        /\ next.pc = pc /\ next.ids = ids /\ next.device = k.device /\ next.user = k.user
        /\ next.own = k.own /\ next.status = k.status
  <2> DEFINE n == [k EXCEPT !.pc = pc, !.ids = ids]
  <2>1. /\ n \in ReadStates
        /\ n.pc = pc /\ n.ids = ids /\ n.device = k.device /\ n.user = k.user
        /\ n.own = k.own /\ n.status = k.status
    BY DEF ReadStates
  <2> QED  BY <2>1 DEF CallStates
<1>5. Step(c, next, Unaffected)
  BY <1>1, <1>2, <1>3, <1>4 DEF SMembers
<1>6. next.own => /\ ids # {} /\ next.pc = "mget" /\ Owned(next)
  <2> SUFFICES ASSUME next.own
               PROVE  ids # {} /\ next.pc = "mget" /\ Owned(next)
    OBVIOUS
  <2>1. Owned(k)
    BY <1>1, <1>4 DEF Inv, Writes
  <2>2. k.device \in ids
    BY <1>1, <1>2, <2>1 DEF Owned
  <2> QED  BY <1>1, <1>3, <1>4, <2>1, <2>2 DEF Owned
<1>7. calls' \in [Calls -> CallStates] /\ Keys' /\ Covered' /\ Writes' /\ ReadsOwnWrite'
  BY <1>1, <1>5, <1>6, StepMoves, QuietStep DEF SMembers
<1>8. TypeOK'
  BY <1>7 DEF Inv, TypeOK, SMembers
<1> QED  BY <1>7, <1>8 DEF Inv

LEMMA MGetStep ==
    ASSUME Inv, NEW c \in Calls, MGet(c)
    PROVE  Inv'
<1>1. PICK k \in CallStates : k = calls[c] /\ k.pc = "mget"
  BY DEF Inv, TypeOK, MGet
<1>2. k \in ReadStates /\ k # Idle
  BY <1>1, ReadingCall
<1>3. PICK answer \in DOMAIN Rank :
        /\ answer = Merged(k.ids)
        /\ \A d \in k.ids : Live(d) => Rank[answer] >= Rank[device[d].status]
  BY <1>2, MergedValue DEF Inv, ReadStates
<1>4. PICK next \in CallStates :
        /\ next = [k EXCEPT !.pc = "done", !.answer = answer, !.ids = {}]
        /\ next.pc = "done" /\ next.answer = answer /\ next.status = k.status /\ next.own = k.own
  <2> DEFINE n == [k EXCEPT !.pc = "done", !.answer = answer, !.ids = {}]
  <2>1. /\ n \in ReadStates
        /\ n.pc = "done" /\ n.answer = answer /\ n.status = k.status /\ n.own = k.own
    BY <1>2 DEF ReadStates
  <2> QED  BY <2>1 DEF CallStates
<1>5. Step(c, next, Unaffected)
  BY <1>1, <1>3, <1>4 DEF MGet
<1>6. next.own => Owned(next) /\ Rank[next.answer] >= Rank[next.status]
  <2> SUFFICES ASSUME next.own
               PROVE  Rank[next.answer] >= Rank[next.status]
    BY <1>4 DEF Owned
  <2>1. Owned(k)
    BY <1>1, <1>2, <1>4 DEF Inv, Writes
  <2>2. k.device \in k.ids /\ Live(k.device) /\ device[k.device].status = k.status
    BY <1>1, <2>1 DEF Owned, Live
  <2> QED  BY <1>3, <1>4, <2>2
<1>7. calls' \in [Calls -> CallStates] /\ Keys' /\ Covered' /\ Writes' /\ ReadsOwnWrite'
  BY <1>1, <1>5, <1>6, StepMoves, QuietStep DEF MGet
<1>8. sweeps' \in SUBSET [user : Users, ids : SUBSET Devices]
  <2>1. Stale(k.ids) \in SUBSET Devices /\ k.user \in Users
    BY <1>2 DEF Stale, ReadStates
  <2>2. [user |-> k.user, ids |-> Stale(k.ids)] \in [user : Users, ids : SUBSET Devices]
    BY <2>1
  <2> QED  BY <1>1, <2>2 DEF Inv, TypeOK, MGet
<1>9. TypeOK'
  BY <1>7, <1>8 DEF Inv, TypeOK, MGet
<1> QED  BY <1>7, <1>9 DEF Inv

LEMMA ReadFailsStep ==
    ASSUME Inv, NEW c \in Calls, ReadFails(c)
    PROVE  Inv'
<1>1. PICK k \in CallStates : k = calls[c] /\ k.pc \in {"smembers", "mget"}
  BY DEF Inv, TypeOK, ReadFails
<1>2. PICK next \in CallStates :
        /\ next = [k EXCEPT !.pc = "done", !.ids = {}, !.own = FALSE]
        /\ next.pc = "done" /\ next.own = FALSE
  <2> DEFINE n == [k EXCEPT !.pc = "done", !.ids = {}, !.own = FALSE]
  <2>1. n \in ReadStates /\ n.pc = "done" /\ n.own = FALSE
    BY <1>1, ReadingCall DEF ReadStates
  <2> QED  BY <2>1 DEF CallStates
<1>3. Step(c, next, Unaffected)
  BY <1>1, <1>2 DEF ReadFails
<1>4. calls' \in [Calls -> CallStates] /\ Keys' /\ Covered' /\ Writes' /\ ReadsOwnWrite'
  BY <1>1, <1>2, <1>3, StepMoves, QuietStep DEF ReadFails
<1>5. faults' \in 0..MaxFaults
  BY DEF Inv, TypeOK, ReadFails
<1>6. TypeOK'
  BY <1>4, <1>5 DEF Inv, TypeOK, ReadFails
<1> QED  BY <1>4, <1>6 DEF Inv

\* A call in the middle of its pipeline.
LEMMA WritingCall ==
    ASSUME TypeOK, NEW c \in Calls, calls[c].pc \in {"set", "sadd", "expire"}
    PROVE  /\ calls[c] \in UpdateStates /\ calls[c] # Idle
           /\ calls[c].user \in Users /\ calls[c].device \in Devices
           /\ calls[c].status \in DOMAIN Rank
<1>1. calls[c] \in CallStates /\ calls[c] # Idle
  BY DEF TypeOK, Idle
<1>2. calls[c] \in UpdateStates
  BY <1>1, CallFields
<1> QED  BY <1>1, <1>2 DEF UpdateStates

LEMMA LostOwn ==
    ASSUME NEW k \in CallStates, k # Idle
    PROVE  [k EXCEPT !.own = FALSE].own = FALSE
<1>1. CASE k \in UpdateStates
  BY <1>1 DEF UpdateStates
<1>2. CASE k \in ReadStates
  BY <1>2 DEF ReadStates
<1> QED  BY <1>1, <1>2 DEF CallStates

LEMMA SetStep ==
    ASSUME Inv, NEW c \in Calls, Set(c)
    PROVE  Inv'
<1>1. TypeOK /\ Keys /\ Covered /\ Writes /\ ReadsOwnWrite
  BY DEF Inv
<1>2. PICK k \in UpdateStates : k = calls[c] /\ k.pc = "set"
  BY <1>1, WritingCall DEF Set
<1>3. k.user \in Users /\ k.device \in Devices /\ k.status \in DOMAIN Rank
  BY <1>2 DEF UpdateStates
<1>4. PICK next \in CallStates :
        /\ next = [k EXCEPT !.pc = "sadd", !.own = TRUE]
        /\ next.pc = "sadd" /\ next.device = k.device /\ next.user = k.user /\ next.status = k.status
  <2> DEFINE n == [k EXCEPT !.pc = "sadd", !.own = TRUE]
  <2>1. /\ n \in UpdateStates
        /\ n.pc = "sadd" /\ n.device = k.device /\ n.user = k.user /\ n.status = k.status
    BY DEF UpdateStates
  <2> QED  BY <2>1 DEF CallStates
<1>5. calls' = [x \in Calls |->
                  IF x = c THEN next
                  ELSE IF calls[x] # Idle /\ calls[x].device = k.device
                       THEN [calls[x] EXCEPT !.own = FALSE] ELSE calls[x]]
  BY <1>2, <1>4 DEF Set, Step
<1>6. Moves(c, next)
  BY <1>5 DEF Moves, Kept
<1>7. calls' \in [Calls -> CallStates] /\ Frame(Calls \ {c}) /\ calls'[c] = next
  BY <1>1, <1>6, MovesFacts
<1>8. \A x \in Calls \ {c} : calls[x] # Idle /\ calls'[x].own => calls[x].device # k.device
  BY <1>1, <1>5, LostOwn DEF TypeOK
<1>9. PICK key \in [user : Users, status : DOMAIN Rank, left : 1..TTL] :
        key = Written(k) /\ key.user = k.user /\ key.status = k.status /\ key # Gone
  <2> DEFINE n == [user |-> k.user, status |-> k.status, left |-> TTL]
  <2>1. n \in [user : Users, status : DOMAIN Rank, left : 1..TTL]
    BY <1>3
  <2>2. n = Written(k) /\ n.user = k.user /\ n.status = k.status
    BY DEF Written
  <2>3. n.user # Gone.user
    BY <1>3 DEF Gone
  <2> QED  BY <2>1, <2>2, <2>3
<1>10. /\ device' = [device EXCEPT ![k.device] = key]
       /\ device'[k.device] = key
       /\ \A d \in Devices \ {k.device} : device'[d] = device[d]
  BY <1>1, <1>2, <1>3, <1>9 DEF Set, TypeOK
<1>11. TypeOK'
  <2>1. key \in [user : Users \cup {NoUser}, status : DOMAIN Rank, left : 0..Forever]
    BY DEF Forever
  <2>2. device' \in [Devices -> [user : Users \cup {NoUser}, status : DOMAIN Rank, left : 0..Forever]]
    BY <1>1, <1>10, <2>1 DEF TypeOK
  <2> QED  BY <1>1, <1>7, <2>2 DEF TypeOK, Set
<1>12. Keys'
  BY <1>1, <1>10 DEF Keys
<1>13. Covered'
  <2> SUFFICES ASSUME NEW d \in Devices, Live(d)', d \notin unlisted, ~Listed(d)'
               PROVE  \E x \in Calls : /\ calls'[x].pc \in {"sadd", "expire"} /\ calls'[x].device = d
                                        /\ calls'[x].user = device'[d].user
    BY DEF Covered, Writing, Set
  <2>1. CASE d = k.device
    <3>1. calls'[c].pc = "sadd" /\ calls'[c].device = d /\ calls'[c].user = k.user
      BY <1>4, <1>7, <2>1
    <3>2. device'[d].user = k.user
      BY <1>9, <1>10, <2>1
    <3> QED  BY <3>1, <3>2
  <2>2. CASE d # k.device
    <3>1. device'[d] = device[d] /\ Live(d) /\ ~Listed(d)
      BY <1>10, <2>2 DEF Live, Listed, Set
    <3>2. PICK x \in Calls : /\ calls[x].pc \in {"sadd", "expire"} /\ calls[x].device = d
                             /\ calls[x].user = device[d].user
      BY <1>1, <3>1 DEF Covered, Writing
    <3> QED  BY <1>2, <1>7, <3>1, <3>2 DEF Frame
  <2> QED  BY <2>1, <2>2
<1>14. Writes'
  <2> SUFFICES ASSUME NEW x \in Calls, calls'[x] # Idle, calls'[x].own
               PROVE  Owned(calls[x])'
    BY DEF Writes
  <2>1. CASE x = c
    <3>1. /\ calls'[x].pc = "sadd" /\ calls'[x].device = k.device
          /\ calls'[x].user = k.user /\ calls'[x].status = k.status
      BY <1>4, <1>7, <2>1
    <3>2. device'[k.device] # Gone
      BY <1>9, <1>10
    <3>3. device'[k.device].user = k.user /\ device'[k.device].status = k.status
      BY <1>9, <1>10
    <3> QED  BY <1>3, <3>1, <3>2, <3>3 DEF Owned
  <2>2. CASE x # c
    <3>1. calls'[x].pc # "idle" /\ calls'[x] = calls[x]
      BY <1>7, <2>2, IdleCall DEF Frame
    <3>2. Owned(calls[x]) /\ calls[x].device # k.device
      BY <1>1, <1>8, <2>2, <3>1 DEF Writes
    <3> QED  BY <1>10, <3>1, <3>2 DEF Owned, Set
  <2> QED  BY <2>1, <2>2
<1>15. ReadsOwnWrite'
  BY <1>1, <1>4, <1>7 DEF ReadsOwnWrite, Frame
<1> QED  BY <1>11, <1>12, <1>13, <1>14, <1>15 DEF Inv

LEMMA SAddStep ==
    ASSUME Inv, NEW c \in Calls, SAdd(c)
    PROVE  Inv'
<1>1. TypeOK /\ Keys /\ Covered /\ Writes /\ ReadsOwnWrite
  BY DEF Inv
<1>2. PICK k \in UpdateStates : k = calls[c] /\ k.pc = "sadd" /\ k # Idle
  BY <1>1, WritingCall DEF SAdd
<1>3. k.user \in Users /\ k.device \in Devices
  BY <1>2 DEF UpdateStates
<1>4. PICK next \in CallStates :
        /\ next = [k EXCEPT !.pc = "expire"]
        /\ next.pc = "expire" /\ next.device = k.device /\ next.user = k.user
        /\ next.status = k.status /\ next.own = k.own
  <2> DEFINE n == [k EXCEPT !.pc = "expire"]
  <2>1. /\ n \in UpdateStates
        /\ n.pc = "expire" /\ n.device = k.device /\ n.user = k.user
        /\ n.status = k.status /\ n.own = k.own
    BY DEF UpdateStates
  <2> QED  BY <2>1 DEF CallStates
<1>5. calls' \in [Calls -> CallStates] /\ Frame(Calls \ {c}) /\ calls'[c] = next
  BY <1>1, <1>2, <1>4, StepMoves, MovesFacts DEF SAdd
<1>6. PICK old \in [members : SUBSET Devices, left : 0..Forever] :
        old = index[k.user] /\ (old.members = {} <=> old.left = 0)
  BY <1>1, <1>3 DEF TypeOK
<1>7. PICK new \in [members : SUBSET Devices, left : 0..Forever] :
        /\ new = [members |-> old.members \cup {k.device},
                  left |-> IF old.members = {} THEN Forever ELSE old.left]
        /\ new.members = old.members \cup {k.device}
        /\ old.members # {} => new.left = old.left
        /\ new.left # 0
  <2>1. PICK left \in 0..Forever : left = (IF old.members = {} THEN Forever ELSE old.left) /\ left # 0
    BY <1>6 DEF Forever
  <2> DEFINE n == [members |-> old.members \cup {k.device}, left |-> left]
  <2>2. n \in [members : SUBSET Devices, left : 0..Forever]
    BY <1>3, <2>1
  <2>3. n.members = old.members \cup {k.device} /\ n.left = left
    OBVIOUS
  <2> QED  BY <2>1, <2>2, <2>3
<1>8. /\ index' = [index EXCEPT ![k.user] = new]
      /\ index'[k.user] = new
      /\ \A v \in Users \ {k.user} : index'[v] = index[v]
  <2>1. index' = [index EXCEPT ![k.user] = new]
    BY <1>2, <1>6, <1>7 DEF SAdd
  <2> QED  BY <1>1, <1>3, <2>1 DEF TypeOK
<1>9. TypeOK'
  <2>1. index' \in [Users -> [members : SUBSET Devices, left : 0..Forever]]
    BY <1>1, <1>8 DEF TypeOK
  <2>2. \A u \in Users : index'[u].members = {} <=> index'[u].left = 0
    BY <1>1, <1>7, <1>8 DEF TypeOK
  <2> QED  BY <1>1, <1>5, <2>1, <2>2 DEF TypeOK, SAdd
<1>10. Keys'
  BY <1>1 DEF Keys, SAdd
<1>11. \A u \in Users, d \in Devices :
         d \in index[u].members => d \in index'[u].members /\ index'[u].left = index[u].left
  BY <1>6, <1>7, <1>8
<1>12. Covered'
  <2> SUFFICES ASSUME NEW d \in Devices, Live(d), d \notin unlisted, ~Listed(d)'
               PROVE  \E x \in Calls : /\ calls'[x].pc \in {"sadd", "expire"} /\ calls'[x].device = d
                                        /\ calls'[x].user = device[d].user
    BY DEF Covered, Writing, Live, SAdd
  <2>1. device[d].user \in Users
    BY <1>1 DEF Keys, Live
  <2>2. ~Listed(d)
    BY <1>11, <2>1 DEF Listed, SAdd
  <2>3. PICK x \in Calls : /\ calls[x].pc \in {"sadd", "expire"} /\ calls[x].device = d
                           /\ calls[x].user = device[d].user
    BY <1>1, <2>2 DEF Covered, Writing
  <2>4. CASE x = c
    <3>1. calls'[x].pc = "expire" /\ calls'[x].device = k.device /\ calls'[x].user = k.user
      BY <1>4, <1>5, <2>4
    <3>2. k.device = d /\ k.user = device[d].user
      BY <1>2, <2>3, <2>4
    <3> QED  BY <3>1, <3>2
  <2>5. CASE x # c
    BY <1>5, <2>3, <2>5 DEF Frame
  <2> QED  BY <2>4, <2>5
<1>13. Writes'
  <2> SUFFICES ASSUME NEW x \in Calls, calls'[x] # Idle, calls'[x].own
               PROVE  Owned(calls[x])'
    BY DEF Writes
  <2>1. CASE x = c
    <3>1. Owned(k)
      BY <1>1, <1>2, <1>4, <1>5, <2>1 DEF Writes
    <3>2. /\ calls'[x].pc = "expire" /\ calls'[x].device = k.device
          /\ calls'[x].user = k.user /\ calls'[x].status = k.status
      BY <1>4, <1>5, <2>1
    <3>3. k.device \in index'[k.user].members
      BY <1>7, <1>8
    <3>4. device' = device
      BY DEF SAdd
    <3> QED  BY <1>2, <3>1, <3>2, <3>3, <3>4 DEF Owned
  <2>2. CASE x # c
    <3>1. calls'[x].pc # "idle" /\ calls'[x] = calls[x]
      BY <1>5, <2>2, IdleCall DEF Frame
    <3>2. Owned(calls[x]) /\ calls[x].user \in Users
      BY <1>1, <3>1, CallFields DEF Writes, TypeOK
    <3> QED  BY <1>11, <3>1, <3>2 DEF Owned, SAdd
  <2> QED  BY <2>1, <2>2
<1>14. ReadsOwnWrite'
  BY <1>1, <1>4, <1>5 DEF ReadsOwnWrite, Frame
<1> QED  BY <1>9, <1>10, <1>12, <1>13, <1>14 DEF Inv

\* EXPIRE makes the set outlive every device in it, and finds out whether the
\* device that the update is about is still there.
LEMMA ExpireIndexStep ==
    ASSUME Inv, NEW c \in Calls, ExpireIndex(c)
    PROVE  Inv'
<1>1. TypeOK /\ Keys /\ Covered /\ Writes /\ ReadsOwnWrite
  BY DEF Inv
<1>2. PICK k \in UpdateStates : k = calls[c] /\ k.pc = "expire" /\ k # Idle
  BY <1>1, WritingCall DEF ExpireIndex
<1>3. k.user \in Users /\ k.device \in Devices
  BY <1>2 DEF UpdateStates
<1>4. PICK next \in CallStates :
        /\ next = [k EXCEPT !.pc = "smembers"]
        /\ next.pc = "smembers" /\ next.device = k.device /\ next.user = k.user
        /\ next.status = k.status /\ next.own = k.own
  <2> DEFINE n == [k EXCEPT !.pc = "smembers"]
  <2>1. /\ n \in UpdateStates
        /\ n.pc = "smembers" /\ n.device = k.device /\ n.user = k.user
        /\ n.status = k.status /\ n.own = k.own
    BY DEF UpdateStates
  <2> QED  BY <2>1 DEF CallStates
<1>5. calls' \in [Calls -> CallStates] /\ Frame(Calls \ {c}) /\ calls'[c] = next
  BY <1>1, <1>2, <1>4, StepMoves, MovesFacts DEF ExpireIndex
<1>6. PICK old \in [members : SUBSET Devices, left : 0..Forever] : old = index[k.user]
  BY <1>1, <1>3 DEF TypeOK
<1>7. PICK new \in [members : SUBSET Devices, left : 0..Forever] :
        /\ new = [old EXCEPT !.left = Prolonged(old)]
        /\ new.members = old.members
        /\ old.members # {} => new.left = TTL
        /\ old.members = {} => new.left = 0
  <2>1. PICK left \in 0..Forever :
          /\ left = Prolonged(old)
          /\ old.members # {} => left = TTL
          /\ old.members = {} => left = 0
    BY DEF Forever, Prolonged
  <2> DEFINE n == [old EXCEPT !.left = left]
  <2>2. n \in [members : SUBSET Devices, left : 0..Forever] /\ n.members = old.members /\ n.left = left
    OBVIOUS
  <2> QED  BY <2>1, <2>2
<1>8. /\ index' = [index EXCEPT ![k.user] = new]
      /\ index'[k.user] = new
      /\ \A v \in Users \ {k.user} : index'[v] = index[v]
  <2>1. index' = [index EXCEPT ![k.user].left = Prolonged(index[k.user])]
    BY <1>2 DEF ExpireIndex
  <2>2. index' = [index EXCEPT ![k.user] = new]
    BY <1>1, <1>3, <1>6, <1>7, <2>1 DEF TypeOK
  <2> QED  BY <1>1, <1>3, <2>2 DEF TypeOK
<1>9. /\ unlisted' \subseteq Devices
      /\ \A d \in Devices \ {k.device} : d \in unlisted' <=> d \in unlisted
      /\ device[k.device].user # k.user => unlisted' = unlisted
      /\ device[k.device].user = k.user => k.device \in index[k.user].members \/ k.device \in unlisted'
  BY <1>1, <1>2, <1>3 DEF ExpireIndex, TypeOK
<1>10. TypeOK'
  <2>1. index' \in [Users -> [members : SUBSET Devices, left : 0..Forever]]
    BY <1>1, <1>8 DEF TypeOK
  <2>2. \A u \in Users : index'[u].members = {} <=> index'[u].left = 0
    BY <1>1, <1>7, <1>8 DEF TypeOK
  <2> QED  BY <1>1, <1>5, <1>9, <2>1, <2>2 DEF TypeOK, ExpireIndex
<1>11. Keys' /\ device' = device
  BY <1>1 DEF Keys, ExpireIndex
<1>12. \A u \in Users : index'[u].members = index[u].members
  BY <1>6, <1>7, <1>8
<1>13. Covered'
  <2> SUFFICES ASSUME NEW d \in Devices, Live(d), d \notin unlisted', ~Listed(d)'
               PROVE  \E x \in Calls : /\ calls'[x].pc \in {"sadd", "expire"} /\ calls'[x].device = d
                                        /\ calls'[x].user = device[d].user
    BY <1>11 DEF Covered, Writing, Live
  <2>1. device[d].user \in Users /\ device[d].left \in 1..TTL
    BY <1>1 DEF Keys, Live
  <2>2. ~Listed(d)
    <3>1. CASE device[d].user = k.user
      <4>1. d \in index[k.user].members => new.left = TTL /\ d \in new.members
        BY <1>6, <1>7
      <4>2. d \notin index[k.user].members
        BY <1>8, <1>11, <2>1, <3>1, <4>1 DEF Listed
      <4> QED  BY <3>1, <4>2 DEF Listed
    <3>2. CASE device[d].user # k.user
      BY <1>8, <1>11, <2>1, <3>2 DEF Listed
    <3> QED  BY <3>1, <3>2
  <2>3. d # k.device \/ device[d].user # k.user
    <3> SUFFICES ASSUME d = k.device, device[d].user = k.user PROVE FALSE
      OBVIOUS
    <3>1. d \in index[k.user].members
      BY <1>9
    <3>2. d \in new.members /\ new.left = TTL
      BY <1>6, <1>7, <3>1
    <3> QED  BY <1>8, <1>11, <2>1, <3>2 DEF Listed
  <2>4. d \notin unlisted
    BY <1>9, <2>3
  <2>5. PICK x \in Calls : /\ calls[x].pc \in {"sadd", "expire"} /\ calls[x].device = d
                           /\ calls[x].user = device[d].user
    BY <1>1, <2>2, <2>4 DEF Covered, Writing
  <2>6. x # c
    BY <1>2, <2>3, <2>5
  <2> QED  BY <1>5, <2>5, <2>6 DEF Frame
<1>14. Writes'
  <2> SUFFICES ASSUME NEW x \in Calls, calls'[x] # Idle, calls'[x].own
               PROVE  Owned(calls[x])'
    BY DEF Writes
  <2>1. CASE x = c
    <3>1. Owned(k)
      BY <1>1, <1>2, <1>4, <1>5, <2>1 DEF Writes
    <3>2. /\ calls'[x].pc = "smembers" /\ calls'[x].device = k.device
          /\ calls'[x].user = k.user /\ calls'[x].status = k.status
      BY <1>4, <1>5, <2>1
    <3> QED  BY <1>2, <1>3, <1>11, <1>12, <3>1, <3>2 DEF Owned
  <2>2. CASE x # c
    <3>1. calls'[x].pc # "idle" /\ calls'[x] = calls[x]
      BY <1>5, <2>2, IdleCall DEF Frame
    <3>2. Owned(calls[x]) /\ calls[x].user \in Users
      BY <1>1, <3>1, CallFields DEF Writes, TypeOK
    <3> QED  BY <1>11, <1>12, <3>1, <3>2 DEF Owned
  <2> QED  BY <2>1, <2>2
<1>15. ReadsOwnWrite'
  BY <1>1, <1>4, <1>5 DEF ReadsOwnWrite, Frame
<1> QED  BY <1>10, <1>11, <1>13, <1>14, <1>15 DEF Inv

LEMMA CutOffStep ==
    ASSUME Inv, NEW c \in Calls, CutOff(c)
    PROVE  Inv'
<1>1. TypeOK /\ Keys /\ Covered /\ Writes /\ ReadsOwnWrite
  BY DEF Inv
<1>2. Idle \in CallStates /\ Idle.pc = "idle" /\ Moves(c, Idle)
  BY StepMoves DEF CallStates, Idle, CutOff
<1>3. calls' \in [Calls -> CallStates] /\ Frame(Calls \ {c}) /\ calls'[c] = Idle
  BY <1>1, <1>2, MovesFacts
<1>4. c \in UNION {Writing(d) : d \in Devices} =>
          calls[c].pc \in {"sadd", "expire"} /\ calls[c].device \in Devices
  BY DEF Writing
<1>5. /\ unlisted' \subseteq Devices /\ unlisted \subseteq unlisted'
      /\ \A d \in Devices : c \in Writing(d) => d \in unlisted'
  <2>1. unlisted' \subseteq Devices /\ unlisted \subseteq unlisted'
    BY <1>1, <1>4 DEF TypeOK, CutOff
  <2>2. ASSUME NEW d \in Devices, c \in Writing(d) PROVE d \in unlisted'
    BY <2>2 DEF CutOff, Writing
  <2> QED  BY <2>1, <2>2
<1>6. TypeOK'
  <2>1. faults' \in 0..MaxFaults
    BY <1>1 DEF TypeOK, CutOff
  <2> QED  BY <1>1, <1>3, <1>5, <2>1 DEF TypeOK, CutOff
<1>7. Keys' /\ device' = device /\ index' = index
  BY <1>1 DEF Keys, CutOff
<1>8. Covered'
  <2> SUFFICES ASSUME NEW d \in Devices, Live(d), d \notin unlisted', ~Listed(d)
               PROVE  \E x \in Calls : /\ calls'[x].pc \in {"sadd", "expire"} /\ calls'[x].device = d
                                        /\ calls'[x].user = device[d].user
    BY <1>7 DEF Covered, Writing, Live, Listed
  <2>1. PICK x \in Writing(d) : calls[x].user = device[d].user
    BY <1>1, <1>5 DEF Covered
  <2>2. x # c
    BY <1>5, <2>1
  <2> QED  BY <1>3, <2>1, <2>2 DEF Frame, Writing
<1>9. Writes'
  <2> SUFFICES ASSUME NEW x \in Calls, calls'[x] # Idle, calls'[x].own
               PROVE  Owned(calls[x])'
    BY DEF Writes
  <2>1. x # c
    BY <1>3
  <2>2. calls'[x].pc # "idle" /\ calls'[x] = calls[x]
    BY <1>3, <2>1, IdleCall DEF Frame
  <2>3. Owned(calls[x])
    BY <1>1, <2>2 DEF Writes
  <2> QED  BY <1>7, <2>2, <2>3 DEF Owned
<1>10. ReadsOwnWrite'
  BY <1>1, <1>2, <1>3 DEF ReadsOwnWrite, Frame
<1> QED  BY <1>6, <1>7, <1>8, <1>9, <1>10 DEF Inv

\* A removal that comes late unlists the devices that are back; the others of the
\* set stay.
LEMMA SRemStep ==
    ASSUME Inv, NEW w \in sweeps, SRem(w)
    PROVE  Inv'
<1>1. TypeOK /\ Keys /\ Covered /\ Writes /\ ReadsOwnWrite
  BY DEF Inv
<1>2. w.user \in Users /\ w.ids \in SUBSET Devices
  BY <1>1 DEF TypeOK
<1>3. PICK old \in [members : SUBSET Devices, left : 0..Forever] :
        old = index[w.user] /\ (old.members = {} <=> old.left = 0)
  BY <1>1, <1>2 DEF TypeOK
<1>4. PICK new \in [members : SUBSET Devices, left : 0..Forever] :
        /\ new = IF old.members \ w.ids = {} THEN Empty ELSE [old EXCEPT !.members = old.members \ w.ids]
        /\ new.members = old.members \ w.ids
        /\ new.members # {} => new.left = old.left
        /\ new.members = {} => new.left = 0
  <2>1. CASE old.members \ w.ids = {}
    <3>1. Empty \in [members : SUBSET Devices, left : 0..Forever] /\ Empty.members = {} /\ Empty.left = 0
      BY DEF Empty, Forever
    <3> QED  BY <2>1, <3>1
  <2>2. CASE old.members \ w.ids # {}
    <3> DEFINE n == [old EXCEPT !.members = old.members \ w.ids]
    <3>1. /\ n \in [members : SUBSET Devices, left : 0..Forever]
          /\ n.members = old.members \ w.ids /\ n.left = old.left
      OBVIOUS
    <3> QED  BY <2>2, <3>1
  <2> QED  BY <2>1, <2>2
<1>5. /\ index' = [index EXCEPT ![w.user] = new]
      /\ index'[w.user] = new
      /\ \A v \in Users \ {w.user} : index'[v] = index[v]
  <2>1. index' = [index EXCEPT ![w.user] = new]
    BY <1>3, <1>4 DEF SRem
  <2> QED  BY <1>1, <1>2, <2>1 DEF TypeOK
<1>6. /\ calls' = [x \in Calls |-> calls'[x]]
      /\ \A x \in Calls : Kept(calls[x], calls'[x])
  BY DEF SRem, Kept
<1>7. Frame(Calls) /\ calls' \in [Calls -> CallStates]
  <2>1. Frame(Calls) /\ (\A x \in Calls : calls'[x] \in CallStates)
    BY <1>1, <1>6, FrameFacts
  <2> QED  BY <1>6, <2>1
<1>8. \A x \in Calls : calls[x] # Idle /\ calls'[x].own /\ calls[x].user = w.user =>
                          calls[x].device \notin w.ids \cap index[w.user].members
  BY <1>1, LostOwn DEF SRem, TypeOK
<1>9. /\ unlisted' = unlisted \cup {d \in w.ids \cap index[w.user].members :
                                       Live(d) /\ device[d].user = w.user}
      /\ device' = device
  BY DEF SRem
<1>10. TypeOK'
  <2>1. index' \in [Users -> [members : SUBSET Devices, left : 0..Forever]]
    BY <1>1, <1>5 DEF TypeOK
  <2>2. \A u \in Users : index'[u].members = {} <=> index'[u].left = 0
    BY <1>1, <1>3, <1>4, <1>5 DEF TypeOK
  <2>3. unlisted' \in SUBSET Devices
    BY <1>1, <1>2, <1>9 DEF TypeOK
  <2> QED  BY <1>1, <1>7, <2>1, <2>2, <2>3 DEF TypeOK, SRem
<1>11. Keys'
  BY <1>1, <1>9 DEF Keys
<1>12. \A u \in Users, d \in Devices :
         d \in index[u].members /\ (u # w.user \/ d \notin w.ids) =>
             d \in index'[u].members /\ index'[u].left = index[u].left
  BY <1>3, <1>4, <1>5
<1>13. Covered'
  <2> SUFFICES ASSUME NEW d \in Devices, Live(d), d \notin unlisted', ~Listed(d)'
               PROVE  \E x \in Calls : /\ calls'[x].pc \in {"sadd", "expire"} /\ calls'[x].device = d
                                        /\ calls'[x].user = device[d].user
    BY <1>9 DEF Covered, Writing, Live
  <2>1. device[d].user \in Users /\ d \notin unlisted
    BY <1>1, <1>9 DEF Keys, Live
  <2>2. ~Listed(d)
    <3> SUFFICES ASSUME Listed(d) PROVE FALSE
      OBVIOUS
    <3>1. d \in index[device[d].user].members
      BY DEF Listed
    <3>2. device[d].user # w.user \/ d \notin w.ids
      BY <1>9, <3>1
    <3> QED  BY <1>9, <1>12, <2>1, <3>1, <3>2 DEF Listed
  <2>3. PICK x \in Calls : /\ calls[x].pc \in {"sadd", "expire"} /\ calls[x].device = d
                           /\ calls[x].user = device[d].user
    BY <1>1, <2>1, <2>2 DEF Covered, Writing
  <2> QED  BY <1>7, <2>3 DEF Frame
<1>14. Writes'
  <2> SUFFICES ASSUME NEW x \in Calls, calls'[x] # Idle, calls'[x].own
               PROVE  Owned(calls[x])'
    BY DEF Writes
  <2>1. calls'[x].pc # "idle" /\ calls'[x] = calls[x]
    BY <1>7, IdleCall DEF Frame
  <2>2. Owned(calls[x]) /\ calls[x].user \in Users
    BY <1>1, <2>1, CallFields DEF Writes, TypeOK
  <2>3. calls[x].user = w.user => calls[x].device \notin w.ids \cap index[w.user].members
    BY <1>8, <2>1
  <2>4. calls[x].pc \in {"expire", "smembers"} => calls[x].device \in index'[calls[x].user].members
    BY <1>12, <2>2, <2>3 DEF Owned
  <2> QED  BY <1>9, <2>1, <2>2, <2>4 DEF Owned
<1>15. ReadsOwnWrite'
  BY <1>1, <1>7 DEF ReadsOwnWrite, Frame
<1> QED  BY <1>10, <1>11, <1>13, <1>14, <1>15 DEF Inv

\* A tick later, the key of a device is gone or has the same owner and status.
LEMMA AgedKey ==
    ASSUME NEW key \in [user : Users, status : DOMAIN Rank, left : 1..TTL]
    PROVE  /\ key.left = 1 => Aged(key, Gone) = Gone
           /\ key.left # 1 => /\ Aged(key, Gone) \in [user : Users, status : DOMAIN Rank, left : 1..TTL]
                              /\ Aged(key, Gone).user = key.user
                              /\ Aged(key, Gone).status = key.status
                              /\ Aged(key, Gone).left = key.left - 1
<1>1. key.left \in 1..TTL /\ key.left # Forever
  BY DEF Forever
<1>2. key.left = 1 => Aged(key, Gone) = Gone
  BY DEF Aged
<1>3. ASSUME key.left # 1
      PROVE  /\ Aged(key, Gone) \in [user : Users, status : DOMAIN Rank, left : 1..TTL]
             /\ Aged(key, Gone).user = key.user
             /\ Aged(key, Gone).status = key.status
             /\ Aged(key, Gone).left = key.left - 1
  <2>1. Aged(key, Gone) = [key EXCEPT !.left = key.left - 1]
    BY <1>1, <1>3 DEF Aged
  <2>2. key.left - 1 \in 1..TTL
    BY <1>1, <1>3
  <2> QED  BY <2>1, <2>2
<1> QED  BY <1>2, <1>3

\* And a set is gone or has the same members.
LEMMA AgedSet ==
    ASSUME NEW set \in [members : SUBSET Devices, left : 0..Forever],
           set.members = {} <=> set.left = 0
    PROVE  /\ set.left <= 1 => Aged(set, Empty) = Empty
           /\ set.left > 1 => /\ Aged(set, Empty) \in [members : SUBSET Devices, left : 0..Forever]
                              /\ Aged(set, Empty).members = set.members
                              /\ Aged(set, Empty).left \in 1..Forever
                              /\ Aged(set, Empty).left >= set.left - 1
<1>1. set.left \in 0..Forever /\ Forever \in Nat
  BY DEF Forever
<1>2. set.left <= 1 => Aged(set, Empty) = Empty
  BY DEF Aged
<1>3. CASE set.left > 1 /\ set.left = Forever
  <2>1. Aged(set, Empty) = set
    BY <1>1, <1>3 DEF Aged
  <2> QED  BY <1>1, <1>2, <1>3, <2>1
<1>4. CASE set.left > 1 /\ set.left # Forever
  <2>1. Aged(set, Empty) = [set EXCEPT !.left = set.left - 1]
    BY <1>1, <1>4 DEF Aged
  <2>2. set.left - 1 \in 1..Forever /\ set.left - 1 \in 0..Forever
    BY <1>1, <1>4
  <2> QED  BY <1>1, <1>2, <1>4, <2>1, <2>2
<1> QED  BY <1>1, <1>2, <1>3, <1>4

LEMMA TickStep ==
    ASSUME Inv, Tick
    PROVE  Inv'
<1>1. TypeOK /\ Keys /\ Covered /\ Writes /\ ReadsOwnWrite
  BY DEF Inv
<1> DEFINE Key == [user : Users, status : DOMAIN Rank, left : 1..TTL]
<1>2. \A d \in Devices :
        /\ device[d] = Gone \/ device[d] \in Key
        /\ device[d] = Gone => device'[d] = Gone /\ device[d].left = 0
        /\ device[d] # Gone /\ device[d].left = 1 => device'[d] = Gone
        /\ device[d] # Gone /\ device[d].left # 1 =>
               /\ device'[d] \in Key
               /\ device'[d].user = device[d].user /\ device'[d].status = device[d].status
               /\ device[d].left \in 1..TTL /\ device'[d].left = device[d].left - 1
  <2> SUFFICES ASSUME NEW d \in Devices
               PROVE  /\ device[d] = Gone \/ device[d] \in Key
                      /\ device[d] = Gone => device'[d] = Gone /\ device[d].left = 0
                      /\ device[d] # Gone /\ device[d].left = 1 => device'[d] = Gone
                      /\ device[d] # Gone /\ device[d].left # 1 =>
                             /\ device'[d] \in Key
                             /\ device'[d].user = device[d].user /\ device'[d].status = device[d].status
                             /\ device[d].left \in 1..TTL /\ device'[d].left = device[d].left - 1
    OBVIOUS
  <2>1. PICK key \in {Gone} \cup Key : key = device[d]
    BY <1>1 DEF Keys
  <2>2. device'[d] = Aged(key, Gone)
    BY <2>1 DEF Tick
  <2>3. CASE key = Gone
    <3>1. Gone.left = 0
      BY DEF Gone
    <3>2. Aged(Gone, Gone) = Gone
      BY <3>1 DEF Aged
    <3> QED  BY <2>1, <2>2, <2>3, <3>1, <3>2
  <2>4. CASE key \in Key
    <3>1. key # Gone /\ key.left \in 1..TTL
      BY <2>4 DEF Gone
    <3>2. /\ key.left = 1 => Aged(key, Gone) = Gone
          /\ key.left # 1 => /\ Aged(key, Gone) \in Key
                             /\ Aged(key, Gone).user = key.user
                             /\ Aged(key, Gone).status = key.status
                             /\ Aged(key, Gone).left = key.left - 1
      BY <2>4, AgedKey
    <3> HIDE DEF Key
    <3> QED  BY <2>1, <2>2, <2>4, <3>1, <3>2
  <2> QED  BY <2>1, <2>3, <2>4
<1>3. \A d \in Devices : device'[d] # Gone =>
         /\ device[d] # Gone /\ device[d].left \in 1..TTL /\ device[d].left # 1
         /\ device'[d].user = device[d].user /\ device[d].user \in Users
         /\ device'[d].left = device[d].left - 1
  BY <1>2
<1>4. \A u \in Users :
        /\ index[u].left \in 0..Forever
        /\ index[u].left <= 1 => index'[u] = Empty
        /\ index[u].left > 1 => /\ index'[u] \in [members : SUBSET Devices, left : 0..Forever]
                                /\ index'[u].members = index[u].members
                                /\ index'[u].left \in 1..Forever
                                /\ index'[u].left >= index[u].left - 1
  <2> SUFFICES ASSUME NEW u \in Users
               PROVE  /\ index[u].left \in 0..Forever
                      /\ index[u].left <= 1 => index'[u] = Empty
                      /\ index[u].left > 1 =>
                             /\ index'[u] \in [members : SUBSET Devices, left : 0..Forever]
                             /\ index'[u].members = index[u].members
                             /\ index'[u].left \in 1..Forever
                             /\ index'[u].left >= index[u].left - 1
    OBVIOUS
  <2>1. PICK set \in [members : SUBSET Devices, left : 0..Forever] :
          set = index[u] /\ (set.members = {} <=> set.left = 0)
    BY <1>1 DEF TypeOK
  <2>2. index'[u] = Aged(set, Empty)
    BY <2>1 DEF Tick
  <2> QED  BY <2>1, <2>2, AgedSet
<1> HIDE DEF Key
<1>5. /\ calls' = [x \in Calls |-> calls'[x]]
      /\ \A x \in Calls : Kept(calls[x], calls'[x])
  BY DEF Tick, Kept
<1>6. Frame(Calls) /\ calls' \in [Calls -> CallStates]
  <2>1. Frame(Calls) /\ (\A x \in Calls : calls'[x] \in CallStates)
    BY <1>1, <1>5, FrameFacts
  <2> QED  BY <1>5, <2>1
<1>7. \A x \in Calls : calls[x] # Idle /\ calls'[x].own =>
         /\ index[calls[x].user].left # 1
         /\ calls[x].device \in Devices => device[calls[x].device].left # 1
  BY <1>1, LostOwn DEF Tick, TypeOK
<1>8. \A d \in Devices : device'[d] # Gone => (d \in unlisted' <=> d \in unlisted)
  <2>1. unlisted' = unlisted \ {d \in Devices : device[d].left <= 1}
    BY DEF Tick
  <2>2. \A d \in Devices : device'[d] # Gone => ~(device[d].left <= 1)
    BY <1>3
  <2> QED  BY <2>1, <2>2
<1>9. TypeOK'
  <2>1. \A d \in Devices : device'[d] \in [user : Users \cup {NoUser}, status : DOMAIN Rank, left : 0..Forever]
    <3>1. Gone \in [user : Users \cup {NoUser}, status : DOMAIN Rank, left : 0..Forever]
      BY RankValue DEF Gone, Forever
    <3>2. Key \subseteq [user : Users \cup {NoUser}, status : DOMAIN Rank, left : 0..Forever]
      BY DEF Key, Forever
    <3> QED  BY <1>2, <3>1, <3>2
  <2>2. device' \in [Devices -> [user : Users \cup {NoUser}, status : DOMAIN Rank, left : 0..Forever]]
    <3>1. device' = [d \in Devices |-> Aged(device[d], Gone)]
      BY DEF Tick
    <3> QED  BY <2>1, <3>1
  <2>3. \A u \in Users : /\ index'[u] \in [members : SUBSET Devices, left : 0..Forever]
                         /\ index'[u].members = {} <=> index'[u].left = 0
    <3> SUFFICES ASSUME NEW u \in Users
                 PROVE  /\ index'[u] \in [members : SUBSET Devices, left : 0..Forever]
                        /\ index'[u].members = {} <=> index'[u].left = 0
      OBVIOUS
    <3>1. CASE index[u].left <= 1
      BY <1>4, <3>1 DEF Empty, Forever
    <3>2. CASE index[u].left > 1
      <4>1. index[u].members # {}
        BY <1>1, <3>2 DEF TypeOK
      <4> QED  BY <1>4, <3>2, <4>1
    <3> QED  BY <1>4, <3>1, <3>2 DEF Forever
  <2>4. index' \in [Users -> [members : SUBSET Devices, left : 0..Forever]]
    <3>1. index' = [u \in Users |-> Aged(index[u], Empty)]
      BY DEF Tick
    <3> QED  BY <2>3, <3>1
  <2>5. unlisted' \in SUBSET Devices
    BY <1>1 DEF TypeOK, Tick
  <2> QED  BY <1>1, <1>6, <2>2, <2>3, <2>4, <2>5 DEF TypeOK, Tick
<1>10. Keys'
  BY <1>2 DEF Keys, Key
<1>11. Covered'
  <2> SUFFICES ASSUME NEW d \in Devices, device'[d] # Gone, d \notin unlisted', ~Listed(d)'
               PROVE  \E x \in Calls : /\ calls'[x].pc \in {"sadd", "expire"} /\ calls'[x].device = d
                                        /\ calls'[x].user = device'[d].user
    BY DEF Covered, Writing, Live
  <2>1. d \notin unlisted /\ Live(d)
    BY <1>3, <1>8 DEF Live
  <2>2. ~Listed(d)
    <3> SUFFICES ASSUME Listed(d) PROVE FALSE
      OBVIOUS
    <3>1. PICK u \in Users : u = device[d].user /\ u = device'[d].user
      BY <1>3
    <3>2. d \in index[u].members /\ device[d].left <= index[u].left
      BY <3>1 DEF Listed
    <3>3. index[u].left > 1 /\ index[u].left \in Nat
      BY <1>3, <1>4, <3>2 DEF Forever
    <3>4. d \in index'[u].members /\ index'[u].left >= index[u].left - 1 /\ index'[u].left \in Nat
      BY <1>4, <3>2, <3>3 DEF Forever
    <3>5. device'[d].left <= index'[u].left
      BY <1>3, <3>2, <3>3, <3>4
    <3> QED  BY <3>1, <3>4, <3>5 DEF Listed
  <2>3. PICK x \in Calls : /\ calls[x].pc \in {"sadd", "expire"} /\ calls[x].device = d
                           /\ calls[x].user = device[d].user
    BY <1>1, <2>1, <2>2 DEF Covered, Writing
  <2> QED  BY <1>3, <1>6, <2>3 DEF Frame
<1>12. Writes'
  <2> SUFFICES ASSUME NEW x \in Calls, calls'[x] # Idle, calls'[x].own
               PROVE  Owned(calls[x])'
    BY DEF Writes
  <2>1. calls'[x].pc # "idle" /\ calls'[x] = calls[x]
    BY <1>6, IdleCall DEF Frame
  <2>2. Owned(calls[x]) /\ calls[x].user \in Users
    BY <1>1, <2>1, CallFields DEF Writes, TypeOK
  <2>3. PICK k \in CallStates : k = calls[x] /\ k = calls'[x]
    BY <1>6, <2>1
  <2>4. k.pc # "done" => /\ k.device \in Devices /\ device'[k.device] # Gone
                         /\ device'[k.device].user = k.user /\ device'[k.device].status = k.status
    <3> SUFFICES ASSUME k.pc # "done"
                 PROVE  /\ k.device \in Devices /\ device'[k.device] # Gone
                        /\ device'[k.device].user = k.user /\ device'[k.device].status = k.status
      OBVIOUS
    <3>1. /\ k.device \in Devices /\ device[k.device] # Gone
          /\ device[k.device].user = k.user /\ device[k.device].status = k.status
      BY <2>2, <2>3 DEF Owned
    <3>2. device[k.device].left # 1
      BY <1>7, <2>1, <2>3, <3>1
    <3>3. Gone \notin Key
      BY DEF Key, Gone
    <3> QED  BY <1>2, <3>1, <3>2, <3>3
  <2>5. k.pc \in {"expire", "smembers"} => k.device \in index'[k.user].members
    <3> SUFFICES ASSUME k.pc \in {"expire", "smembers"}
                 PROVE  k.device \in index'[k.user].members
      OBVIOUS
    <3>1. k.device \in index[k.user].members /\ k.user \in Users
      BY <2>2, <2>3 DEF Owned
    <3>2. index[k.user].left # 0 /\ index[k.user].left # 1
      BY <1>1, <1>7, <2>1, <2>3, <3>1 DEF TypeOK
    <3>3. index[k.user].left > 1
      BY <1>4, <3>1, <3>2 DEF Forever
    <3> QED  BY <1>4, <3>1, <3>3
  <2>6. k.pc # "set" /\ (k.pc = "mget" => k.device \in k.ids)
    BY <2>2, <2>3 DEF Owned
  <2> QED  BY <2>3, <2>4, <2>5, <2>6 DEF Owned
<1>13. ReadsOwnWrite'
  BY <1>1, <1>6 DEF ReadsOwnWrite, Frame
<1> QED  BY <1>9, <1>10, <1>11, <1>12, <1>13 DEF Inv

LEMMA StutterStep ==
    ASSUME Inv, UNCHANGED vars
    PROVE  Inv'
<1> USE DEF vars
<1>1. TypeOK' /\ Keys'
  BY DEF Inv, TypeOK, Keys
<1>2. Covered'
  BY DEF Inv, Covered, Live, Listed, Writing
<1>3. Writes' /\ ReadsOwnWrite'
  BY DEF Inv, Writes, Owned, ReadsOwnWrite
<1> QED  BY <1>1, <1>2, <1>3 DEF Inv

LEMMA InvNext == Inv /\ [Next]_vars => Inv'
<1> SUFFICES ASSUME Inv, [Next]_vars PROVE Inv'
  OBVIOUS
<1>1. ASSUME NEW c \in Calls, NEW u \in Users, NEW d \in Devices, NEW s \in Statuses,
             Update(c, u, d, s)
      PROVE  Inv'
  BY <1>1, UpdateStep
<1>2. ASSUME NEW c \in Calls, NEW u \in Users, Ask(c, u)
      PROVE  Inv'
  BY <1>2, AskStep
<1>3. ASSUME NEW c \in Calls, Set(c) \/ SAdd(c) \/ ExpireIndex(c)
      PROVE  Inv'
  BY <1>3, SetStep, SAddStep, ExpireIndexStep
<1>4. ASSUME NEW c \in Calls, SMembers(c) \/ MGet(c) \/ Return(c) \/ CutOff(c) \/ ReadFails(c)
      PROVE  Inv'
  BY <1>4, SMembersStep, MGetStep, ReturnStep, CutOffStep, ReadFailsStep
<1>5. CASE \E w \in sweeps : SRem(w)
  BY <1>5, SRemStep
<1>6. CASE Tick
  BY <1>6, TickStep
<1>7. CASE UNCHANGED vars
  BY <1>7, StutterStep
<1> QED
  BY <1>1, <1>2, <1>3, <1>4, <1>5, <1>6, <1>7 DEF Next

-----------------------------------------------------------------------------
(* Theorems *)

\* The inductive invariant holds in every state of the presence store.
THEOREM Invariance == Spec => []Inv
BY InvInit, InvNext, PTL DEF Spec

\* Every variable keeps its type: a set without members has no time to live.
THEOREM TypeCorrect == Spec => []TypeOK
<1>1. Inv => TypeOK
  BY DEF Inv
<1> QED  BY Invariance, <1>1, PTL

\* The set of a user covers the live devices of the user but for those that a late
\* removal, a pipeline cut off or the end of the set in the middle of an update has
\* taken out: the order SET, SADD, EXPIRE and the equal times to live see to it.
THEOREM Coverage == Spec => []IndexCoversLive
<1>1. Inv => IndexCoversLive
  BY DEF Inv, IndexCoversLive, Covered, Listed
<1> QED  BY Invariance, <1>1, PTL

\* An update answers at least what it wrote, however many calls run at a time.
THEOREM OwnWrite == Spec => []ReadsOwnWrite
<1>1. Inv => ReadsOwnWrite
  BY DEF Inv
<1> QED  BY Invariance, <1>1, PTL

=============================================================================
