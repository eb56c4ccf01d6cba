----------------------- MODULE RedisCallStoreProofs -----------------------
(* Proofs about RedisCallStore for any number of calls, users, clients,    *)
(* readers, retries and faults.                                            *)
EXTENDS RedisCallStore, TLAPS

USE NullAssumption, RetryAssumption

-----------------------------------------------------------------------------
(* Type correctness *)

\* A commit writes well-typed values.
LEMMA CommitType ==
    ASSUME Inv, NEW k \in Clients, Commit(k)
    PROVE  /\ status' \in [Calls -> {"none", "gone"} \cup Stored]
           /\ parts' \in [Calls -> SUBSET Users]
           /\ done' \in [Calls -> SUBSET Clients]
           /\ index' \in [Users -> SUBSET Calls]
           /\ dirty' \in SUBSET Clients
<1>1. pc[k] = "exec" /\ call[k] \in Calls /\ user[k] \in Users
    BY DEF Inv, Positions, Commit
<1>2. snap[k] \in Values
    BY DEF Inv, TypeOK
<1>3. /\ snap[k].status \in Stored
      /\ snap[k].parts \in SUBSET Users
      /\ snap[k].done \in SUBSET Clients
    BY <1>2 DEF Values
<1>4. Joined(k) \in SUBSET Users
    BY <1>1, <1>3 DEF Joined
<1>5. Indexed(k, call[k]) \in [Users -> SUBSET Calls]
    BY <1>1 DEF Indexed, Inv, TypeOK
<1> QED BY <1>1, <1>3, <1>4, <1>5 DEF Inv, TypeOK, Commit, Changes, Stored

\* Every step keeps every variable in its type.
LEMMA TypeStep == Inv /\ [Next]_vars => TypeOK'
<1> SUFFICES ASSUME Inv, [Next]_vars PROVE TypeOK'
    OBVIOUS
<1> USE DEF valueVars, clientVars, readerVars
<1>t. TypeOK
    BY DEF Inv
<1>1. ASSUME NEW k \in Clients, ClientNext(k) PROVE TypeOK'
    <2>1. ASSUME NEW c \in Calls, NEW ps \in SUBSET Users, PutBegin(k, c, ps) PROVE TypeOK'
        BY <1>t, <2>1 DEF TypeOK, PutBegin, Goto, Ops
    <2>2. CASE PutSet(k)
        BY <1>t, <2>2 DEF TypeOK, PutSet, Goto, Stored
    <2>3. ASSUME NEW u \in Users, PutIndex(k, u) PROVE TypeOK'
        <3>1. call[k] \in Calls
            BY <2>3 DEF PutIndex, Indexing, Inv, Positions
        <3> QED BY <1>t, <2>3, <3>1 DEF TypeOK, PutIndex
    <2>4. CASE PutEnd(k)
        BY <1>t, <2>4 DEF TypeOK, PutEnd, Goto
    <2>5. ASSUME NEW c \in Calls, NEW o \in Ops, NEW u \in Users, UpdateBegin(k, c, o, u)
          PROVE  TypeOK'
        BY <1>t, <2>5 DEF TypeOK, UpdateBegin, Goto
    <2>6. CASE Watch(k)
        BY <1>t, <2>6 DEF TypeOK, Watch, Goto
    <2>7. CASE Get(k)
        <3>1. call[k] \in Calls
            BY <2>7 DEF Get, Inv, Positions
        <3> DEFINE v == [status |-> status[call[k]], parts |-> parts[call[k]],
                         done |-> done[call[k]]]
        <3>2. status[call[k]] \in Stored => v \in Values
            BY <1>t, <3>1 DEF TypeOK, Values
        <3>3. snap' \in [Clients -> Values] /\ pc' \in [Clients -> {"idle", "set", "index",
                  "watch", "get", "exec", "done", "refused", "conflict", "error"}]
            BY <1>t, <2>7, <3>2 DEF TypeOK, Get, Goto, Refuses
        <3> QED BY <1>t, <2>7, <3>3 DEF TypeOK, Get
    <2>8. CASE Exec_Conflict(k)
        <3>1. tries[k] + 1 \in 0..MaxRetries
            BY <1>t, <2>8 DEF TypeOK, Exec_Conflict, Inv, Positions
        <3> QED BY <1>t, <2>8, <3>1 DEF TypeOK, Exec_Conflict, Goto
    <2>9. CASE Exec(k)
        BY <1>t, <2>9, CommitType DEF TypeOK, Exec, Goto
    <2>10. CASE ConnectionError(k)
        BY <1>t, <2>10 DEF TypeOK, ConnectionError, Goto, Fault
    <2>11. CASE Exec_Error(k)
        <3>1. faults' \in 0..MaxFaults /\ pc' \in [Clients -> {"idle", "set", "index",
                  "watch", "get", "exec", "done", "refused", "conflict", "error"}]
            BY <1>t, <2>11 DEF TypeOK, Exec_Error, Goto, Fault
        <3>2. CASE Commit(k)
            BY <1>t, <2>11, <3>1, <3>2, CommitType DEF TypeOK, Exec_Error
        <3>3. CASE UNCHANGED <<valueVars, index, dirty>>
            BY <1>t, <2>11, <3>1, <3>3 DEF TypeOK, Exec_Error
        <3> QED BY <2>11, <3>2, <3>3 DEF Exec_Error
    <2> QED BY <1>1, <2>1, <2>2, <2>3, <2>4, <2>5, <2>6, <2>7, <2>8, <2>9, <2>10, <2>11
            DEF ClientNext
<1>2. ASSUME NEW c \in Calls, Expire(c) PROVE TypeOK'
    BY <1>t, <1>2 DEF TypeOK, Expire, Changes
<1>3. ASSUME NEW r \in Readers, NEW u \in Users, Members(r, u) PROVE TypeOK'
    BY <1>t, <1>3 DEF TypeOK, Members
<1>4. ASSUME NEW r \in Readers, MGet(r) PROVE TypeOK'
    BY <1>t, <1>4 DEF TypeOK, MGet
<1>5. ASSUME NEW r \in Readers, MGetError(r) PROVE TypeOK'
    BY <1>t, <1>5 DEF TypeOK, MGetError, Fault
<1>6. ASSUME NEW u \in Users, NEW c \in Calls, SRem(u, c) PROVE TypeOK'
    BY <1>t, <1>6 DEF TypeOK, SRem
<1>7. CASE UNCHANGED vars
    BY <1>t, <1>7 DEF TypeOK, vars
<1> QED BY <1>1, <1>2, <1>3, <1>4, <1>5, <1>6, <1>7 DEF Next

-----------------------------------------------------------------------------
(* The inductive invariant *)

\* The parts of the invariant besides the types.
Rest ==
    /\ FreshSnapshot
    /\ Positions
    /\ PutsAlone
    /\ IndexOfStored
    /\ NoLostUpdate
    /\ LiveCallsIndexed

\* What EXEC does to the call of client k, whose snapshot WATCH has kept fresh:
\* it applies the closure to the current value.
LEMMA CommitEffect ==
    ASSUME Inv, NEW k \in Clients, Commit(k)
    PROVE  /\ call[k] \in Calls /\ pc[k] = "exec" /\ op[k] # "put"
           /\ status[call[k]] \in Stored
           /\ status[call[k]] = "over" => op[k] = "touch"
           /\ status'[call[k]] = IF op[k] = "end" THEN "over" ELSE status[call[k]]
           /\ parts'[call[k]] = Joined(k)
           /\ Joined(k) = IF op[k] = "join" THEN parts[call[k]] \cup {user[k]} ELSE parts[call[k]]
           /\ done'[call[k]] = done[call[k]] \cup {k}
           /\ \A d \in Calls \ {call[k]} : /\ status'[d] = status[d]
                                         /\ parts'[d] = parts[d]
                                         /\ done'[d] = done[d]
           /\ \A u \in Users, d \in Calls :
                 d \in index'[u] <=> d \in index[u] \/ (d = call[k] /\ u \in Joined(k))
           /\ \A j \in Clients :
                 j \in dirty' <=> j \in dirty \/ (pc[j] \in {"get", "exec"} /\ call[j] = call[k])
<1>1. call[k] \in Calls /\ pc[k] = "exec" /\ op[k] # "put" /\ k \notin dirty
    BY DEF Inv, Positions, Commit, Conflict
<1>2. /\ status[call[k]] = snap[k].status
      /\ parts[call[k]] = snap[k].parts
      /\ done[call[k]] = snap[k].done
      /\ ~Refuses(op[k], snap[k].status)
    BY <1>1 DEF Inv, FreshSnapshot
<1>3. snap[k].status \in Stored
    BY DEF Inv, TypeOK, Values
<1>4. Joined(k) = IF op[k] = "join" THEN parts[call[k]] \cup {user[k]} ELSE parts[call[k]]
    BY <1>2 DEF Joined
<1>5. \A u \in Users, d \in Calls :
         d \in index'[u] <=> d \in index[u] \/ (d = call[k] /\ u \in Joined(k))
    BY DEF Commit, Indexed
<1>6. \A j \in Clients :
         j \in dirty' <=> j \in dirty \/ (pc[j] \in {"get", "exec"} /\ call[j] = call[k])
    BY DEF Commit, Changes
<1>7. status[call[k]] = "over" => op[k] = "touch"
    BY <1>2 DEF Refuses
<1> QED BY <1>1, <1>2, <1>3, <1>4, <1>5, <1>6, <1>7 DEF Inv, TypeOK, Commit

\* A commit keeps the invariant, whether or not its reply arrives.
LEMMA CommitStep ==
    ASSUME Inv, TypeOK', NEW k \in Clients, NEW p \in {"done", "error"}, Commit(k),
           pc' = [pc EXCEPT ![k] = p],
           UNCHANGED <<call, op, user, snap, tries, todo, readerVars>>
    PROVE  Rest'
<1> USE DEF readerVars
<1>t. TypeOK
    BY DEF Inv
<1>1. FreshSnapshot'
    BY <1>t, CommitEffect DEF Inv, TypeOK, FreshSnapshot, Positions
<1>2. Positions'
    BY <1>t, CommitEffect DEF Inv, TypeOK, Positions
<1>3. PutsAlone'
    <2>1. \A j \in Clients : pc'[j] \in {"set", "index"} => pc[j] = pc'[j] /\ call[j] \in Calls
        BY <1>t DEF Inv, TypeOK, Positions
    <2>2. \A c \in Calls : status'[c] = status[c] \/ (c = call[k] /\ status'[c] \in Stored)
        BY <1>t, CommitEffect DEF Stored
    <2>3. \A j \in Clients : pc[j] = "set" => call[j] # call[k]
        BY CommitEffect DEF Inv, PutsAlone
    <2> QED BY <2>1, <2>2, <2>3 DEF Inv, PutsAlone, Stored
<1>4. IndexOfStored'
    BY <1>t, CommitEffect DEF Inv, TypeOK, IndexOfStored, Stored
<1>5. NoLostUpdate'
    BY <1>t, CommitEffect DEF Inv, TypeOK, NoLostUpdate, Positions
<1>6. LiveCallsIndexed'
    BY <1>t, CommitEffect DEF Inv, TypeOK, LiveCallsIndexed, Unindexed
<1> QED BY <1>1, <1>2, <1>3, <1>4, <1>5, <1>6 DEF Rest

\* A step of a client keeps every part of the invariant.
LEMMA ClientStep ==
    ASSUME Inv, TypeOK', NEW k \in Clients, ClientNext(k)
    PROVE  Rest'
<1> USE DEF valueVars, readerVars
<1>t. TypeOK
    BY DEF Inv
<1>1. ASSUME NEW c \in Calls, NEW ps \in SUBSET Users, PutBegin(k, c, ps) PROVE Rest'
    <2>1. FreshSnapshot'
        BY <1>t, <1>1 DEF Inv, TypeOK, PutBegin, Goto, FreshSnapshot, Refuses
    <2>2. Positions'
        BY <1>t, <1>1 DEF Inv, TypeOK, PutBegin, Goto, Positions
    <2>3. PutsAlone'
        BY <1>t, <1>1 DEF Inv, TypeOK, PutBegin, Goto, PutsAlone, Positions
    <2>4. IndexOfStored'
        BY <1>t, <1>1 DEF Inv, TypeOK, PutBegin, Goto, IndexOfStored
    <2>5. NoLostUpdate'
        BY <1>t, <1>1 DEF Inv, TypeOK, PutBegin, Goto, NoLostUpdate, Positions
    <2>6. LiveCallsIndexed'
        BY <1>t, <1>1 DEF Inv, TypeOK, PutBegin, Goto, LiveCallsIndexed, Unindexed, Positions
    <2> QED BY <2>1, <2>2, <2>3, <2>4, <2>5, <2>6 DEF Rest
<1>2. CASE PutSet(k)
    <2>1. FreshSnapshot'
        BY <1>t, <1>2 DEF Inv, TypeOK, PutSet, Goto, FreshSnapshot, Refuses, PutsAlone, Positions
    <2>2. Positions'
        BY <1>t, <1>2 DEF Inv, TypeOK, PutSet, Goto, Positions
    <2>3. PutsAlone'
        BY <1>t, <1>2 DEF Inv, TypeOK, PutSet, Goto, PutsAlone, Positions
    <2>4. IndexOfStored'
        BY <1>t, <1>2 DEF Inv, TypeOK, PutSet, Goto, IndexOfStored, PutsAlone, Positions
    <2>5. NoLostUpdate'
        BY <1>t, <1>2 DEF Inv, TypeOK, PutSet, Goto, NoLostUpdate, Positions
    <2>6. LiveCallsIndexed'
        BY <1>t, <1>2 DEF Inv, TypeOK, PutSet, Goto, LiveCallsIndexed, Unindexed
    <2> QED BY <2>1, <2>2, <2>3, <2>4, <2>5, <2>6 DEF Rest
<1>3. ASSUME NEW u \in Users, PutIndex(k, u) PROVE Rest'
    <2>1. FreshSnapshot'
        BY <1>t, <1>3 DEF Inv, TypeOK, PutIndex, Indexing, FreshSnapshot, Refuses
    <2>2. Positions'
        BY <1>t, <1>3 DEF Inv, TypeOK, PutIndex, Indexing, Positions
    <2>3. PutsAlone'
        BY <1>t, <1>3 DEF Inv, TypeOK, PutIndex, Indexing, PutsAlone, Positions
    <2>4. IndexOfStored'
        BY <1>t, <1>3 DEF Inv, TypeOK, PutIndex, Indexing, IndexOfStored, PutsAlone
    <2>5. NoLostUpdate'
        BY <1>t, <1>3 DEF Inv, TypeOK, PutIndex, Indexing, NoLostUpdate, Positions
    <2>6. LiveCallsIndexed'
        BY <1>t, <1>3 DEF Inv, TypeOK, PutIndex, Indexing, LiveCallsIndexed, Unindexed
    <2> QED BY <2>1, <2>2, <2>3, <2>4, <2>5, <2>6 DEF Rest
<1>4. CASE PutEnd(k)
    <2>1. FreshSnapshot'
        BY <1>t, <1>4 DEF Inv, TypeOK, PutEnd, Goto, FreshSnapshot, Refuses
    <2>2. Positions'
        BY <1>t, <1>4 DEF Inv, TypeOK, PutEnd, Goto, Positions
    <2>3. PutsAlone'
        BY <1>t, <1>4 DEF Inv, TypeOK, PutEnd, Goto, PutsAlone, Positions
    <2>4. IndexOfStored'
        BY <1>t, <1>4 DEF Inv, TypeOK, PutEnd, Goto, IndexOfStored
    <2>5. NoLostUpdate'
        BY <1>t, <1>4 DEF Inv, TypeOK, PutEnd, Goto, NoLostUpdate, Positions
    <2>6. LiveCallsIndexed'
        BY <1>t, <1>4 DEF Inv, TypeOK, PutEnd, Goto, LiveCallsIndexed, Unindexed
    <2> QED BY <2>1, <2>2, <2>3, <2>4, <2>5, <2>6 DEF Rest
<1>5. ASSUME NEW c \in Calls, NEW o \in Ops, NEW u \in Users, UpdateBegin(k, c, o, u)
          PROVE  Rest'
    <2>1. FreshSnapshot'
        BY <1>t, <1>5 DEF Inv, TypeOK, UpdateBegin, Goto, FreshSnapshot, Refuses
    <2>2. Positions'
        BY <1>t, <1>5 DEF Inv, TypeOK, UpdateBegin, Goto, Positions
    <2>3. PutsAlone'
        BY <1>t, <1>5 DEF Inv, TypeOK, UpdateBegin, Goto, PutsAlone, Positions, IndexOfStored
    <2>4. IndexOfStored'
        BY <1>t, <1>5 DEF Inv, TypeOK, UpdateBegin, Goto, IndexOfStored
    <2>5. NoLostUpdate'
        BY <1>t, <1>5 DEF Inv, TypeOK, UpdateBegin, Goto, NoLostUpdate, Positions
    <2>6. LiveCallsIndexed'
        BY <1>t, <1>5 DEF Inv, TypeOK, UpdateBegin, Goto, LiveCallsIndexed, Unindexed, Positions
    <2> QED BY <2>1, <2>2, <2>3, <2>4, <2>5, <2>6 DEF Rest
<1>6. CASE Watch(k)
    <2>1. FreshSnapshot'
        BY <1>t, <1>6 DEF Inv, TypeOK, Watch, Goto, FreshSnapshot, Refuses
    <2>2. Positions'
        BY <1>t, <1>6 DEF Inv, TypeOK, Watch, Goto, Positions
    <2>3. PutsAlone'
        BY <1>t, <1>6 DEF Inv, TypeOK, Watch, Goto, PutsAlone, Positions
    <2>4. IndexOfStored'
        BY <1>t, <1>6 DEF Inv, TypeOK, Watch, Goto, IndexOfStored
    <2>5. NoLostUpdate'
        BY <1>t, <1>6 DEF Inv, TypeOK, Watch, Goto, NoLostUpdate, Positions
    <2>6. LiveCallsIndexed'
        BY <1>t, <1>6 DEF Inv, TypeOK, Watch, Goto, LiveCallsIndexed, Unindexed
    <2> QED BY <2>1, <2>2, <2>3, <2>4, <2>5, <2>6 DEF Rest
<1>7. CASE Get(k)
    <2>1. FreshSnapshot'
        BY <1>t, <1>7 DEF Inv, TypeOK, Get, Goto, FreshSnapshot, Refuses
    <2>2. Positions'
        BY <1>t, <1>7 DEF Inv, TypeOK, Get, Goto, Positions
    <2>3. PutsAlone'
        BY <1>t, <1>7 DEF Inv, TypeOK, Get, Goto, PutsAlone, Positions
    <2>4. IndexOfStored'
        BY <1>t, <1>7 DEF Inv, TypeOK, Get, Goto, IndexOfStored
    <2>5. NoLostUpdate'
        BY <1>t, <1>7 DEF Inv, TypeOK, Get, Goto, NoLostUpdate, Positions
    <2>6. LiveCallsIndexed'
        BY <1>t, <1>7 DEF Inv, TypeOK, Get, Goto, LiveCallsIndexed, Unindexed
    <2> QED BY <2>1, <2>2, <2>3, <2>4, <2>5, <2>6 DEF Rest
<1>8. CASE Exec_Conflict(k)
    <2>1. FreshSnapshot'
        BY <1>t, <1>8 DEF Inv, TypeOK, Exec_Conflict, Goto, FreshSnapshot, Refuses
    <2>2. Positions'
        BY <1>t, <1>8 DEF Inv, TypeOK, Exec_Conflict, Goto, Positions
    <2>3. PutsAlone'
        BY <1>t, <1>8 DEF Inv, TypeOK, Exec_Conflict, Goto, PutsAlone, Positions
    <2>4. IndexOfStored'
        BY <1>t, <1>8 DEF Inv, TypeOK, Exec_Conflict, Goto, IndexOfStored
    <2>5. NoLostUpdate'
        BY <1>t, <1>8 DEF Inv, TypeOK, Exec_Conflict, Goto, NoLostUpdate, Positions
    <2>6. LiveCallsIndexed'
        BY <1>t, <1>8 DEF Inv, TypeOK, Exec_Conflict, Goto, LiveCallsIndexed, Unindexed
    <2> QED BY <2>1, <2>2, <2>3, <2>4, <2>5, <2>6 DEF Rest
<1>9. CASE Exec(k)
    BY <1>9, CommitStep DEF Exec, Goto
<1>10. CASE ConnectionError(k)
    <2>1. FreshSnapshot'
        BY <1>t, <1>10 DEF Inv, TypeOK, ConnectionError, Goto, FreshSnapshot, Refuses
    <2>2. Positions'
        BY <1>t, <1>10 DEF Inv, TypeOK, ConnectionError, Goto, Positions
    <2>3. PutsAlone'
        BY <1>t, <1>10 DEF Inv, TypeOK, ConnectionError, Goto, PutsAlone, Positions
    <2>4. IndexOfStored'
        BY <1>t, <1>10 DEF Inv, TypeOK, ConnectionError, Goto, IndexOfStored
    <2>5. NoLostUpdate'
        BY <1>t, <1>10 DEF Inv, TypeOK, ConnectionError, Goto, NoLostUpdate, Positions
    <2>6. LiveCallsIndexed'
        BY <1>t, <1>10 DEF Inv, TypeOK, ConnectionError, Goto, LiveCallsIndexed, Unindexed
    <2> QED BY <2>1, <2>2, <2>3, <2>4, <2>5, <2>6 DEF Rest
<1>11. CASE Exec_Error(k)
    <2>1. CASE Commit(k)
        BY <1>11, <2>1, CommitStep DEF Exec_Error, Goto
    <2>2. CASE UNCHANGED <<valueVars, index, dirty>>
        <3>1. FreshSnapshot'
            BY <1>t, <1>11, <2>2 DEF Inv, TypeOK, Exec_Error, Goto, FreshSnapshot, Refuses
        <3>2. Positions'
            BY <1>t, <1>11, <2>2 DEF Inv, TypeOK, Exec_Error, Goto, Positions
        <3>3. PutsAlone'
            BY <1>t, <1>11, <2>2 DEF Inv, TypeOK, Exec_Error, Goto, PutsAlone, Positions
        <3>4. IndexOfStored'
            BY <1>t, <1>11, <2>2 DEF Inv, TypeOK, Exec_Error, Goto, IndexOfStored
        <3>5. NoLostUpdate'
            BY <1>t, <1>11, <2>2 DEF Inv, TypeOK, Exec_Error, Goto, NoLostUpdate, Positions
        <3>6. LiveCallsIndexed'
            BY <1>t, <1>11, <2>2 DEF Inv, TypeOK, Exec_Error, Goto, LiveCallsIndexed, Unindexed
        <3> QED BY <3>1, <3>2, <3>3, <3>4, <3>5, <3>6 DEF Rest
    <2> QED BY <1>11, <2>1, <2>2 DEF Exec_Error
<1> QED BY <1>1, <1>2, <1>3, <1>4, <1>5, <1>6, <1>7, <1>8, <1>9, <1>10, <1>11
        DEF ClientNext

\* Expiry of a call keeps every part of the invariant.
LEMMA ExpireStep ==
    ASSUME Inv, TypeOK', NEW c \in Calls, Expire(c)
    PROVE  Rest'
<1> USE DEF readerVars
<1>t. TypeOK
    BY DEF Inv
<1>1. FreshSnapshot'
    BY <1>t DEF Inv, TypeOK, Expire, Changes, FreshSnapshot, Positions, Refuses
<1>2. Positions'
    BY <1>t DEF Inv, TypeOK, Expire, Positions
<1>3. PutsAlone'
    BY <1>t DEF Inv, TypeOK, Expire, PutsAlone, Stored
<1>4. IndexOfStored'
    BY <1>t DEF Inv, TypeOK, Expire, IndexOfStored, Stored
<1>5. NoLostUpdate'
    BY <1>t DEF Inv, TypeOK, Expire, NoLostUpdate
<1>6. LiveCallsIndexed'
    BY <1>t DEF Inv, TypeOK, Expire, LiveCallsIndexed, Unindexed
<1> QED BY <1>1, <1>2, <1>3, <1>4, <1>5, <1>6 DEF Rest

\* Reading and cleaning the index keeps every part of the invariant: what is
\* removed is of a call that is over or gone.
LEMMA ReaderStep ==
    ASSUME Inv, TypeOK',
           \/ \E r \in Readers, u \in Users : Members(r, u)
           \/ \E r \in Readers : MGet(r) \/ MGetError(r)
           \/ \E u \in Users, c \in Calls : SRem(u, c)
    PROVE  Rest'
<1> USE DEF valueVars, clientVars
<1>t. TypeOK
    BY DEF Inv
<1>0. UNCHANGED <<status, parts, done, pc, call, op, user, snap, dirty, tries, todo>>
    BY DEF Members, MGet, MGetError, SRem
<1>1. FreshSnapshot'
    BY <1>0 DEF Inv, FreshSnapshot, Refuses
<1>2. Positions'
    BY <1>0 DEF Inv, Positions
<1>3. PutsAlone'
    BY <1>0 DEF Inv, PutsAlone
<1>4. IndexOfStored'
    <2>1. ASSUME NEW r \in Readers, NEW u \in Users, Members(r, u) PROVE IndexOfStored'
        BY <1>t, <1>0, <2>1 DEF Inv, TypeOK, IndexOfStored, Members
    <2>2. ASSUME NEW r \in Readers, MGet(r) PROVE IndexOfStored'
        <3>1. \A c \in seen[r] : status[c] # "live" => status[c] \in {"over", "gone"}
            BY <1>t DEF Inv, TypeOK, IndexOfStored, Stored
        <3>2. \A u \in Users, c \in Calls : <<u, c>> \in removal' =>
                 <<u, c>> \in removal \/ (c \in seen[r] /\ status[c] # "live")
            BY <2>2 DEF MGet
        <3> QED BY <1>t, <1>0, <2>2, <3>1, <3>2 DEF Inv, TypeOK, IndexOfStored, MGet
    <2>3. ASSUME NEW r \in Readers, MGetError(r) PROVE IndexOfStored'
        BY <1>t, <1>0, <2>3 DEF Inv, TypeOK, IndexOfStored, MGetError
    <2>4. ASSUME NEW u \in Users, NEW c \in Calls, SRem(u, c) PROVE IndexOfStored'
        BY <1>t, <1>0, <2>4 DEF Inv, TypeOK, IndexOfStored, SRem
    <2> QED BY <2>1, <2>2, <2>3, <2>4
<1>5. NoLostUpdate'
    BY <1>0 DEF Inv, NoLostUpdate
<1>6. LiveCallsIndexed'
    <2>1. \A c \in Calls, u \in Users :
             status[c] = "live" /\ c \in index[u] => c \in index'[u]
        <3>1. ASSUME NEW u \in Users, NEW c \in Calls, SRem(u, c) PROVE <2>1
            BY <1>t, <3>1 DEF Inv, TypeOK, IndexOfStored, SRem
        <3>2. CASE UNCHANGED index
            BY <3>2
        <3> QED BY <3>1, <3>2 DEF Members, MGet, MGetError
    <2> QED BY <1>0, <2>1 DEF Inv, LiveCallsIndexed, Unindexed
<1> QED BY <1>1, <1>2, <1>3, <1>4, <1>5, <1>6 DEF Rest

\* The invariant holds initially.
LEMMA InvInit == Init => Inv
BY DEF Init, Inv, TypeOK, FreshSnapshot, Positions, PutsAlone, IndexOfStored, NoLostUpdate,
       LiveCallsIndexed, Values, NoValue, Stored, Ops

\* The invariant is inductive.
LEMMA InvStep == Inv /\ [Next]_vars => Inv'
<1> SUFFICES ASSUME Inv, [Next]_vars PROVE Inv'
    OBVIOUS
<1>t. TypeOK'
    BY TypeStep
<1>1. CASE \E k \in Clients : ClientNext(k)
    BY <1>t, <1>1, ClientStep DEF Inv, Rest
<1>2. CASE \E c \in Calls : Expire(c)
    BY <1>t, <1>2, ExpireStep DEF Inv, Rest
<1>3. CASE \/ \E r \in Readers, u \in Users : Members(r, u)
           \/ \E r \in Readers : MGet(r) \/ MGetError(r)
           \/ \E u \in Users, c \in Calls : SRem(u, c)
    BY <1>t, <1>3, ReaderStep DEF Inv, Rest
<1>4. CASE UNCHANGED vars
    BY <1>4 DEF vars, Inv, TypeOK, FreshSnapshot, Positions, PutsAlone, IndexOfStored,
                NoLostUpdate, LiveCallsIndexed, Unindexed, Refuses
<1> QED BY <1>1, <1>2, <1>3, <1>4 DEF Next

\* The inductive invariant of the store.
THEOREM Invariance == Spec => []Inv
BY InvInit, InvStep, PTL DEF Spec

-----------------------------------------------------------------------------
(* Theorems *)

\* Every variable keeps its type.
THEOREM TypeCorrect == Spec => []TypeOK
BY Invariance, PTL DEF Inv

\* An Update that returned the call is never lost, however many nodes update
\* the call concurrently.
THEOREM UpdatesAreKept == Spec => []NoLostUpdate
BY Invariance, PTL DEF Inv

\* An Update that was refused or ran out of retries has left no trace.
THEOREM FailuresLeaveNoTrace == Spec => []FailedUpdatesLeaveNoTrace
<1>1. Inv => FailedUpdatesLeaveNoTrace
    BY DEF Inv, Positions, FailedUpdatesLeaveNoTrace
<1> QED BY <1>1, Invariance, PTL

\* The asynchronous cleanup never hides a live call from its participants.
THEOREM CleanupIsSafe == Spec => []LiveCallsIndexed
BY Invariance, PTL DEF Inv

\* Every step of the implementation is a step of the atomic store, or leaves
\* the values alone.
LEMMA StoreStep == Inv /\ [Next]_vars => [Store!Next]_(Store!vars)
<1> SUFFICES ASSUME Inv, [Next]_vars PROVE Store!Next \/ UNCHANGED <<status, parts, done>>
    BY DEF Store!vars
<1> USE DEF valueVars
<1>t. TypeOK
    BY DEF Inv
<1>1. ASSUME NEW k \in Clients, Commit(k) PROVE Store!Next
    <2> DEFINE c == call[k]
    <2>1. c \in Calls /\ status[c] \in Stored /\ k \notin done[c] /\ op[k] \in Ops \ {"put"}
          /\ user[k] \in Users
        BY <1>t, <1>1, CommitEffect DEF Inv, TypeOK, Positions, Ops
    <2>2. done' = [done EXCEPT ![c] = @ \cup {k}]
        BY <1>t, <1>1, CommitEffect DEF Commit, TypeOK
    <2>a. status' = [status EXCEPT ![c] = status'[c]] /\ parts' = [parts EXCEPT ![c] = parts'[c]]
        BY <1>t, <1>1, <2>1 DEF Commit, TypeOK
    <2>b. /\ [status EXCEPT ![c] = status[c]] = status
          /\ [parts EXCEPT ![c] = parts[c]] = parts
        BY <1>t, <2>1 DEF TypeOK
    <2>c. /\ status'[c] = IF op[k] = "end" THEN "over" ELSE status[c]
          /\ parts'[c] = IF op[k] = "join" THEN parts[c] \cup {user[k]} ELSE parts[c]
        <3>1. /\ status'[call[k]] = IF op[k] = "end" THEN "over" ELSE status[call[k]]
              /\ parts'[call[k]] = Joined(k)
              /\ Joined(k) = IF op[k] = "join" THEN parts[call[k]] \cup {user[k]} ELSE parts[call[k]]
            BY <1>1, CommitEffect, Zenon
        <3> QED BY <3>1
    <2>3. CASE op[k] = "touch"
        <3>1. UNCHANGED <<status, parts>>
            BY <2>a, <2>b, <2>c, <2>3
        <3> QED BY <2>1, <2>2, <3>1 DEF Store!Next, Store!Touch, Stored
    <2>4. CASE op[k] = "join"
        <3>1. status[c] = "live"
            BY <1>1, <2>1, <2>4, CommitEffect DEF Stored
        <3>2. status' = status /\ parts' = [parts EXCEPT ![c] = @ \cup {user[k]}]
            BY <2>a, <2>b, <2>c, <2>4
        <3> QED BY <2>1, <2>2, <3>1, <3>2 DEF Store!Next, Store!Change
    <2>5. CASE op[k] = "end"
        <3>1. status[c] = "live"
            BY <1>1, <2>1, <2>5, CommitEffect DEF Stored
        <3>2. parts' = parts /\ status' = [status EXCEPT ![c] = "over"]
            BY <2>a, <2>b, <2>c, <2>5
        <3> QED BY <2>1, <2>2, <3>1, <3>2 DEF Store!Next, Store!Change
    <2> QED BY <2>1, <2>3, <2>4, <2>5 DEF Ops
<1>2. ASSUME NEW k \in Clients, ClientNext(k)
      PROVE  Store!Next \/ UNCHANGED <<status, parts, done>>
    <2>1. CASE PutSet(k)
        <3>1. call[k] \in Calls /\ status[call[k]] = "none" /\ todo[k] \in SUBSET Users
            BY <1>t, <2>1 DEF PutSet, Inv, TypeOK, Positions, PutsAlone
        <3> QED BY <2>1, <3>1 DEF PutSet, Store!Next, Store!Put
    <2>2. CASE Exec(k)
        BY <1>1, <2>2 DEF Exec
    <2>3. CASE Exec_Error(k)
        BY <1>1, <2>3 DEF Exec_Error
    <2> QED BY <1>2, <2>1, <2>2, <2>3 DEF ClientNext, PutBegin, PutIndex, PutEnd, UpdateBegin,
            Watch, Get, Exec_Conflict, ConnectionError
<1>3. ASSUME NEW c \in Calls, Expire(c) PROVE Store!Next
    BY <1>3 DEF Expire, Store!Next, Store!Expire, Stored
<1> QED BY <1>2, <1>3 DEF Next, vars, Members, MGet, MGetError, SRem

\* A call that is over stays over: the abstract store never revives one.
THEOREM OverStaysOver == Spec => OverIsFinal
<1>1. TypeOK /\ [Store!Next]_(Store!vars) =>
          [\A c \in Calls : status[c] = "over" => status'[c] \in {"over", "gone"}]_vars
    BY DEF TypeOK, Store!Next, Store!vars, Store!Put, Store!Change, Store!Touch, Store!Expire
<1> QED BY <1>1, StoreStep, Invariance, PTL DEF Spec, OverIsFinal, Inv

\* RedisCallStore implements AtomicCallStore: concurrent optimistic
\* transactions behave like one closure at a time.
THEOREM Refinement == Spec => ImplementsAtomicStore
<1>1. Init => Store!Init
    BY DEF Init, Store!Init
<1> QED BY <1>1, StoreStep, Invariance, PTL DEF Spec, Store!Spec, ImplementsAtomicStore

=============================================================================
