-------------------------- MODULE AtomicCallStore --------------------------
(***************************************************************************)
(* The store that the call service is written for (the Store interface of  *)
(* internal/call/store.go): a call is created once, every Update applies   *)
(* its closure to the current value in one step and at most once, and a    *)
(* call that is over stays over.  RedisCallStore implements this.          *)
(***************************************************************************)
CONSTANTS Calls, Users, Clients

VARIABLES
    status,   \* "none", "live", "over" or "gone" (expired)
    parts,    \* the participants
    done      \* the requests whose closure has been applied

vars == <<status, parts, done>>

Init ==
    /\ status = [c \in Calls |-> "none"]
    /\ parts = [c \in Calls |-> {}]
    /\ done = [c \in Calls |-> {}]

Put(c) ==
    /\ status[c] = "none"
    /\ status' = [status EXCEPT ![c] = "live"]
    /\ \E ps \in SUBSET Users : parts' = [parts EXCEPT ![c] = ps]
    /\ UNCHANGED done

\* A closure that refuses calls that are over: it adds a user or ends the call.
Change(c, k) ==
    /\ status[c] = "live"
    /\ k \notin done[c]
    /\ done' = [done EXCEPT ![c] = @ \cup {k}]
    /\ \/ status' = [status EXCEPT ![c] = "over"] /\ UNCHANGED parts
       \/ /\ \E u \in Users : parts' = [parts EXCEPT ![c] = @ \cup {u}]
          /\ UNCHANGED status

\* A closure that accepts calls that are over, and leaves them over (Resume).
Touch(c, k) ==
    /\ status[c] \in {"live", "over"}
    /\ k \notin done[c]
    /\ done' = [done EXCEPT ![c] = @ \cup {k}]
    /\ UNCHANGED <<status, parts>>

Expire(c) ==
    /\ status[c] \in {"live", "over"}
    /\ status' = [status EXCEPT ![c] = "gone"]
    /\ UNCHANGED <<parts, done>>

Next == \E c \in Calls : \/ Put(c)
                         \/ Expire(c)
                         \/ \E k \in Clients : Change(c, k) \/ Touch(c, k)

Spec == Init /\ [][Next]_vars

=============================================================================
