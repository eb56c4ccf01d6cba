------------------------------- MODULE MCHub -------------------------------
(* Instances of Hub for TLC: connections to one node.                      *)
EXTENDS Hub

CONSTANTS n1, u1, u2, d1, d2

OneNode == [c \in Conns |-> n1]

TwoUsers == [d \in Devices |-> IF d = d1 THEN u1 ELSE u2]

\* Every connection is the first user's at first; one of Again may go on as the
\* second user, and its writes do not fail by themselves.
MCIdentities ==
    \A c \in Conns :
        /\ dev[c] = NoDevice => dev'[c] \in {d1, NoDevice}
        /\ left'[c] # left[c] => dev'[c] = d2
        /\ Cardinality(left'[c]) <= 1
        /\ c \in Again /\ pc'[c] = pc[c] => writer'[c] \in {writer[c], "wait", "writing"}

\* Calls are the first user's, presence expires for the second.
MCEvents ==
    pc' = pc =>
        /\ \A e \in Events : route'[e] # route[e] => route'[e] = [user |-> u1, except |-> d2]
        /\ d1 \in online => d1 \in online'

MCFairSpec == Init /\ [][Next /\ MCIdentities /\ MCEvents]_vars /\ Fairness

=============================================================================
