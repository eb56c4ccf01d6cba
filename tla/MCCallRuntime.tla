--------------------------- MODULE MCCallRuntime ---------------------------
(* Instances of CallRuntime for TLC. *)
EXTENDS CallRuntime

CONSTANT FirstUser  \* the caller, of users that are interchangeable

\* Liveness rules out SYMMETRY; that one fixed user calls is sound instead, since
\* a behaviour of another caller is one of this caller with the users renamed.
MCNext == Next /\ \A c \in Calls : caller'[c] \in {NoUser, FirstUser}

MCSpec == Init /\ [][MCNext]_vars /\ Fairness

=============================================================================
